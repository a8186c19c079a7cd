--------------------------- MODULE InstallationProofs ---------------------------
(***************************************************************************)
(* What holds of the installation for any number of steps, databases,      *)
(* accounts and requests.                                                  *)
(***************************************************************************)
EXTENDS Installation, FiniteSetTheorems, TLAPS

PCs == {"idle"} \cup SavePCs \cup FinishPCs \cup AccountPCs

LEMMA IdleType == Idle \in Task /\ Idle.pc = "idle"
BY DEF Idle, Task, Steps, Changes

-----------------------------------------------------------------------------
\* What a step makes of its task.

PutTask(t) == task' \in [Tasks -> Task] /\ \A u \in Tasks \ {t} : task'[u] = task[u]

LEMMA TaskPut ==
  ASSUME TypeOK, NEW t \in Tasks, NEW x \in Task, task' = [task EXCEPT ![t] = x]
  PROVE  PutTask(t) /\ task'[t] = x
BY DEF TypeOK, PutTask

LEMMA TaskType ==
  ASSUME TypeOK, NEW t \in Tasks
  PROVE  task[t] \in Task
BY DEF TypeOK

LEMMA GoesEffect ==
  ASSUME TypeOK, NEW t \in Tasks, NEW pc \in PCs, Goes(t, pc)
  PROVE  /\ PutTask(t) /\ task'[t].pc = pc
         /\ task'[t].step = task[t].step /\ task'[t].to = task[t].to
         /\ task'[t].email = task[t].email /\ task'[t].change = task[t].change
<1> DEFINE x == [task[t] EXCEPT !.pc = pc]
<1>1. /\ x \in Task /\ x.pc = pc /\ x.step = task[t].step /\ x.to = task[t].to
      /\ x.email = task[t].email /\ x.change = task[t].change
  BY TaskType DEF Task, PCs
<1>2. task' = [task EXCEPT ![t] = x]
  BY DEF Goes, TypeOK
<1>3. QED
  BY <1>1, <1>2, TaskPut

LEMMA EndsEffect ==
  ASSUME TypeOK, NEW t \in Tasks, Ends(t)
  PROVE  PutTask(t) /\ task'[t] = Idle /\ task'[t].pc = "idle"
BY IdleType, TaskPut DEF Ends

LEMMA SaveEffect ==
  ASSUME TypeOK, NEW r \in Requests, NEW s \in Steps, NEW d \in Databases, Save(r, s, d)
  PROVE  /\ PutTask(r) /\ task'[r].pc = "validate" /\ task'[r].step = s
         /\ s = Db => task'[r].to = d
<1>1. PICK e \in Databases \cup {Nowhere} : e = IF s = Db THEN d ELSE Nowhere
  OBVIOUS
<1> DEFINE x == [Idle EXCEPT !.pc = "validate", !.step = s, !.to = e]
<1>2. x \in Task /\ x.pc = "validate" /\ x.step = s /\ x.to = e
  BY IdleType DEF Idle, Task, SavePCs
<1>3. task' = [task EXCEPT ![r] = x] /\ r \in Tasks
  BY <1>1 DEF Save, Tasks
<1>4. QED
  BY <1>1, <1>2, <1>3, TaskPut

LEMMA FinishEffect ==
  ASSUME TypeOK, NEW r \in Requests, NEW e \in Emails, Finish(r, e)
  PROVE  PutTask(r) /\ task'[r].pc = "look" /\ task'[r].email = e
<1> DEFINE x == [Idle EXCEPT !.pc = "look", !.email = e]
<1>1. x \in Task /\ x.pc = "look" /\ x.email = e
  BY IdleType DEF Idle, Task, FinishPCs
<1>2. task' = [task EXCEPT ![r] = x] /\ r \in Tasks
  BY DEF Finish, Tasks
<1>3. QED
  BY <1>1, <1>2, TaskPut

LEMMA CreateUserEffect ==
  ASSUME TypeOK, NEW r \in Requests, NEW e \in Emails, NEW admin \in BOOLEAN,
         CreateUser(r, e, admin)
  PROVE  PutTask(r) /\ task'[r].pc = "exists" /\ task'[r].email = e
<1>1. PICK change \in Changes : change = IF admin THEN "promote" ELSE "demote"
  BY DEF Changes
<1> DEFINE x == [Idle EXCEPT !.pc = "exists", !.email = e, !.change = change]
<1>2. x \in Task /\ x.pc = "exists" /\ x.email = e
  BY IdleType DEF Idle, Task, AccountPCs
<1>3. task' = [task EXCEPT ![r] = x] /\ r \in Tasks
  BY <1>1 DEF CreateUser, Tasks
<1>4. QED
  BY <1>2, <1>3, TaskPut

LEMMA ChangeUserEffect ==
  ASSUME TypeOK, NEW r \in Requests, NEW e \in Emails, NEW change \in Changes,
         ChangeUser(r, e, change)
  PROVE  PutTask(r) /\ task'[r].pc = "check" /\ task'[r].email = e
<1> DEFINE x == [Idle EXCEPT !.pc = "check", !.email = e, !.change = change]
<1>1. x \in Task /\ x.pc = "check" /\ x.email = e
  BY IdleType DEF Idle, Task, AccountPCs
<1>2. task' = [task EXCEPT ![r] = x] /\ r \in Tasks
  BY DEF ChangeUser, Tasks
<1>3. QED
  BY <1>1, <1>2, TaskPut

-----------------------------------------------------------------------------
\* What a step makes of a database.

PutDb(d) == db' \in [Databases -> Database] /\ \A x \in Databases \ {d} : db'[x] = db[x]

LEMMA DbPut ==
  ASSUME TypeOK, NEW d \in Databases, NEW x \in Database, db' = [db EXCEPT ![d] = x]
  PROVE  PutDb(d) /\ db'[d] = x
BY DEF TypeOK, PutDb

LEMMA DbType ==
  ASSUME TypeOK, NEW d \in Databases
  PROVE  /\ db[d] \in Database
         /\ db[d].schema \in BOOLEAN /\ db[d].stored \in SUBSET Skippable
         /\ db[d].users \in SUBSET Emails /\ db[d].admins \in SUBSET Emails
         /\ db[d].disabled \in SUBSET Emails /\ db[d].sessions \in SUBSET Emails
BY DEF TypeOK, Database

SameAccounts(d) ==
  /\ db'[d].users = db[d].users /\ db'[d].admins = db[d].admins
  /\ db'[d].disabled = db[d].disabled

Schema(d) == db' = [db EXCEPT ![d].schema = TRUE]

LEMMA SchemaEffect ==
  ASSUME TypeOK, NEW d \in Databases, Schema(d)
  PROVE  /\ PutDb(d) /\ SameAccounts(d) /\ db'[d].stored = db[d].stored
         /\ db'[d].sessions = db[d].sessions
<1> DEFINE x == [db[d] EXCEPT !.schema = TRUE]
<1>1. /\ x \in Database /\ x.stored = db[d].stored /\ x.users = db[d].users
      /\ x.admins = db[d].admins /\ x.disabled = db[d].disabled /\ x.sessions = db[d].sessions
  BY DbType DEF Database
<1>2. db' = [db EXCEPT ![d] = x]
  BY DEF Schema, TypeOK
<1>3. QED
  BY <1>1, <1>2, DbPut DEF SameAccounts

Stores(d, s) == db' = [db EXCEPT ![d].stored = @ \cup {s}]

LEMMA StoresEffect ==
  ASSUME TypeOK, NEW d \in Databases, NEW s \in Skippable, Stores(d, s)
  PROVE  /\ PutDb(d) /\ SameAccounts(d) /\ db'[d].stored = db[d].stored \cup {s}
         /\ db'[d].sessions = db[d].sessions
<1>1. PICK S \in SUBSET Skippable : S = db[d].stored \cup {s}
  BY DbType
<1> DEFINE x == [db[d] EXCEPT !.stored = S]
<1>2. /\ x \in Database /\ x.stored = S /\ x.users = db[d].users
      /\ x.admins = db[d].admins /\ x.disabled = db[d].disabled /\ x.sessions = db[d].sessions
  BY DbType DEF Database
<1>3. db' = [db EXCEPT ![d] = x]
  BY <1>1 DEF Stores, TypeOK
<1>4. QED
  BY <1>1, <1>2, <1>3, DbPut DEF SameAccounts

SignsIn(d, e) == db' = [db EXCEPT ![d].sessions = @ \cup {e}]

LEMMA SignsInEffect ==
  ASSUME TypeOK, NEW d \in Databases, NEW e \in Emails, SignsIn(d, e)
  PROVE  PutDb(d) /\ SameAccounts(d) /\ db'[d].stored = db[d].stored
<1>1. PICK S \in SUBSET Emails : S = db[d].sessions \cup {e}
  BY DbType
<1> DEFINE x == [db[d] EXCEPT !.sessions = S]
<1>2. /\ x \in Database /\ x.stored = db[d].stored /\ x.users = db[d].users
      /\ x.admins = db[d].admins /\ x.disabled = db[d].disabled
  BY DbType DEF Database
<1>3. db' = [db EXCEPT ![d] = x]
  BY <1>1 DEF SignsIn, TypeOK
<1>4. QED
  BY <1>1, <1>2, <1>3, DbPut DEF SameAccounts

\* The accounts of d become U, of which the administrators A.
Accounts(d, U, A) == db' = [db EXCEPT ![d].users = U, ![d].admins = A]

LEMMA AccountsEffect ==
  ASSUME TypeOK, NEW d \in Databases, NEW U \in SUBSET Emails, NEW A \in SUBSET Emails,
         Accounts(d, U, A)
  PROVE  /\ PutDb(d) /\ db'[d].stored = db[d].stored
         /\ db'[d].users = U /\ db'[d].admins = A /\ db'[d].disabled = db[d].disabled
         /\ db'[d].sessions = db[d].sessions
<1> DEFINE x == [db[d] EXCEPT !.users = U, !.admins = A]
<1>1. /\ x \in Database /\ x.stored = db[d].stored /\ x.users = U /\ x.admins = A
      /\ x.disabled = db[d].disabled /\ x.sessions = db[d].sessions
  BY DbType DEF Database
<1>2. db' = [db EXCEPT ![d] = x]
  BY DEF Accounts, TypeOK
<1>3. QED
  BY <1>1, <1>2, DbPut

\* An account is added, an administrator's or not.
Adds(d, e, A) == /\ PutDb(d) /\ db'[d].stored = db[d].stored
                 /\ db'[d].users = db[d].users \cup {e} /\ db'[d].admins = A
                 /\ db'[d].disabled = db[d].disabled /\ db'[d].sessions = db[d].sessions

LEMMA CreateAdminEffect ==
  ASSUME TypeOK, NEW r \in Requests, CreateAdmin(r)
  PROVE  /\ proc.mysql \in Databases /\ task[r].email \in Emails
         /\ \/ task[r].email \in Here.users /\ Ends(r) /\ UNCHANGED db
            \/ /\ task[r].email \notin Here.users /\ Goes(r, "activate")
               /\ Adds(proc.mysql, task[r].email, Here.admins \cup {task[r].email})
<1>1. proc.mysql \in Databases /\ task[r].email \in Emails /\ r \in Tasks
  BY DEF CreateAdmin, Reachable, TypeOK, Tasks
<1>2. CASE task[r].email \notin Here.users
  <2>1. PICK d \in Databases, e \in Emails : d = proc.mysql /\ e = task[r].email
    BY <1>1
  <2>2. PICK U \in SUBSET Emails, A \in SUBSET Emails :
          U = db[d].users \cup {e} /\ A = db[d].admins \cup {e}
    BY DbType
  <2>3. db' = [db EXCEPT ![d].users = db[d].users \cup {e}, ![d].admins = db[d].admins \cup {e}]
    BY <1>2, <2>1, DbType DEF CreateAdmin, TypeOK, Database
  <2>4. Accounts(d, U, A)
    BY <2>2, <2>3 DEF Accounts
  <2>5. QED
    BY <1>1, <1>2, <2>1, <2>2, <2>4, AccountsEffect DEF CreateAdmin, Adds, Here
<1>3. QED
  BY <1>1, <1>2 DEF CreateAdmin

LEMMA InsertEffect ==
  ASSUME TypeOK, NEW r \in Requests, Insert(r)
  PROVE  /\ proc.mysql \in Databases /\ task[r].email \in Emails
         /\ \/ task[r].email \in Here.users /\ UNCHANGED db
            \/ /\ task[r].email \notin Here.users
               /\ \/ Adds(proc.mysql, task[r].email, Here.admins \cup {task[r].email})
                  \/ Adds(proc.mysql, task[r].email, Here.admins)
<1>1. proc.mysql \in Databases /\ task[r].email \in Emails
  BY DEF Insert, Reachable, TypeOK, Tasks, AccountPCs
<1>2. CASE task[r].email \notin Here.users
  <2>1. PICK d \in Databases, e \in Emails : d = proc.mysql /\ e = task[r].email
    BY <1>1
  <2>2. PICK U \in SUBSET Emails, A \in SUBSET Emails :
          U = db[d].users \cup {e}
          /\ A = IF task[r].change = "promote" THEN db[d].admins \cup {e} ELSE db[d].admins
    BY DbType
  <2>3. db' = [db EXCEPT ![d].users = db[d].users \cup {e},
                 ![d].admins = IF task[r].change = "promote" THEN db[d].admins \cup {e}
                               ELSE db[d].admins]
    BY <1>2, <2>1, DbType DEF Insert, TypeOK, Database
  <2>4. Accounts(d, U, A)
    BY <2>2, <2>3 DEF Accounts
  <2>5. QED
    BY <1>1, <1>2, <2>1, <2>2, <2>4, AccountsEffect DEF Adds, Here
<1>3. QED
  BY <1>1, <1>2 DEF Insert

LEMMA BootstrapEffect ==
  ASSUME TypeOK, NEW t \in Tasks, Bootstrap(t)
  PROVE  /\ proc.mysql \in Databases /\ Goes(t, "mount")
         /\ \/ UNCHANGED db
            \/ Here.users = {} /\ Adds(proc.mysql, Localhost, {Localhost})
<1>1. proc.mysql \in Databases
  BY DEF Bootstrap, Reachable, TypeOK
<1>2. CASE UNCHANGED db
  BY <1>1, <1>2 DEF Bootstrap
<1>3. CASE ~UNCHANGED db
  <2>1. PICK d \in Databases, U \in SUBSET Emails : d = proc.mysql /\ U = {Localhost}
    BY <1>1, NamesAssumption
  <2>2. Accounts(d, U, U) /\ db[d].users = {}
    BY <1>3, <2>1 DEF Bootstrap, Accounts, Here
  <2>3. QED
    BY <1>1, <2>1, <2>2, AccountsEffect DEF Bootstrap, Adds, Here
<1>4. QED
  BY <1>2, <1>3

LEMMA ChangedEffect ==
  ASSUME NEW D \in Database, NEW e \in Emails, NEW change \in Changes,
         D.admins \subseteq D.users, D.disabled \subseteq D.users
  PROVE  LET C == Changed(D, e, change) IN
         /\ C \in Database /\ C.stored = D.stored /\ C.sessions = D.sessions
         /\ C.admins \subseteq C.users /\ C.disabled \subseteq C.users
         /\ ActiveAdmins(D) \ {e} \subseteq ActiveAdmins(C)
         /\ change \notin Strands => ActiveAdmins(D) \subseteq ActiveAdmins(C)
<1> DEFINE C == Changed(D, e, change)
<1>1. CASE change = "demote"
  <2>1. C = [D EXCEPT !.admins = @ \ {e}]
    BY <1>1 DEF Changed
  <2>2. QED
    BY <1>1, <2>1 DEF Database, ActiveAdmins, Strands
<1>2. CASE change = "disable"
  <2>1. C = [D EXCEPT !.disabled = @ \cup ({e} \cap D.users)]
    BY <1>2 DEF Changed
  <2>2. QED
    BY <1>2, <2>1 DEF Database, ActiveAdmins, Strands
<1>3. CASE change = "delete"
  <2>1. C = [D EXCEPT !.users = @ \ {e}, !.admins = @ \ {e}, !.disabled = @ \ {e}]
    BY <1>3 DEF Changed
  <2>2. QED
    BY <1>3, <2>1 DEF Database, ActiveAdmins, Strands
<1>4. CASE change = "promote"
  <2>1. C = [D EXCEPT !.admins = @ \cup ({e} \cap D.users)]
    BY <1>4 DEF Changed
  <2>2. QED
    BY <1>4, <2>1 DEF Database, ActiveAdmins, Strands
<1>5. CASE change = "enable"
  <2>1. C = [D EXCEPT !.disabled = @ \ {e}]
    BY <1>5 DEF Changed
  <2>2. QED
    BY <1>5, <2>1 DEF Database, ActiveAdmins, Strands
<1>6. QED
  BY <1>1, <1>2, <1>3, <1>4, <1>5 DEF Changes

\* Every account of an administrator, and every disabled one, is an account.
WellFormed ==
  \A d \in Databases : db[d].admins \subseteq db[d].users /\ db[d].disabled \subseteq db[d].users

LEMMA UpdateUserEffect ==
  ASSUME TypeOK, WellFormed, NEW r \in Requests, UpdateUser(r)
  PROVE  /\ proc.mysql \in Databases /\ PutDb(proc.mysql)
         /\ db'[proc.mysql].stored = Here.stored
         /\ db'[proc.mysql].sessions = Here.sessions
         /\ db'[proc.mysql].admins \subseteq db'[proc.mysql].users
         /\ db'[proc.mysql].disabled \subseteq db'[proc.mysql].users
         /\ ActiveAdmins(Here) \ {task[r].email} \subseteq ActiveAdmins(db'[proc.mysql])
         /\ task[r].change \notin Strands => ActiveAdmins(Here) \subseteq ActiveAdmins(db'[proc.mysql])
<1>1. PICK d \in Databases, e \in Emails, change \in Changes :
        d = proc.mysql /\ e = task[r].email /\ change = task[r].change
  BY TaskType DEF UpdateUser, Reachable, TypeOK, Tasks, AccountPCs, Task
<1>2. PICK x \in Database : x = Changed(db[d], e, change)
  BY DbType, ChangedEffect DEF WellFormed
<1>3. db' = [db EXCEPT ![d] = x]
  BY <1>1, <1>2 DEF UpdateUser
<1>4. PutDb(d) /\ db'[d] = x
  BY <1>3, DbPut
<1>5. QED
  BY <1>1, <1>2, <1>4, DbType, ChangedEffect DEF WellFormed, Here

-----------------------------------------------------------------------------
(* Types *)

LEMMA FileType ==
  ASSUME TypeOK
  PROVE  /\ file.installed \in BOOLEAN /\ file.mysql \in Databases \cup {Nowhere}
         /\ file.done \in SUBSET Steps /\ file.skipped \in SUBSET Skippable
         /\ proc.mysql \in Databases \cup {Nowhere}
BY DEF TypeOK

LEMMA FaultType ==
  ASSUME TypeOK
  PROVE  (Fault \/ UNCHANGED faults) => faults' \in Nat
BY DEF TypeOK, Fault

LEMMA StartType ==
  ASSUME TypeOK, NEW r, Starts(r)
  PROVE  starts' \in Nat
BY DEF TypeOK, Starts

\* What is wanted of a task.
TaskSound(t) ==
  /\ task[t].pc \in SavePCs /\ task[t].step = Db => task[t].to \in Databases
  /\ task[t].pc = "persist" => task[t].step \in Skippable
  /\ task[t].pc \in {"look", "range", "create"} \cup AccountPCs => task[t].email \in Emails

LEMMA TasksSound ==
  ASSUME TypeOK, NEW t \in Tasks, PutTask(t), TaskSound(t)'
  PROVE  task' \in [Tasks -> Task] /\ \A u \in Tasks : TaskSound(u)'
<1>1. \A u \in Tasks : TaskSound(u)
  BY DEF TypeOK, TaskSound
<1>2. \A u \in Tasks \ {t} : TaskSound(u)'
  BY <1>1 DEF PutTask, TaskSound
<1>3. QED
  BY <1>2 DEF PutTask

\* A step that leaves everything but its task and the databases alone.
Plain == UNCHANGED <<file, proc, history, starts>> /\ (Fault \/ UNCHANGED faults)

LEMMA TypePlain ==
  ASSUME TypeOK, Plain, db' \in [Databases -> Database],
         task' \in [Tasks -> Task], \A u \in Tasks : TaskSound(u)'
  PROVE  TypeOK'
BY FaultType DEF TypeOK, Plain, history, TaskSound

\* What a task that ended, or went on, is.
LEMMA EndsSound ==
  ASSUME TypeOK, NEW t \in Tasks, Ends(t)
  PROVE  task' \in [Tasks -> Task] /\ \A u \in Tasks : TaskSound(u)'
<1>1. PutTask(t) /\ task'[t].pc = "idle"
  BY EndsEffect
<1>2. TaskSound(t)'
  BY <1>1 DEF TaskSound, SavePCs, AccountPCs
<1>3. QED
  BY <1>1, <1>2, TasksSound

LEMMA GoesSound ==
  ASSUME TypeOK, NEW t \in Tasks, NEW pc \in PCs, Goes(t, pc),
         pc \in SavePCs => task[t].pc \in SavePCs,
         pc = "persist" => task[t].step # Db,
         pc \in {"look", "range", "create"} \cup AccountPCs =>
           task[t].pc \in {"look", "range", "create"} \cup AccountPCs
  PROVE  task' \in [Tasks -> Task] /\ \A u \in Tasks : TaskSound(u)'
<1>1. /\ PutTask(t) /\ task'[t].pc = pc /\ task'[t].step = task[t].step
      /\ task'[t].to = task[t].to /\ task'[t].email = task[t].email
  BY GoesEffect
<1>2. TaskSound(t) /\ task[t].step \in Skippable \cup {Db}
  BY TaskType DEF TypeOK, TaskSound, Task, Steps
<1>3. TaskSound(t)'
  BY <1>1, <1>2 DEF TaskSound
<1>4. QED
  BY <1>1, <1>3, TasksSound

LEMMA TypeWizard ==
  ASSUME TypeOK, NEW r \in Requests, WizardStep(r)
  PROVE  TypeOK'
<1> USE DEF Tasks
<1>1. ASSUME NEW s \in Steps, NEW d \in Databases, Save(r, s, d) PROVE TypeOK'
  <2>1. /\ PutTask(r) /\ task'[r].pc = "validate" /\ task'[r].step = s
        /\ s = Db => task'[r].to = d
    BY <1>1, SaveEffect
  <2>2. TaskSound(r)'
    BY <2>1 DEF TaskSound, AccountPCs
  <2>3. task' \in [Tasks -> Task] /\ \A u \in Tasks : TaskSound(u)'
    BY <2>1, <2>2, TasksSound
  <2>4. QED
    BY <1>1, <2>3, StartType DEF Save, TypeOK, history, TaskSound
<1>2. CASE Invalid(r)
  BY <1>2, EndsSound, TypePlain DEF Invalid, Plain, TypeOK
<1>3. CASE SaveDb(r)
  <2>1. task[r].to \in Databases /\ task[r].pc = "validate"
    BY <1>3 DEF SaveDb, TypeOK, SavePCs
  <2>2. task' \in [Tasks -> Task] /\ \A u \in Tasks : TaskSound(u)'
    BY <1>3, <2>1, GoesSound DEF SaveDb, PCs, SavePCs, AccountPCs
  <2>3. /\ file' \in [installed : BOOLEAN, mysql : Databases \cup {Nowhere}, done : SUBSET Steps,
                      skipped : SUBSET Skippable]
        /\ proc' \in [up : BOOLEAN, mysql : Databases \cup {Nowhere}, router : BOOLEAN,
                      activated : BOOLEAN, scheduler : BOOLEAN]
    BY <1>3, <2>1 DEF SaveDb, TypeOK
  <2>4. moved' \subseteq Skippable /\ strayed' \in BOOLEAN
    BY <1>3 DEF SaveDb, TypeOK
  <2>5. QED
    BY <1>3, <2>2, <2>3, <2>4 DEF SaveDb, TypeOK, TaskSound
<1>4. CASE Valid(r)
  <2>1. task' \in [Tasks -> Task] /\ \A u \in Tasks : TaskSound(u)'
    BY <1>4, GoesSound DEF Valid, PCs, SavePCs, AccountPCs
  <2>2. QED
    BY <1>4, <2>1, TypePlain DEF Valid, Plain, TypeOK
<1>5. CASE Persist(r)
  <2>1. task' \in [Tasks -> Task] /\ \A u \in Tasks : TaskSound(u)'
    BY <1>5, GoesSound DEF Persist, PCs, SavePCs, AccountPCs
  <2>2. PICK d \in Databases, s \in Skippable : d = proc.mysql /\ s = task[r].step
    BY <1>5 DEF Persist, Reachable, TypeOK
  <2>3. PutDb(d)
    BY <1>5, <2>2, StoresEffect DEF Persist, Stores
  <2>4. QED
    BY <1>5, <2>1, <2>3, TypePlain DEF Persist, Plain, PutDb
<1>6. CASE MarkComplete(r)
  <2>1. task' \in [Tasks -> Task] /\ \A u \in Tasks : TaskSound(u)'
    BY <1>6, EndsSound DEF MarkComplete
  <2>2. PICK s \in Steps : s = task[r].step
    BY TaskType DEF Task
  <2>3. file' \in [installed : BOOLEAN, mysql : Databases \cup {Nowhere}, done : SUBSET Steps,
                   skipped : SUBSET Skippable]
    BY <1>6, <2>2 DEF MarkComplete, TypeOK
  <2>4. moved' \subseteq Skippable
    BY <1>6 DEF MarkComplete, TypeOK
  <2>5. QED
    BY <1>6, <2>1, <2>3, <2>4 DEF MarkComplete, TypeOK, TaskSound
<1>7. CASE SaveFails(r)
  BY <1>7, EndsSound, TypePlain DEF SaveFails, Plain, TypeOK
<1>8. ASSUME NEW e \in Emails, Finish(r, e) PROVE TypeOK'
  <2>1. PutTask(r) /\ task'[r].pc = "look" /\ task'[r].email = e
    BY <1>8, FinishEffect
  <2>2. TaskSound(r)'
    BY <2>1 DEF TaskSound, SavePCs
  <2>3. task' \in [Tasks -> Task] /\ \A u \in Tasks : TaskSound(u)'
    BY <2>1, <2>2, TasksSound
  <2>4. QED
    BY <1>8, <2>3, StartType DEF Finish, TypeOK, history, TaskSound
<1>9. CASE LookUp(r)
  <2>1. task' \in [Tasks -> Task] /\ \A u \in Tasks : TaskSound(u)'
    BY <1>9, EndsSound, GoesSound DEF LookUp, PCs, SavePCs, FinishPCs
  <2>2. QED
    BY <1>9, <2>1, TypePlain DEF LookUp, Plain, TypeOK
<1>10. CASE SaveRange(r)
  <2>1. task' \in [Tasks -> Task] /\ \A u \in Tasks : TaskSound(u)'
    BY <1>10, GoesSound DEF SaveRange, PCs, SavePCs, FinishPCs
  <2>2. QED
    BY <1>10, <2>1, TypePlain DEF SaveRange, Plain, TypeOK
<1>11. CASE CreateAdmin(r)
  <2>1. db' \in [Databases -> Database]
    BY <1>11, CreateAdminEffect DEF Adds, PutDb, TypeOK
  <2>2. Goes(r, "activate") \/ Ends(r)
    BY <1>11 DEF CreateAdmin
  <2>3. task' \in [Tasks -> Task] /\ \A u \in Tasks : TaskSound(u)'
    BY <2>2, EndsSound, GoesSound DEF PCs, SavePCs, FinishPCs, AccountPCs
  <2>4. QED
    BY <1>11, <2>1, <2>3, TypePlain DEF CreateAdmin, Plain
<1>12. CASE Activate(r)
  <2>1. Goes(r, "schema") \/ Ends(r)
    BY <1>12 DEF Activate
  <2>2. task' \in [Tasks -> Task] /\ \A u \in Tasks : TaskSound(u)'
    BY <2>1, EndsSound, GoesSound DEF PCs, SavePCs, FinishPCs, AccountPCs
  <2>3. /\ file' \in [installed : BOOLEAN, mysql : Databases \cup {Nowhere}, done : SUBSET Steps,
                      skipped : SUBSET Skippable]
        /\ proc' \in [up : BOOLEAN, mysql : Databases \cup {Nowhere}, router : BOOLEAN,
                      activated : BOOLEAN, scheduler : BOOLEAN]
    BY <1>12 DEF Activate, Installs, TypeOK
  <2>4. QED
    BY <1>12, <2>2, <2>3 DEF Activate, TypeOK, history, TaskSound
<1>13. QED
  BY <1>1, <1>2, <1>3, <1>4, <1>5, <1>6, <1>7, <1>8, <1>9, <1>10, <1>11, <1>12 DEF WizardStep

LEMMA TypeActivation ==
  ASSUME TypeOK, NEW t \in Tasks, ActivationStep(t)
  PROVE  TypeOK'
<1>1. CASE EnsureSchema(t)
  <2>1. task' \in [Tasks -> Task] /\ \A u \in Tasks : TaskSound(u)'
    BY <1>1, GoesSound DEF EnsureSchema, PCs, SavePCs, FinishPCs, AccountPCs
  <2>2. PICK d \in Databases : d = proc.mysql
    BY <1>1 DEF EnsureSchema, TypeOK
  <2>3. PutDb(d)
    BY <1>1, <2>2, SchemaEffect DEF EnsureSchema, Schema
  <2>4. QED
    BY <1>1, <2>1, <2>3, TypePlain DEF EnsureSchema, Plain, PutDb
<1>2. CASE Bootstrap(t)
  <2>1. Goes(t, "mount") /\ db' \in [Databases -> Database]
    BY <1>2, BootstrapEffect DEF Adds, PutDb, TypeOK
  <2>2. task' \in [Tasks -> Task] /\ \A u \in Tasks : TaskSound(u)'
    BY <2>1, GoesSound DEF PCs, SavePCs, FinishPCs, AccountPCs
  <2>3. UNCHANGED faults \/ Fault
    BY <1>2 DEF Bootstrap
  <2>4. QED
    BY <1>2, <2>1, <2>2, <2>3, TypePlain DEF Bootstrap, Plain
<1>3. CASE Mount(t)
  <2>1. task' \in [Tasks -> Task] /\ \A u \in Tasks : TaskSound(u)'
    BY <1>3, EndsSound DEF Mount
  <2>2. UNCHANGED faults \/ Fault
    BY <1>3 DEF Mount
  <2>3. /\ file' \in [installed : BOOLEAN, mysql : Databases \cup {Nowhere}, done : SUBSET Steps,
                      skipped : SUBSET Skippable]
        /\ proc' \in [up : BOOLEAN, mysql : Databases \cup {Nowhere}, router : BOOLEAN,
                      activated : BOOLEAN, scheduler : BOOLEAN]
    BY <1>3 DEF Mount, Installs, TypeOK
  <2>4. QED
    BY <1>3, <2>1, <2>2, <2>3, FaultType DEF Mount, TypeOK, history, TaskSound
<1>4. CASE FinishFails(t)
  <2>1. task' \in [Tasks -> Task] /\ \A u \in Tasks : TaskSound(u)'
    BY <1>4, EndsSound DEF FinishFails
  <2>2. UNCHANGED faults \/ Fault
    BY <1>4 DEF FinishFails
  <2>3. /\ degraded' \in BOOLEAN
        /\ proc' \in [up : BOOLEAN, mysql : Databases \cup {Nowhere}, router : BOOLEAN,
                      activated : BOOLEAN, scheduler : BOOLEAN]
    BY <1>4 DEF FinishFails, TypeOK
  <2>4. QED
    BY <1>4, <2>1, <2>2, <2>3, FaultType DEF FinishFails, TypeOK, TaskSound
<1>5. QED
  BY <1>1, <1>2, <1>3, <1>4 DEF ActivationStep

LEMMA TypeAccount ==
  ASSUME TypeOK, WellFormed, NEW r \in Requests, AccountStep(r)
  PROVE  TypeOK'
<1> USE DEF Tasks
<1>1. ASSUME NEW e \in Emails, NEW admin \in BOOLEAN, CreateUser(r, e, admin) PROVE TypeOK'
  <2>1. PutTask(r) /\ task'[r].pc = "exists" /\ task'[r].email = e
    BY <1>1, CreateUserEffect
  <2>2. TaskSound(r)'
    BY <2>1 DEF TaskSound, SavePCs
  <2>3. task' \in [Tasks -> Task] /\ \A u \in Tasks : TaskSound(u)'
    BY <2>1, <2>2, TasksSound
  <2>4. QED
    BY <1>1, <2>3, StartType DEF CreateUser, AdminRequest, TypeOK, history, TaskSound
<1>2. ASSUME NEW e \in Emails, NEW change \in Changes, ChangeUser(r, e, change) PROVE TypeOK'
  <2>1. PutTask(r) /\ task'[r].pc = "check" /\ task'[r].email = e
    BY <1>2, ChangeUserEffect
  <2>2. TaskSound(r)'
    BY <2>1 DEF TaskSound, SavePCs
  <2>3. task' \in [Tasks -> Task] /\ \A u \in Tasks : TaskSound(u)'
    BY <2>1, <2>2, TasksSound
  <2>4. QED
    BY <1>2, <2>3, StartType DEF ChangeUser, AdminRequest, TypeOK, history, TaskSound
<1>3. CASE Exists(r)
  <2>1. Goes(r, "insert") \/ Ends(r)
    BY <1>3 DEF Exists
  <2>2. task' \in [Tasks -> Task] /\ \A u \in Tasks : TaskSound(u)'
    BY <1>3, <2>1, EndsSound, GoesSound DEF Exists, PCs, SavePCs, AccountPCs
  <2>3. QED
    BY <1>3, <2>2, TypePlain DEF Exists, Plain, TypeOK
<1>4. CASE Insert(r)
  <2>1. db' \in [Databases -> Database]
    BY <1>4, InsertEffect DEF Adds, PutDb, TypeOK
  <2>2. task' \in [Tasks -> Task] /\ \A u \in Tasks : TaskSound(u)'
    BY <1>4, EndsSound DEF Insert
  <2>3. QED
    BY <1>4, <2>1, <2>2, TypePlain DEF Insert, Plain
<1>5. ASSUME CheckTarget(r) \/ CountAdmins(r) PROVE TypeOK'
  <2>1. /\ task[r].pc \in {"check", "count"} /\ crossed' \in BOOLEAN
        /\ \/ Ends(r) \/ Goes(r, "update") \/ Goes(r, "count")
    BY <1>5 DEF CheckTarget, CountAdmins, LetThrough, TypeOK
  <2>2. task' \in [Tasks -> Task] /\ \A u \in Tasks : TaskSound(u)'
    BY <2>1, EndsSound, GoesSound DEF PCs, SavePCs, AccountPCs
  <2>3. QED
    BY <1>5, <2>1, <2>2 DEF CheckTarget, CountAdmins, TypeOK, TaskSound
<1>6. CASE UpdateUser(r)
  <2>1. db' \in [Databases -> Database]
    BY <1>6, UpdateUserEffect DEF PutDb
  <2>2. task' \in [Tasks -> Task] /\ \A u \in Tasks : TaskSound(u)'
    BY <1>6, EndsSound DEF UpdateUser
  <2>3. QED
    BY <1>6, <2>1, <2>2, TypePlain DEF UpdateUser, Plain
<1>7. CASE AccountFails(r)
  <2>1. task' \in [Tasks -> Task] /\ \A u \in Tasks : TaskSound(u)'
    BY <1>7, EndsSound DEF AccountFails
  <2>2. QED
    BY <1>7, <2>1, TypePlain DEF AccountFails, Plain, TypeOK
<1>8. QED
  BY <1>1, <1>2, <1>3, <1>4, <1>5, <1>6, <1>7 DEF AccountStep

LEMMA TypeOthers ==
  ASSUME TypeOK,
         \/ \E s \in Skippable : Skip(s)
         \/ Migrate
         \/ \E e \in Emails : SignIn(e)
         \/ Crash \/ StartUp \/ UNCHANGED vars
  PROVE  TypeOK'
<1>1. ASSUME NEW s \in Skippable, Skip(s) PROVE TypeOK'
  BY <1>1 DEF Skip, TypeOK, history
<1>2. ASSUME Migrate PROVE TypeOK'
  <2>1. PICK d \in Databases : d = proc.mysql
    BY <1>2 DEF Migrate, TypeOK
  <2>2. PutDb(d)
    BY <1>2, <2>1, SchemaEffect DEF Migrate, Schema
  <2>3. QED
    BY <1>2, <2>2 DEF Migrate, TypeOK, history, PutDb
<1>3. ASSUME NEW e \in Emails, SignIn(e) PROVE TypeOK'
  <2>1. PICK d \in Databases : d = proc.mysql
    BY <1>3 DEF SignIn, Reachable, TypeOK
  <2>2. PutDb(d)
    BY <1>3, <2>1, SignsInEffect DEF SignIn, SignsIn
  <2>3. QED
    BY <1>3, <2>2 DEF SignIn, TypeOK, history, PutDb
<1>4. CASE Crash
  <2>1. task' \in [Tasks -> Task] /\ \A t \in Tasks : task'[t].pc = "idle"
    BY <1>4, IdleType DEF Crash
  <2>2. proc' \in [up : BOOLEAN, mysql : Databases \cup {Nowhere}, router : BOOLEAN,
                   activated : BOOLEAN, scheduler : BOOLEAN]
    BY <1>4 DEF Crash
  <2>3. QED
    BY <1>4, <2>1, <2>2, FaultType DEF Crash, TypeOK, SavePCs, AccountPCs
<1>5. CASE StartUp
  <2>1. Boot \in Tasks
    BY DEF Tasks
  <2>2. task' \in [Tasks -> Task] /\ \A u \in Tasks : TaskSound(u)'
    <3>1. CASE Goes(Boot, "schema")
      BY <2>1, <3>1, GoesSound DEF PCs, FinishPCs, SavePCs, AccountPCs
    <3>2. CASE UNCHANGED task
      BY <3>2 DEF TypeOK, TaskSound
    <3>3. QED
      BY <1>5, <3>1, <3>2 DEF StartUp
  <2>3. proc' \in [up : BOOLEAN, mysql : Databases \cup {Nowhere}, router : BOOLEAN,
                   activated : BOOLEAN, scheduler : BOOLEAN]
    BY <1>5 DEF StartUp, TypeOK
  <2>4. QED
    BY <1>5, <2>2, <2>3 DEF StartUp, TypeOK, history, TaskSound
<1>6. CASE UNCHANGED vars
  BY <1>6 DEF vars, history, TypeOK
<1>7. QED
  BY <1>1, <1>2, <1>3, <1>4, <1>5, <1>6

LEMMA TypeInit ==
  ASSUME Init
  PROVE  TypeOK /\ WellFormed
<1>1. task \in [Tasks -> Task] /\ \A t \in Tasks : task[t].pc = "idle"
  BY IdleType DEF Init
<1>2. Empty \in Database
  BY DEF Empty, Database
<1>3. /\ file \in [installed : BOOLEAN, mysql : Databases \cup {Nowhere}, done : SUBSET Steps,
                   skipped : SUBSET Skippable]
      /\ proc \in [up : BOOLEAN, mysql : Databases \cup {Nowhere}, router : BOOLEAN,
                   activated : BOOLEAN, scheduler : BOOLEAN]
  <2>1. CASE file = [installed |-> FALSE, mysql |-> Nowhere, done |-> {}, skipped |-> {}]
             /\ proc = [up |-> TRUE, mysql |-> Nowhere, router |-> FALSE, activated |-> FALSE,
                        scheduler |-> FALSE]
    BY <2>1
  <2>2. ASSUME NEW d \in Databases,
               file = [installed |-> TRUE, mysql |-> d, done |-> Steps, skipped |-> {}],
               proc = [up |-> TRUE, mysql |-> d, router |-> TRUE, activated |-> TRUE,
                       scheduler |-> TRUE]
        PROVE  <1>3!:
    BY <2>2
  <2>3. QED
    BY <2>1, <2>2 DEF Init
<1>4. db \in [Databases -> Database] /\ WellFormed
  <2>1. CASE db = [d \in Databases |-> Empty]
    BY <1>2, <2>1 DEF WellFormed, Empty
  <2>2. ASSUME NEW d \in Databases, NEW A \in (SUBSET Emails) \ {{}},
               db = [x \in Databases |->
                 IF x # d THEN Empty
                 ELSE [schema |-> TRUE, stored |-> Skippable, users |-> A, admins |-> A,
                       disabled |-> {}, sessions |-> A]]
        PROVE  db \in [Databases -> Database] /\ WellFormed
    <3>1. [schema |-> TRUE, stored |-> Skippable, users |-> A, admins |-> A,
           disabled |-> {}, sessions |-> A] \in Database
      BY DEF Database
    <3>2. QED
      BY <1>2, <2>2, <3>1 DEF WellFormed, Empty
  <2>3. QED
    BY <2>1, <2>2 DEF Init
<1>5. QED
  BY <1>1, <1>3, <1>4 DEF Init, TypeOK, SavePCs, AccountPCs

-----------------------------------------------------------------------------
\* What a step does to the databases: nothing, or it touches the one of the process.

\* The first account of a database is an administrator's, unless an administrator asked.
Quiet(d) ==
  /\ PutDb(d) /\ SameAccounts(d) /\ db[d].stored \subseteq db'[d].stored
  /\ db'[d].sessions # {} => db[d].sessions # {} \/ db[d].users # {}

Joins(d, e) ==
  /\ e \notin db[d].users
  /\ \/ Adds(d, e, db[d].admins \cup {e})
     \/ Adds(d, e, db[d].admins) /\ \E r \in Requests : task[r].pc = "insert"

LEMMA DbSteps ==
  ASSUME TypeOK, WellFormed, [Next]_vars
  PROVE  \/ UNCHANGED db
         \/ /\ proc.mysql \in Databases
            /\ \/ Quiet(proc.mysql)
               \/ \E e \in Emails : Joins(proc.mysql, e)
               \/ \E r \in Requests : UpdateUser(r)
<1> USE DEF Tasks
<1>1. ASSUME NEW r \in Requests, Persist(r)
      PROVE  proc.mysql \in Databases /\ Quiet(proc.mysql)
  <2>1. PICK d \in Databases, s \in Skippable : d = proc.mysql /\ s = task[r].step
    BY <1>1 DEF Persist, Reachable, TypeOK
  <2>2. /\ PutDb(d) /\ SameAccounts(d) /\ db'[d].stored = db[d].stored \cup {s}
        /\ db'[d].sessions = db[d].sessions
    BY <1>1, <2>1, StoresEffect DEF Persist, Stores
  <2>3. QED
    BY <2>1, <2>2 DEF Quiet
<1>2. ASSUME proc.mysql \in Databases, Schema(proc.mysql) PROVE Quiet(proc.mysql)
  BY <1>2, SchemaEffect DEF Quiet
<1>3. ASSUME NEW t \in Tasks, EnsureSchema(t) PROVE proc.mysql \in Databases /\ Quiet(proc.mysql)
  BY <1>2, <1>3 DEF EnsureSchema, Schema, TypeOK
<1>4. ASSUME Migrate PROVE proc.mysql \in Databases /\ Quiet(proc.mysql)
  BY <1>2, <1>4 DEF Migrate, Schema, TypeOK
<1>5. ASSUME NEW e \in Emails, SignIn(e) PROVE proc.mysql \in Databases /\ Quiet(proc.mysql)
  <2>1. proc.mysql \in Databases
    BY <1>5 DEF SignIn, Reachable, TypeOK
  <2>2. db[proc.mysql].users # {}
    BY <1>5, <2>1 DEF SignIn, ActiveAdmins, Here, WellFormed
  <2>3. QED
    BY <1>5, <2>1, <2>2, SignsInEffect DEF SignIn, SignsIn, Quiet
<1>6. ASSUME NEW r \in Requests, CreateAdmin(r)
      PROVE  UNCHANGED db \/ (proc.mysql \in Databases /\ \E e \in Emails : Joins(proc.mysql, e))
  BY <1>6, CreateAdminEffect DEF Joins, Here
<1>7. ASSUME NEW r \in Requests, Insert(r)
      PROVE  UNCHANGED db \/ (proc.mysql \in Databases /\ \E e \in Emails : Joins(proc.mysql, e))
  BY <1>7, InsertEffect DEF Joins, Here, Insert
<1>8. ASSUME NEW t \in Tasks, Bootstrap(t)
      PROVE  UNCHANGED db \/ (proc.mysql \in Databases /\ \E e \in Emails : Joins(proc.mysql, e))
  <2>1. CASE ~UNCHANGED db
    <3>1. /\ proc.mysql \in Databases /\ Here.users = {}
          /\ Adds(proc.mysql, Localhost, {Localhost})
      BY <1>8, <2>1, BootstrapEffect
    <3>2. db[proc.mysql].admins = {}
      BY <3>1 DEF WellFormed, Here
    <3>3. QED
      BY <3>1, <3>2, NamesAssumption DEF Joins, Here
  <2>2. QED
    BY <2>1
<1>9. ASSUME NEW r \in Requests, UpdateUser(r) PROVE proc.mysql \in Databases
  BY <1>9, UpdateUserEffect
<1>10. ASSUME NEW r \in Requests, WizardStep(r), ~Persist(r), ~CreateAdmin(r) PROVE UNCHANGED db
  BY <1>10 DEF WizardStep, Save, Invalid, SaveDb, Valid, MarkComplete, SaveFails, Finish, LookUp,
       SaveRange, Activate
<1>11. ASSUME NEW r \in Requests, AccountStep(r), ~Insert(r), ~UpdateUser(r) PROVE UNCHANGED db
  BY <1>11 DEF AccountStep, CreateUser, ChangeUser, Exists, CheckTarget, CountAdmins, AccountFails
<1>12. ASSUME NEW t \in Tasks, Mount(t) \/ FinishFails(t) PROVE UNCHANGED db
  BY <1>12 DEF Mount, FinishFails
<1>13. (\E s \in Skippable : Skip(s)) \/ Crash \/ StartUp \/ UNCHANGED vars => UNCHANGED db
  BY DEF Skip, Crash, StartUp, vars
<1>14. QED
  BY <1>1, <1>3, <1>4, <1>5, <1>6, <1>7, <1>8, <1>9, <1>10, <1>11, <1>12, <1>13
  DEF Next, ActivationStep

LEMMA WellFormedNext ==
  ASSUME TypeOK, WellFormed, [Next]_vars
  PROVE  WellFormed'
<1>1. ASSUME NEW d \in Databases, Quiet(d) PROVE WellFormed'
  BY <1>1 DEF Quiet, SameAccounts, PutDb, WellFormed
<1>2. ASSUME NEW d \in Databases, NEW e \in Emails, Joins(d, e) PROVE WellFormed'
  BY <1>2 DEF Joins, Adds, PutDb, WellFormed
<1>3. ASSUME NEW r \in Requests, UpdateUser(r) PROVE WellFormed'
  BY <1>3, UpdateUserEffect DEF PutDb, WellFormed
<1>4. CASE UNCHANGED db
  BY <1>4 DEF WellFormed
<1>5. QED
  BY <1>1, <1>2, <1>3, <1>4, DbSteps

LEMMA TypeNext ==
  ASSUME TypeOK, WellFormed, [Next]_vars
  PROVE  TypeOK'
BY TypeWizard, TypeActivation, TypeAccount, TypeOthers DEF Next

\* setupState.js:26-40, users.js:20-88: the file, the process, the databases and the requests
\* stay what the code makes of them, whatever the requests, failures and restarts.
THEOREM TypeCorrect == Spec => []TypeOK
<1>1. Init => TypeOK /\ WellFormed
  BY TypeInit
<1>2. TypeOK /\ WellFormed /\ [Next]_vars => (TypeOK /\ WellFormed)'
  BY TypeNext, WellFormedNext
<1>3. QED
  BY <1>1, <1>2, PTL DEF Spec

-----------------------------------------------------------------------------
Sound == TypeOK /\ WellFormed

LEMMA SoundNext ==
  ASSUME Sound, [Next]_vars
  PROVE  Sound'
BY TypeNext, WellFormedNext DEF Sound

(* An installed server is usable *)

AllSettled == Steps \subseteq file.done \cup file.skipped

\* Who records the install has seen every step settled, and activates the process first.
UsableInv ==
  /\ proc.activated => proc.router /\ (degraded \/ proc.scheduler)
  /\ file.installed /\ proc.up /\ task[Boot].pc = "idle" => proc.activated
  /\ file.installed => AllSettled
  /\ \A r \in Requests : task[r].pc \in FinishPCs => AllSettled

\* A step that leaves the process alone, and settles no less.
LEMMA UsableFrame ==
  ASSUME UsableInv, UNCHANGED <<proc, degraded>>, file'.installed = file.installed,
         task'[Boot].pc = "idle" => task[Boot].pc = "idle",
         AllSettled => AllSettled',
         \A r \in Requests : task'[r].pc \in FinishPCs => task[r].pc \in FinishPCs \/ AllSettled'
  PROVE  UsableInv'
BY DEF UsableInv

\* Of such a step of one request.
LEMMA UsableRequest ==
  ASSUME UsableInv, UNCHANGED <<proc, degraded>>, file'.installed = file.installed,
         NEW r \in Requests, PutTask(r), AllSettled => AllSettled',
         task'[r].pc \in FinishPCs => task[r].pc \in FinishPCs \/ AllSettled'
  PROVE  UsableInv'
BY UsableFrame, NamesAssumption DEF PutTask, Tasks

LEMMA UsableWizard ==
  ASSUME TypeOK, UsableInv, NEW r \in Requests, WizardStep(r)
  PROVE  UsableInv'
<1> USE DEF Tasks
<1>1. ASSUME NEW s \in Steps, NEW d \in Databases, Save(r, s, d) PROVE UsableInv'
  BY <1>1, SaveEffect, UsableRequest DEF Save, FinishPCs, AllSettled, history
<1>2. CASE Invalid(r) \/ SaveFails(r)
  BY <1>2, EndsEffect, UsableRequest DEF Invalid, SaveFails, FinishPCs, AllSettled, history
<1>3. CASE SaveDb(r)
  <2>1. PutTask(r) /\ task'[r].pc = "mark"
    BY <1>3, GoesEffect DEF SaveDb, PCs, SavePCs
  <2>2. /\ file'.installed = file.installed /\ file'.done = file.done /\ file'.skipped = file.skipped
        /\ proc'.activated = proc.activated /\ proc'.router = proc.router
        /\ proc'.scheduler = proc.scheduler /\ proc'.up = proc.up /\ degraded' = degraded
    BY <1>3 DEF SaveDb, TypeOK
  <2>3. task'[Boot] = task[Boot]
    BY <2>1, NamesAssumption DEF PutTask
  <2>4. \A q \in Requests : task'[q].pc \in FinishPCs => task[q].pc \in FinishPCs
    BY <2>1 DEF PutTask, FinishPCs
  <2>5. QED
    BY <2>2, <2>3, <2>4 DEF UsableInv, AllSettled
<1>4. CASE Valid(r) \/ Persist(r)
  <2>1. PutTask(r) /\ task'[r].pc \in {"persist", "mark"}
    BY <1>4, GoesEffect DEF Valid, Persist, PCs, SavePCs
  <2>2. QED
    BY <1>4, <2>1, UsableRequest DEF Valid, Persist, FinishPCs, AllSettled, history
<1>5. CASE MarkComplete(r)
  <2>1. PutTask(r) /\ task'[r].pc = "idle"
    BY <1>5, EndsEffect DEF MarkComplete
  <2>2. /\ file'.installed = file.installed /\ file'.done = file.done \cup {task[r].step}
        /\ file'.skipped = file.skipped \ {task[r].step}
    BY <1>5 DEF MarkComplete, TypeOK
  <2>3. QED
    BY <1>5, <2>1, <2>2, UsableRequest DEF MarkComplete, FinishPCs, AllSettled
<1>6. ASSUME NEW e \in Emails, Finish(r, e) PROVE UsableInv'
  <2>1. AllSettled /\ UNCHANGED <<file, proc, history>>
    BY <1>6 DEF Finish, AllSettled, Steps
  <2>2. QED
    BY <1>6, <2>1, FinishEffect, UsableRequest DEF AllSettled, history
<1>7. CASE LookUp(r) \/ SaveRange(r) \/ CreateAdmin(r)
  <2>1. Ends(r) \/ Goes(r, "range") \/ Goes(r, "create") \/ Goes(r, "activate")
    BY <1>7 DEF LookUp, SaveRange, CreateAdmin
  <2>2. PutTask(r)
    BY <2>1, EndsEffect, GoesEffect DEF PCs, FinishPCs
  <2>3. task[r].pc \in FinishPCs
    BY <1>7 DEF LookUp, SaveRange, CreateAdmin, FinishPCs
  <2>4. QED
    BY <1>7, <2>2, <2>3, UsableRequest DEF LookUp, SaveRange, CreateAdmin, AllSettled, history
<1>8. CASE Activate(r)
  <2>1. Ends(r) \/ Goes(r, "schema")
    BY <1>8 DEF Activate
  <2>2. PutTask(r) /\ task[r].pc \in FinishPCs
    BY <1>8, <2>1, EndsEffect, GoesEffect DEF Activate, PCs, FinishPCs
  <2>3. task'[Boot] = task[Boot] /\ AllSettled
    BY <2>2, NamesAssumption DEF PutTask, UsableInv
  <2>4. \/ proc.activated /\ file' = [file EXCEPT !.installed = TRUE] /\ UNCHANGED proc
        \/ UNCHANGED file /\ proc' = [proc EXCEPT !.mysql = file.mysql]
    BY <1>8 DEF Activate, Installs
  <2>5. /\ file'.done = file.done /\ file'.skipped = file.skipped
        /\ file'.installed => file.installed \/ proc.activated
        /\ proc'.activated = proc.activated /\ proc'.router = proc.router
        /\ proc'.scheduler = proc.scheduler /\ proc'.up = proc.up /\ degraded' = degraded
    BY <1>8, <2>4 DEF TypeOK, Activate, history
  <2>6. QED
    BY <2>3, <2>5 DEF UsableInv, AllSettled
<1>9. QED
  BY <1>1, <1>2, <1>3, <1>4, <1>5, <1>6, <1>7, <1>8 DEF WizardStep

LEMMA UsableAccount ==
  ASSUME TypeOK, UsableInv, NEW r \in Requests, AccountStep(r)
  PROVE  UsableInv'
<1> USE DEF Tasks
<1>1. UNCHANGED <<file, proc, degraded>>
  BY DEF AccountStep, CreateUser, ChangeUser, Exists, Insert, CheckTarget, CountAdmins, UpdateUser,
       AccountFails, history
<1>2. PutTask(r) /\ task'[r].pc \in {"idle"} \cup AccountPCs
  <2>1. ASSUME Ends(r) \/ Goes(r, "insert") \/ Goes(r, "update") \/ Goes(r, "count")
        PROVE  PutTask(r) /\ task'[r].pc \in {"idle"} \cup AccountPCs
    BY <2>1, EndsEffect, GoesEffect DEF PCs, AccountPCs
  <2>2. ASSUME NEW e \in Emails, NEW admin \in BOOLEAN, CreateUser(r, e, admin)
        PROVE  PutTask(r) /\ task'[r].pc \in {"idle"} \cup AccountPCs
    BY <2>2, CreateUserEffect DEF AccountPCs
  <2>3. ASSUME NEW e \in Emails, NEW change \in Changes, ChangeUser(r, e, change)
        PROVE  PutTask(r) /\ task'[r].pc \in {"idle"} \cup AccountPCs
    BY <2>3, ChangeUserEffect DEF AccountPCs
  <2>4. QED
    BY <2>1, <2>2, <2>3 DEF AccountStep, Exists, Insert, CheckTarget, LetThrough, CountAdmins,
         UpdateUser, AccountFails
<1>3. QED
  BY <1>1, <1>2, UsableRequest DEF AllSettled, FinishPCs, AccountPCs

LEMMA UsableActivation ==
  ASSUME TypeOK, UsableInv, NEW t \in Tasks, ActivationStep(t)
  PROVE  UsableInv'
<1>1. PutTask(t)
  <2>1. Ends(t) \/ Goes(t, "bootstrap") \/ Goes(t, "mount")
    BY DEF ActivationStep, EnsureSchema, Bootstrap, Mount, FinishFails
  <2>2. QED
    BY <2>1, EndsEffect, GoesEffect DEF PCs, FinishPCs
<1>2. task[t].pc \in FinishPCs
  BY DEF ActivationStep, EnsureSchema, Bootstrap, Mount, FinishFails, FinishPCs
<1>3. \A r \in Requests : task'[r].pc \in FinishPCs => task[r].pc \in FinishPCs
  BY <1>1, <1>2 DEF PutTask, Tasks
<1>4. CASE EnsureSchema(t) \/ Bootstrap(t)
  <2>1. UNCHANGED <<file, proc, degraded>>
    BY <1>4 DEF EnsureSchema, Bootstrap, history
  <2>2. task'[t].pc # "idle"
    BY <1>4, GoesEffect DEF EnsureSchema, Bootstrap, PCs, FinishPCs
  <2>3. task'[Boot].pc = "idle" => task[Boot].pc = "idle"
    BY <1>1, <2>2 DEF PutTask, Tasks
  <2>4. QED
    BY <1>3, <2>1, <2>3, UsableFrame DEF AllSettled
<1>5. CASE Mount(t)
  <2>1. /\ file'.done = file.done /\ file'.skipped = file.skipped
        /\ file'.installed => file.installed \/ t # Boot
        /\ proc'.activated /\ proc'.router /\ proc'.scheduler
    BY <1>5 DEF Mount, Installs, TypeOK
  <2>2. file'.installed => AllSettled
    BY <1>2, <2>1 DEF UsableInv, Tasks
  <2>3. QED
    BY <1>3, <2>1, <2>2 DEF UsableInv, AllSettled
<1>6. CASE FinishFails(t)
  <2>1. UNCHANGED file
    BY <1>6 DEF FinishFails
  <2>2. CASE t = Boot
    <3>1. proc'.activated /\ proc'.router /\ degraded'
      BY <1>6, <2>2 DEF FinishFails, TypeOK
    <3>2. QED
      BY <1>3, <2>1, <3>1 DEF UsableInv, AllSettled
  <2>3. CASE t # Boot
    <3>1. UNCHANGED <<proc, degraded>> /\ task'[Boot] = task[Boot]
      BY <1>1, <1>6, <2>3 DEF FinishFails, PutTask, Tasks
    <3>2. QED
      BY <1>3, <2>1, <3>1, UsableFrame DEF AllSettled
  <2>4. QED
    BY <2>2, <2>3
<1>7. QED
  BY <1>4, <1>5, <1>6 DEF ActivationStep

LEMMA UsableNext ==
  ASSUME TypeOK, UsableInv, [Next]_vars
  PROVE  UsableInv'
<1>1. ASSUME NEW s \in Skippable, Skip(s) PROVE UsableInv'
  BY <1>1, UsableFrame DEF Skip, AllSettled, TypeOK, history
<1>2. CASE Migrate \/ (\E e \in Emails : SignIn(e)) \/ UNCHANGED vars
  BY <1>2, UsableFrame DEF Migrate, SignIn, vars, AllSettled, history
<1>3. CASE Crash
  <2>1. /\ ~proc'.up /\ ~proc'.activated /\ UNCHANGED file
        /\ \A r \in Requests : task'[r].pc = "idle"
    BY <1>3 DEF Crash, Tasks, Idle
  <2>2. QED
    BY <2>1 DEF UsableInv, AllSettled, FinishPCs
<1>4. CASE StartUp
  <2>1. /\ UNCHANGED <<file, degraded>> /\ proc'.activated = proc.activated
        /\ proc'.router = proc.router /\ proc'.scheduler = proc.scheduler
    BY <1>4 DEF StartUp, TypeOK, history
  <2>2. CASE file.installed
    <3>1. PutTask(Boot) /\ task'[Boot].pc = "schema"
      BY <1>4, <2>2, GoesEffect DEF StartUp, PCs, FinishPCs, Tasks
    <3>2. QED
      BY <2>1, <3>1, NamesAssumption DEF UsableInv, AllSettled, PutTask, Tasks
  <2>3. CASE ~file.installed
    <3>1. UNCHANGED task
      BY <1>4, <2>3 DEF StartUp
    <3>2. QED
      BY <2>1, <2>3, <3>1 DEF UsableInv, AllSettled
  <2>4. QED
    BY <2>2, <2>3
<1>5. QED
  BY <1>1, <1>2, <1>3, <1>4, UsableWizard, UsableAccount, UsableActivation DEF Next

LEMMA UsableInit ==
  ASSUME Init
  PROVE  UsableInv
<1>1. \A t \in Tasks : task[t].pc = "idle"
  BY DEF Init, Idle
<1>2. /\ proc.activated => proc.router /\ proc.scheduler
      /\ file.installed => proc.activated /\ file.done = Steps
  BY DEF Init
<1>3. QED
  BY <1>1, <1>2 DEF UsableInv, AllSettled, Tasks, FinishPCs

\* setup.js:494-501, server.js:104-113: an installed server that has come up answers with its
\* API, every step done or put off, and runs its scheduler unless it could not activate, however
\* the last step, failed writes and restarts fall together.
THEOREM InstalledServerIsUsable == Spec => []InstalledIsUsable
<1>1. Init => Sound /\ UsableInv
  BY TypeInit, UsableInit DEF Sound
<1>2. Sound /\ UsableInv /\ [Next]_vars => (Sound /\ UsableInv)'
  BY SoundNext, UsableNext DEF Sound
<1>3. UsableInv => InstalledIsUsable
  BY DEF UsableInv, AllSettled, InstalledIsUsable
<1>4. QED
  BY <1>1, <1>2, <1>3, PTL DEF Spec

-----------------------------------------------------------------------------
(* What is done is there *)

\* What requests and the boot hold on to is in the database of setup.json.
StepsInv ==
  /\ ~proc.up => \A t \in Tasks : task[t].pc = "idle"
  /\ proc.up => proc.mysql = file.mysql
  /\ file.done # {} => file.mysql # Nowhere
  /\ \A r \in Requests : task[r].pc = "mark" =>
       /\ file.mysql # Nowhere
       /\ task[r].step \in Skippable \ moved => task[r].step \in db[file.mysql].stored
  /\ \A s \in (file.done \cap Skippable) \ moved : s \in db[file.mysql].stored

LEMMA StoredGrows ==
  ASSUME Sound, [Next]_vars
  PROVE  \A d \in Databases : db[d].stored \subseteq db'[d].stored
<1>1. ASSUME NEW r \in Requests, UpdateUser(r) PROVE \A d \in Databases : db[d].stored \subseteq db'[d].stored
  BY <1>1, UpdateUserEffect DEF Sound, PutDb, Here
<1>2. ASSUME NEW d \in Databases, Quiet(d) PROVE \A x \in Databases : db[x].stored \subseteq db'[x].stored
  BY <1>2 DEF Quiet, PutDb
<1>3. ASSUME NEW d \in Databases, NEW e \in Emails, Joins(d, e)
      PROVE  \A x \in Databases : db[x].stored \subseteq db'[x].stored
  BY <1>3 DEF Joins, Adds, PutDb
<1>4. QED
  BY <1>1, <1>2, <1>3, DbSteps DEF Sound

\* A step that touches neither the file nor where the process stands, and marks no step.
LEMMA StepsFrame ==
  ASSUME Sound, [Next]_vars, StepsInv, UNCHANGED <<file, moved>>,
         proc'.up = proc.up, proc'.mysql = proc.mysql,
         ~proc.up => \A t \in Tasks : task'[t].pc = "idle",
         \A r \in Requests :
           task'[r].pc = "mark" => task[r].pc = "mark" /\ task'[r].step = task[r].step
  PROVE  StepsInv'
<1>1. \A d \in Databases : db[d].stored \subseteq db'[d].stored
  BY StoredGrows
<1>2. file.mysql \in Databases \cup {Nowhere} /\ file.done \subseteq Steps
  BY FileType DEF Sound
<1>3. QED
  BY <1>1, <1>2 DEF StepsInv

\* Of such a step of one task, while the process is up.
LEMMA StepsTask ==
  ASSUME Sound, [Next]_vars, StepsInv, UNCHANGED <<file, moved>>,
         proc'.up = proc.up, proc'.mysql = proc.mysql,
         NEW t \in Tasks, PutTask(t), task'[t].pc # "mark",
         proc.up \/ task[t].pc # "idle"
  PROVE  StepsInv'
<1>1. proc.up
  BY DEF StepsInv
<1>2. QED
  BY <1>1, StepsFrame DEF PutTask, Tasks

LEMMA StepsWizard ==
  ASSUME Sound, [Next]_vars, StepsInv, NEW r \in Requests, WizardStep(r)
  PROVE  StepsInv'
<1> USE DEF Sound, Tasks
<1>1. ASSUME NEW s \in Steps, NEW d \in Databases, Save(r, s, d) PROVE StepsInv'
  BY <1>1, SaveEffect, StepsTask DEF Save, Starts, history
<1>2. CASE Invalid(r) \/ SaveFails(r)
  <2>1. task[r].pc # "idle"
    BY <1>2 DEF Invalid, SaveFails
  <2>2. QED
    BY <1>2, <2>1, EndsEffect, StepsTask DEF Invalid, SaveFails, history
<1>3. CASE SaveDb(r)
  <2>1. PICK d \in Databases : d = task[r].to
    BY <1>3 DEF SaveDb, TypeOK, SavePCs
  <2>2. PutTask(r) /\ task'[r].pc = "mark" /\ task'[r].step = Db
    BY <1>3, GoesEffect DEF SaveDb, PCs, SavePCs
  <2>3. /\ file'.mysql = d /\ proc'.mysql = d /\ file'.done = file.done
        /\ proc'.up = proc.up /\ d # Nowhere /\ UNCHANGED db
    BY <1>3, <2>1, NamesAssumption DEF SaveDb, TypeOK
  <2>4. proc.up /\ Db \notin Skippable /\ d # Nowhere
    BY <1>3, NamesAssumption, <2>1 DEF SaveDb, StepsInv
  <2>5. CASE d = file.mysql
    <3>1. UNCHANGED moved
      BY <1>3, <2>1, <2>5 DEF SaveDb
    <3>2. QED
      BY <2>2, <2>3, <2>4, <2>5, <3>1 DEF StepsInv, PutTask
  <2>6. CASE d # file.mysql
    <3>1. moved' = moved \cup
            ((file.done \cup {task[t].step : t \in {x \in Requests : task[x].pc = "mark"}})
               \cap Skippable)
      BY <1>3, <2>1, <2>6 DEF SaveDb
    <3>2. \A q \in Requests \ {r} : task'[q].pc = "mark" /\ task'[q].step \in Skippable =>
            task'[q].step \in moved'
      BY <2>2, <3>1 DEF PutTask
    <3>3. file.done \cap Skippable \subseteq moved'
      BY <3>1
    <3>4. QED
      BY <2>2, <2>3, <2>4, <3>2, <3>3 DEF StepsInv
  <2>7. QED
    BY <2>5, <2>6
<1>4. CASE Valid(r)
  BY <1>4, GoesEffect, StepsTask DEF Valid, PCs, SavePCs, history
<1>5. CASE Persist(r)
  <2>1. PICK d \in Databases, s \in Skippable : d = proc.mysql /\ s = task[r].step
    BY <1>5 DEF Persist, Reachable, TypeOK
  <2>2. /\ PutDb(d) /\ db'[d].stored = db[d].stored \cup {s} /\ UNCHANGED <<file, proc, moved>>
    BY <1>5, <2>1, StoresEffect DEF Persist, Stores, history
  <2>3. PutTask(r) /\ task'[r].pc = "mark" /\ task'[r].step = s
    BY <1>5, <2>1, GoesEffect DEF Persist, PCs, SavePCs
  <2>4. proc.up /\ d = file.mysql /\ d # Nowhere
    BY <1>5, <2>1, NamesAssumption DEF Persist, StepsInv
  <2>5. QED
    BY <2>2, <2>3, <2>4 DEF StepsInv, PutTask, PutDb
<1>6. CASE MarkComplete(r)
  <2>1. PICK s \in Steps : s = task[r].step
    BY TaskType DEF Task
  <2>2. PutTask(r) /\ task'[r].pc = "idle"
    BY <1>6, EndsEffect DEF MarkComplete
  <2>3. /\ file'.done = file.done \cup {s} /\ file'.mysql = file.mysql /\ UNCHANGED <<proc, db>>
        /\ file.mysql # Nowhere
        /\ s \in Skippable \ moved => s \in db[file.mysql].stored
    BY <1>6, <2>1 DEF MarkComplete, TypeOK, StepsInv
  <2>4. moved' = moved \/ (moved' = moved \ {s} /\ s \in db[file.mysql].stored)
    BY <1>6, <2>1 DEF MarkComplete
  <2>5. proc.up
    BY <1>6 DEF MarkComplete, StepsInv
  <2>6. QED
    BY <2>2, <2>3, <2>4, <2>5 DEF StepsInv, PutTask
<1>7. ASSUME NEW e \in Emails, Finish(r, e) PROVE StepsInv'
  BY <1>7, FinishEffect, StepsTask DEF Finish, Starts, history
<1>8. CASE LookUp(r) \/ SaveRange(r) \/ CreateAdmin(r)
  <2>1. Ends(r) \/ Goes(r, "range") \/ Goes(r, "create") \/ Goes(r, "activate")
    BY <1>8 DEF LookUp, SaveRange, CreateAdmin
  <2>2. PutTask(r) /\ task'[r].pc # "mark"
    BY <2>1, EndsEffect, GoesEffect DEF PCs, FinishPCs
  <2>3. task[r].pc # "idle"
    BY <1>8 DEF LookUp, SaveRange, CreateAdmin
  <2>4. QED
    BY <1>8, <2>2, <2>3, StepsTask DEF LookUp, SaveRange, CreateAdmin, history
<1>9. CASE Activate(r)
  <2>1. Ends(r) \/ Goes(r, "schema")
    BY <1>9 DEF Activate
  <2>2. PutTask(r) /\ task'[r].pc # "mark"
    BY <2>1, EndsEffect, GoesEffect DEF PCs, FinishPCs
  <2>3. proc.up /\ proc.mysql = file.mysql
    BY <1>9 DEF Activate, StepsInv
  <2>4. /\ file'.done = file.done /\ file'.mysql = file.mysql /\ UNCHANGED <<db, moved>>
        /\ proc'.up = proc.up /\ proc'.mysql = file.mysql
    BY <1>9, <2>3 DEF Activate, Installs, TypeOK, history
  <2>5. QED
    BY <2>2, <2>3, <2>4 DEF StepsInv, PutTask
<1>10. QED
  BY <1>1, <1>2, <1>3, <1>4, <1>5, <1>6, <1>7, <1>8, <1>9 DEF WizardStep

LEMMA StepsAccount ==
  ASSUME Sound, [Next]_vars, StepsInv, NEW r \in Requests, AccountStep(r)
  PROVE  StepsInv'
<1> USE DEF Sound, Tasks
<1>1. UNCHANGED <<file, proc, moved>>
  BY DEF AccountStep, CreateUser, ChangeUser, Exists, Insert, CheckTarget, CountAdmins, UpdateUser,
       AccountFails, history
<1>2. ASSUME NEW e \in Emails, NEW admin \in BOOLEAN, CreateUser(r, e, admin) PROVE StepsInv'
  BY <1>1, <1>2, CreateUserEffect, StepsTask DEF CreateUser, AdminRequest, Starts
<1>3. ASSUME NEW e \in Emails, NEW change \in Changes, ChangeUser(r, e, change) PROVE StepsInv'
  BY <1>1, <1>3, ChangeUserEffect, StepsTask DEF ChangeUser, AdminRequest, Starts
<1>4. ASSUME Exists(r) \/ Insert(r) \/ CheckTarget(r) \/ CountAdmins(r) \/ UpdateUser(r) \/ AccountFails(r)
      PROVE  StepsInv'
  <2>1. Ends(r) \/ Goes(r, "insert") \/ Goes(r, "update") \/ Goes(r, "count")
    BY <1>4 DEF Exists, Insert, CheckTarget, LetThrough, CountAdmins, UpdateUser, AccountFails
  <2>2. PutTask(r) /\ task'[r].pc # "mark"
    BY <2>1, EndsEffect, GoesEffect DEF PCs, AccountPCs
  <2>3. task[r].pc # "idle"
    BY <1>4 DEF Exists, Insert, CheckTarget, CountAdmins, UpdateUser, AccountFails, AccountPCs
  <2>4. QED
    BY <1>1, <2>2, <2>3, StepsTask
<1>5. QED
  BY <1>2, <1>3, <1>4 DEF AccountStep

LEMMA StepsActivation ==
  ASSUME Sound, [Next]_vars, StepsInv, NEW t \in Tasks, ActivationStep(t)
  PROVE  StepsInv'
<1> USE DEF Sound
<1>1. Ends(t) \/ Goes(t, "bootstrap") \/ Goes(t, "mount")
  BY DEF ActivationStep, EnsureSchema, Bootstrap, Mount, FinishFails
<1>2. PutTask(t) /\ task'[t].pc # "mark"
  BY <1>1, EndsEffect, GoesEffect DEF PCs, FinishPCs
<1>3. task[t].pc # "idle"
  BY DEF ActivationStep, EnsureSchema, Bootstrap, Mount, FinishFails, FinishPCs
<1>4. CASE EnsureSchema(t) \/ Bootstrap(t)
  BY <1>2, <1>3, <1>4, StepsTask DEF EnsureSchema, Bootstrap, history
<1>5. CASE FinishFails(t)
  <2>1. UNCHANGED <<file, moved>> /\ proc'.up = proc.up /\ proc'.mysql = proc.mysql
    BY <1>5 DEF FinishFails, TypeOK
  <2>2. QED
    BY <1>2, <1>3, <2>1, StepsTask
<1>6. CASE Mount(t)
  <2>1. /\ file'.done = file.done /\ file'.mysql = file.mysql /\ UNCHANGED <<db, moved>>
        /\ proc'.up = proc.up /\ proc'.mysql = proc.mysql
    BY <1>6 DEF Mount, Installs, TypeOK, history
  <2>2. proc.up
    BY <1>3 DEF StepsInv
  <2>3. QED
    BY <1>2, <2>1, <2>2 DEF StepsInv, PutTask, Tasks
<1>7. QED
  BY <1>4, <1>5, <1>6 DEF ActivationStep

LEMMA StepsNext ==
  ASSUME Sound, StepsInv, [Next]_vars
  PROVE  StepsInv'
<1> USE DEF Sound
<1>1. ASSUME NEW s \in Skippable, Skip(s) PROVE StepsInv'
  <2>1. /\ file'.done = file.done /\ file'.mysql = file.mysql
        /\ UNCHANGED <<proc, db, task, moved>>
    BY <1>1 DEF Skip, TypeOK, history
  <2>2. QED
    BY <2>1 DEF StepsInv
<1>2. CASE Migrate \/ (\E e \in Emails : SignIn(e)) \/ UNCHANGED vars
  <2>1. UNCHANGED <<file, proc, task, moved>>
    BY <1>2 DEF Migrate, SignIn, vars, history
  <2>2. QED
    BY <2>1, StepsFrame DEF StepsInv
<1>3. CASE Crash
  <2>1. /\ ~proc'.up /\ UNCHANGED <<file, db, moved>> /\ \A t \in Tasks : task'[t].pc = "idle"
    BY <1>3 DEF Crash, Idle
  <2>2. QED
    BY <2>1 DEF StepsInv, Tasks
<1>4. CASE StartUp
  <2>1. /\ UNCHANGED <<file, db, moved>> /\ proc'.up /\ proc'.mysql = file.mysql
    BY <1>4 DEF StartUp, TypeOK, history
  <2>2. \A r \in Requests : task'[r].pc = "idle"
    <3>1. \A r \in Requests : task[r].pc = "idle"
      BY <1>4 DEF StartUp, StepsInv, Tasks
    <3>2. CASE Goes(Boot, "schema")
      BY <3>1, <3>2, GoesEffect, NamesAssumption DEF PutTask, Tasks, PCs, FinishPCs
    <3>3. QED
      BY <1>4, <3>1, <3>2 DEF StartUp
  <2>3. QED
    BY <2>1, <2>2 DEF StepsInv
<1>5. QED
  BY <1>1, <1>2, <1>3, <1>4, StepsWizard, StepsAccount, StepsActivation DEF Next

LEMMA StepsInit ==
  ASSUME Init
  PROVE  StepsInv
<1>1. \A t \in Tasks : task[t].pc = "idle"
  BY DEF Init, Idle
<1>2. proc.up /\ proc.mysql = file.mysql /\ moved = {}
  BY DEF Init
<1>3. CASE file = [installed |-> FALSE, mysql |-> Nowhere, done |-> {}, skipped |-> {}]
  BY <1>1, <1>2, <1>3 DEF StepsInv, Tasks
<1>4. ASSUME NEW d \in Databases, NEW A \in (SUBSET Emails) \ {{}},
             file = [installed |-> TRUE, mysql |-> d, done |-> Steps, skipped |-> {}],
             db = [x \in Databases |->
               IF x # d THEN Empty
               ELSE [schema |-> TRUE, stored |-> Skippable, users |-> A, admins |-> A,
                     disabled |-> {}, sessions |-> A]]
      PROVE  StepsInv
  <2>1. file.mysql = d /\ db[d].stored = Skippable /\ d # Nowhere
    BY <1>4, NamesAssumption
  <2>2. QED
    BY <1>1, <1>2, <2>1 DEF StepsInv, Tasks
<1>5. QED
  BY <1>3, <1>4 DEF Init

LEMMA AlwaysSteps == Spec => [](Sound /\ StepsInv)
<1>1. Init => Sound /\ StepsInv
  BY TypeInit, StepsInit DEF Sound
<1>2. Sound /\ StepsInv /\ [Next]_vars => (Sound /\ StepsInv)'
  BY SoundNext, StepsNext
<1>3. QED
  BY <1>1, <1>2, PTL DEF Spec

\* server.js:252-263, setup.js:139-140: what setup.json says is done is in the database the file
\* names, where the process is, through crashes and a database that is changed half-way, unless
\* the step was answered before the change.
THEOREM CompletedStepsStand == Spec => []CompletedStepsHold
<1>1. StepsInv => CompletedStepsHold
  BY DEF StepsInv, CompletedStepsHold
<1>2. QED
  BY <1>1, AlwaysSteps, PTL

-----------------------------------------------------------------------------
(* Somebody administers *)

Ok == ~crossed /\ ~strayed

Stranding(r) == task[r].pc = "update" /\ task[r].change \in Strands

\* Past the account of the last step, or at work on the accounts.
Committed(r) == task[r].pc \in AccountPCs \cup {"activate", "schema", "bootstrap", "mount"}

\* One request at most is about to take an administrator away, and it leaves another one.
AdminInv ==
  /\ ~crossed => \A q, r \in Requests : Stranding(q) /\ Stranding(r) => q = r
  /\ Ok =>
       /\ \A d \in Databases :
            /\ db[d].users # {} => ActiveAdmins(db[d]) # {}
            /\ db[d].sessions # {} => db[d].users # {}
       /\ \A r \in Requests :
            Stranding(r) => ActiveAdmins(db[file.mysql]) \ {task[r].email} # {}
       /\ file.installed \/ (\E r \in Requests : Committed(r)) =>
            file.mysql \in Databases /\ db[file.mysql].users # {}

LEMMA HistoryStays ==
  ASSUME [Next]_vars
  PROVE  (crossed => crossed') /\ (strayed => strayed')
<1>1. ASSUME NEW r \in Requests, WizardStep(r), ~SaveDb(r) PROVE UNCHANGED <<crossed, strayed>>
  BY <1>1 DEF WizardStep, Save, Invalid, Valid, Persist, MarkComplete, SaveFails, Finish,
       LookUp, SaveRange, CreateAdmin, Activate, history
<1>2. ASSUME NEW r \in Requests, SaveDb(r) PROVE UNCHANGED crossed /\ (strayed => strayed')
  BY <1>2 DEF SaveDb
<1>3. ASSUME NEW r \in Requests, AccountStep(r) PROVE UNCHANGED strayed
  BY <1>3 DEF AccountStep, CreateUser, ChangeUser, Exists, Insert, CheckTarget, CountAdmins,
       UpdateUser, AccountFails, history
<1>4. ASSUME NEW r \in Requests, CheckTarget(r) \/ CountAdmins(r) PROVE crossed => crossed'
  BY <1>4 DEF CheckTarget, CountAdmins, LetThrough
<1>5. ASSUME NEW r \in Requests, AccountStep(r), ~CheckTarget(r), ~CountAdmins(r)
      PROVE  UNCHANGED crossed
  BY <1>5 DEF AccountStep, CreateUser, ChangeUser, Exists, Insert, UpdateUser, AccountFails, history
<1>6. ASSUME NEW t \in Tasks, ActivationStep(t) PROVE UNCHANGED <<crossed, strayed>>
  BY <1>6 DEF ActivationStep, EnsureSchema, Bootstrap, Mount, FinishFails, history
<1>7. (\E s \in Skippable : Skip(s)) \/ Migrate \/ (\E e \in Emails : SignIn(e)) \/ Crash \/ StartUp
        \/ UNCHANGED vars => UNCHANGED <<crossed, strayed>>
  BY DEF Skip, Migrate, SignIn, Crash, StartUp, vars, history
<1>8. QED
  BY <1>1, <1>2, <1>3, <1>4, <1>5, <1>6, <1>7 DEF Next

LEMMA OkBefore ==
  ASSUME [Next]_vars, Ok'
  PROVE  Ok
BY HistoryStays DEF Ok

\* A step is one task's.
LEMMA StepsOwn ==
  ASSUME TypeOK
  PROVE  /\ \A r \in Requests : WizardStep(r) \/ AccountStep(r) => PutTask(r)
         /\ \A t \in Tasks : ActivationStep(t) => PutTask(t)
<1> USE DEF Tasks
<1>1. ASSUME NEW t \in Tasks, NEW pc \in PCs, Goes(t, pc) PROVE PutTask(t)
  BY <1>1, GoesEffect
<1>2. ASSUME NEW r \in Requests, WizardStep(r) PROVE PutTask(r)
  <2>1. CASE Ends(r) \/ Goes(r, "mark") \/ Goes(r, "persist") \/ Goes(r, "range")
             \/ Goes(r, "create") \/ Goes(r, "activate") \/ Goes(r, "schema")
    BY <1>1, <2>1, EndsEffect DEF PCs, SavePCs, FinishPCs
  <2>2. QED
    BY <1>2, <2>1, SaveEffect, FinishEffect DEF WizardStep, Invalid, SaveDb, Valid, Persist,
         MarkComplete, SaveFails, LookUp, SaveRange, CreateAdmin, Activate
<1>3. ASSUME NEW r \in Requests, AccountStep(r) PROVE PutTask(r)
  <2>1. CASE Ends(r) \/ Goes(r, "insert") \/ Goes(r, "update") \/ Goes(r, "count")
    BY <1>1, <2>1, EndsEffect DEF PCs, AccountPCs
  <2>2. QED
    BY <1>3, <2>1, CreateUserEffect, ChangeUserEffect DEF AccountStep, Exists, Insert,
         CheckTarget, LetThrough, CountAdmins, UpdateUser, AccountFails
<1>4. ASSUME NEW t \in Tasks, ActivationStep(t) PROVE PutTask(t)
  <2>1. Ends(t) \/ Goes(t, "bootstrap") \/ Goes(t, "mount")
    BY <1>4 DEF ActivationStep, EnsureSchema, Bootstrap, Mount, FinishFails
  <2>2. QED
    BY <1>1, <2>1, EndsEffect DEF PCs, FinishPCs
<1>5. QED
  BY <1>2, <1>3, <1>4

LEMMA RequestSteps ==
  ASSUME TypeOK, [Next]_vars, NEW r \in Requests
  PROVE  \/ task'[r] = task[r] \/ task'[r].pc = "idle"
         \/ PutTask(r) /\ (WizardStep(r) \/ AccountStep(r) \/ ActivationStep(r))
<1> USE DEF Tasks
<1>1. ASSUME NEW q \in Requests, WizardStep(q) \/ AccountStep(q)
      PROVE  task'[r] = task[r] \/ (PutTask(r) /\ (WizardStep(r) \/ AccountStep(r)))
  BY <1>1, StepsOwn DEF PutTask
<1>2. ASSUME NEW t \in Tasks, ActivationStep(t)
      PROVE  task'[r] = task[r] \/ (PutTask(r) /\ ActivationStep(r))
  BY <1>2, StepsOwn DEF PutTask
<1>3. CASE Crash
  BY <1>3 DEF Crash, Idle
<1>4. CASE StartUp
  <2>1. Goes(Boot, "schema") => task'[r] = task[r]
    BY GoesEffect, NamesAssumption DEF PutTask, PCs, FinishPCs
  <2>2. QED
    BY <1>4, <2>1 DEF StartUp
<1>5. (\E s \in Skippable : Skip(s)) \/ Migrate \/ (\E e \in Emails : SignIn(e)) \/ UNCHANGED vars
        => UNCHANGED task
  BY DEF Skip, Migrate, SignIn, vars
<1>6. QED
  BY <1>1, <1>2, <1>3, <1>4, <1>5 DEF Next

\* Who commits itself has made an account, or was asked by a signed-in administrator.
LEMMA Commits ==
  ASSUME Sound, StepsInv, [Next]_vars, NEW r \in Requests, Committed(r)', ~Committed(r)
  PROVE  /\ proc.mysql \in Databases /\ proc.mysql = file.mysql
         /\ db[proc.mysql].sessions # {} \/ db'[proc.mysql].users # {}
<1> USE DEF Sound, Tasks
<1>1. task[r].pc # task'[r].pc /\ task'[r].pc # "idle"
  BY DEF Committed, AccountPCs
<1>2. PutTask(r) /\ (WizardStep(r) \/ AccountStep(r) \/ ActivationStep(r))
  BY <1>1, RequestSteps
<1>3. task[r].pc # "idle" => proc.up
  BY DEF StepsInv
<1>4. CASE WizardStep(r)
  <2>1. CASE CreateAdmin(r)
    <3>1. ~Ends(r)
      BY <1>1, EndsEffect
    <3>2. proc.mysql \in Databases /\ db'[proc.mysql].users # {}
      BY <2>1, <3>1, CreateAdminEffect DEF Adds
    <3>3. proc.mysql = file.mysql
      BY <1>3, <2>1 DEF CreateAdmin, StepsInv
    <3>4. QED
      BY <3>2, <3>3
  <2>2. ASSUME NEW s \in Steps, NEW d \in Databases, Save(r, s, d) PROVE FALSE
    BY <2>2, SaveEffect DEF Committed, AccountPCs
  <2>3. ASSUME NEW e \in Emails, Finish(r, e) PROVE FALSE
    BY <2>3, FinishEffect DEF Committed, AccountPCs
  <2>4. ASSUME Ends(r) \/ Goes(r, "mark") \/ Goes(r, "persist") \/ Goes(r, "range") \/ Goes(r, "create")
        PROVE  FALSE
    BY <1>1, <2>4, EndsEffect, GoesEffect DEF PCs, SavePCs, FinishPCs, AccountPCs, Committed
  <2>5. ~Activate(r)
    BY DEF Activate, Committed
  <2>6. QED
    BY <1>4, <2>1, <2>2, <2>3, <2>4, <2>5 DEF WizardStep, Invalid, SaveDb, Valid, Persist,
         MarkComplete, SaveFails, LookUp, SaveRange
<1>5. CASE AccountStep(r)
  <2>1. AdminRequest(r)
    BY <1>5 DEF AccountStep, CreateUser, ChangeUser, Exists, Insert, CheckTarget, CountAdmins,
         UpdateUser, AccountFails, Committed, AccountPCs
  <2>2. QED
    BY <2>1 DEF AdminRequest, Starts, Reachable, Here, TypeOK, StepsInv
<1>6. CASE ActivationStep(r)
  <2>1. ~Mount(r) /\ ~FinishFails(r)
    BY <1>1, EndsEffect DEF Mount, FinishFails
  <2>2. QED
    BY <1>6, <2>1 DEF ActivationStep, EnsureSchema, Bootstrap, Committed
<1>7. QED
  BY <1>2, <1>4, <1>5, <1>6

\* The database is not changed under a committed request, nor after the install.
LEMMA FileMoves ==
  ASSUME Sound, [Next]_vars, Ok'
  PROVE  \/ file'.mysql = file.mysql
         \/ ~file'.installed /\ \A r \in Requests : ~Committed(r)'
<1> USE DEF Sound, Tasks
<1>1. ASSUME NEW q \in Requests, SaveDb(q), file'.mysql # file.mysql
      PROVE  ~file'.installed /\ \A r \in Requests : ~Committed(r)'
  <2>1. file'.mysql = task[q].to /\ file'.installed = file.installed
    BY <1>1 DEF SaveDb, TypeOK
  <2>2. ~file.installed /\ \A t \in Tasks \ {q} : task[t].pc \notin FinishPCs \cup AccountPCs
    BY <1>1, <2>1 DEF SaveDb, Ok
  <2>3. PutTask(q) /\ task'[q].pc = "mark"
    BY <1>1, GoesEffect DEF SaveDb, PCs, SavePCs
  <2>4. QED
    BY <2>1, <2>2, <2>3 DEF PutTask, Committed, FinishPCs, AccountPCs
<1>2. ASSUME NEW q \in Requests, WizardStep(q), ~SaveDb(q) PROVE file'.mysql = file.mysql
  BY <1>2 DEF WizardStep, Save, Invalid, Valid, Persist, MarkComplete, SaveFails, Finish,
       LookUp, SaveRange, CreateAdmin, Activate, Installs, TypeOK
<1>3. ASSUME NEW q \in Requests, AccountStep(q) PROVE UNCHANGED file
  BY <1>3 DEF AccountStep, CreateUser, ChangeUser, Exists, Insert, CheckTarget, CountAdmins,
       UpdateUser, AccountFails
<1>4. ASSUME NEW t \in Tasks, ActivationStep(t) PROVE file'.mysql = file.mysql
  BY <1>4 DEF ActivationStep, EnsureSchema, Bootstrap, Mount, FinishFails, Installs, TypeOK
<1>5. (\E s \in Skippable : Skip(s)) \/ Migrate \/ (\E e \in Emails : SignIn(e)) \/ Crash \/ StartUp
        \/ UNCHANGED vars => file'.mysql = file.mysql
  BY DEF Skip, Migrate, SignIn, Crash, StartUp, vars, TypeOK
<1>6. QED
  BY <1>1, <1>2, <1>3, <1>4, <1>5 DEF Next

LEMMA InstallsCommitted ==
  ASSUME Sound, [Next]_vars, file'.installed
  PROVE  file.installed \/ \E r \in Requests : Committed(r)
<1> USE DEF Sound, Tasks
<1>1. ASSUME NEW q \in Requests, WizardStep(q) PROVE file.installed \/ Committed(q)
  BY <1>1 DEF WizardStep, Save, Invalid, SaveDb, Valid, Persist, MarkComplete, SaveFails, Finish,
       LookUp, SaveRange, CreateAdmin, Activate, Installs, TypeOK, Committed
<1>2. ASSUME NEW q \in Requests, AccountStep(q) PROVE UNCHANGED file
  BY <1>2 DEF AccountStep, CreateUser, ChangeUser, Exists, Insert, CheckTarget, CountAdmins,
       UpdateUser, AccountFails
<1>3. ASSUME NEW t \in Tasks, ActivationStep(t)
      PROVE  file.installed \/ (t \in Requests /\ Committed(t))
  <2>1. CASE Mount(t) /\ t # Boot
    BY <2>1 DEF Mount, Committed
  <2>2. CASE ~Mount(t) \/ t = Boot
    BY <1>3, <2>2 DEF ActivationStep, EnsureSchema, Bootstrap, Mount, FinishFails
  <2>3. QED
    BY <2>1, <2>2
<1>4. (\E s \in Skippable : Skip(s)) \/ Migrate \/ (\E e \in Emails : SignIn(e)) \/ Crash \/ StartUp
        \/ UNCHANGED vars => file'.installed = file.installed
  BY DEF Skip, Migrate, SignIn, Crash, StartUp, vars, TypeOK
<1>5. QED
  BY <1>1, <1>2, <1>3, <1>4 DEF Next

LEMMA Another ==
  ASSUME NEW S \in SUBSET Emails, Cardinality(S) > 1, NEW e \in Emails
  PROVE  S \ {e} # {}
<1>1. SUFFICES ASSUME S \subseteq {e} PROVE FALSE
  OBVIOUS
<1>2. IsFiniteSet({e}) /\ Cardinality({e}) = 1
  BY FS_Singleton
<1>3. IsFiniteSet(S) /\ Cardinality(S) <= Cardinality({e})
  BY <1>1, <1>2, FS_Subset
<1>4. Cardinality(S) \in Nat
  BY <1>3, FS_CardinalityType
<1>5. QED
  BY <1>2, <1>3, <1>4

\* A step that commits to take an administrator away is the only one, and leaves another.
LEMMA Strandings ==
  ASSUME Sound, StepsInv, AdminInv, [Next]_vars, ~crossed', NEW r \in Requests, Stranding(r)'
  PROVE  \/ Stranding(r) /\ task'[r].email = task[r].email
         \/ /\ \A q \in Requests \ {r} : task'[q] = task[q] /\ ~Stranding(q)
            /\ UNCHANGED <<db, file>>
            /\ Ok => ActiveAdmins(db[file.mysql]) \ {task'[r].email} # {}
<1> USE DEF Sound, Tasks
<1>1. task'[r] = task[r] \/ (PutTask(r) /\ (WizardStep(r) \/ AccountStep(r) \/ ActivationStep(r)))
  BY RequestSteps DEF Stranding
<1>2. CASE task'[r] = task[r]
  BY <1>2 DEF Stranding
<1>3. CASE WizardStep(r)
  <2>1. ASSUME NEW s \in Steps, NEW d \in Databases, Save(r, s, d) PROVE FALSE
    BY <2>1, SaveEffect DEF Stranding
  <2>2. ASSUME NEW e \in Emails, Finish(r, e) PROVE FALSE
    BY <2>2, FinishEffect DEF Stranding
  <2>3. ASSUME \/ Ends(r) \/ Goes(r, "mark") \/ Goes(r, "persist") \/ Goes(r, "range")
               \/ Goes(r, "create") \/ Goes(r, "activate") \/ Goes(r, "schema")
        PROVE  FALSE
    BY <2>3, EndsEffect, GoesEffect DEF PCs, SavePCs, FinishPCs, Stranding
  <2>4. QED
    BY <1>3, <2>1, <2>2, <2>3 DEF WizardStep, Invalid, SaveDb, Valid, Persist, MarkComplete,
         SaveFails, LookUp, SaveRange, CreateAdmin, Activate
<1>4. CASE ActivationStep(r)
  <2>1. Ends(r) \/ Goes(r, "bootstrap") \/ Goes(r, "mount")
    BY <1>4 DEF ActivationStep, EnsureSchema, Bootstrap, Mount, FinishFails
  <2>2. QED
    BY <2>1, EndsEffect, GoesEffect DEF PCs, FinishPCs, Stranding
<1>5. CASE AccountStep(r)
  <2>1. ASSUME NEW e \in Emails, NEW admin \in BOOLEAN, CreateUser(r, e, admin) PROVE FALSE
    BY <2>1, CreateUserEffect DEF Stranding
  <2>2. ASSUME NEW e \in Emails, NEW change \in Changes, ChangeUser(r, e, change) PROVE FALSE
    BY <2>2, ChangeUserEffect DEF Stranding
  <2>3. ~Ends(r) /\ ~Goes(r, "insert") /\ ~Goes(r, "count")
    BY EndsEffect, GoesEffect DEF PCs, AccountPCs, Stranding
  <2>4. CheckTarget(r) \/ CountAdmins(r)
    BY <1>5, <2>1, <2>2, <2>3 DEF AccountStep, Exists, Insert, UpdateUser, AccountFails
  <2>5. LetThrough(r) /\ UNCHANGED <<db, file>> /\ Reachable /\ task[r].pc \in {"check", "count"}
    BY <2>3, <2>4 DEF CheckTarget, CountAdmins
  <2>6. /\ PutTask(r) /\ task'[r].email = task[r].email /\ task'[r].change = task[r].change
    BY <2>5, GoesEffect DEF LetThrough, PCs, AccountPCs
  <2>7. task[r].change \in Strands
    BY <2>6 DEF Stranding
  <2>8. \A q \in Requests \ {r} : task'[q] = task[q] /\ ~Stranding(q)
    BY <2>5, <2>6, <2>7 DEF LetThrough, Stranding, PutTask
  <2>9. /\ proc.mysql = file.mysql /\ proc.mysql \in Databases /\ task[r].email \in Emails
        /\ Committed(r)
    BY <2>5 DEF StepsInv, Reachable, TypeOK, AccountPCs, Committed
  <2>10. ASSUME Ok PROVE ActiveAdmins(db[file.mysql]) \ {task[r].email} # {}
    <3>1. ActiveAdmins(db[file.mysql]) # {}
      BY <2>9, <2>10 DEF AdminInv
    <3>2. CASE CheckTarget(r)
      <4>1. task[r].email \notin ActiveAdmins(Here)
        BY <2>3, <2>7, <3>2 DEF CheckTarget
      <4>2. QED
        BY <2>9, <3>1, <4>1 DEF Here
    <3>3. CASE CountAdmins(r)
      <4>1. ActiveAdmins(Here) \in SUBSET Emails
        BY <2>9, DbType DEF ActiveAdmins, Here
      <4>2. Cardinality(ActiveAdmins(Here)) \in Nat
        BY <4>1, FinitenessAssumption, FS_Subset, FS_CardinalityType
      <4>3. ~(Cardinality(ActiveAdmins(Here)) <= 1)
        BY <2>3, <3>3 DEF CountAdmins
      <4>4. Cardinality(ActiveAdmins(Here)) > 1
        BY <4>2, <4>3
      <4>5. QED
        BY <2>9, <4>1, <4>4, Another DEF Here
    <3>4. QED
      BY <2>4, <3>2, <3>3
  <2>11. QED
    BY <2>5, <2>6, <2>8, <2>10
<1>6. QED
  BY <1>1, <1>2, <1>3, <1>4, <1>5

\* Whatever a step does to the accounts of a database, it leaves it an administrator.
LEMMA AccountsStay ==
  ASSUME Sound, StepsInv, AdminInv, [Next]_vars, Ok, NEW d \in Databases
  PROVE  /\ db[d].users # {} => db'[d].users # {}
         /\ db'[d].users # {} => ActiveAdmins(db'[d]) # {}
         /\ db'[d].sessions # {} => db'[d].users # {}
         /\ \A r \in Requests :
              Stranding(r) /\ Stranding(r)' /\ ActiveAdmins(db[d]) \ {task[r].email} # {} =>
                ActiveAdmins(db'[d]) \ {task[r].email} # {}
<1> USE DEF Sound, Tasks
<1>1. /\ db[d].users # {} => ActiveAdmins(db[d]) # {}
      /\ db[d].sessions # {} => db[d].users # {}
      /\ db[d].disabled \subseteq db[d].users
  BY DEF AdminInv, WellFormed
<1>2. CASE db'[d] = db[d]
  BY <1>1, <1>2
<1>3. CASE Quiet(d)
  <2>1. ActiveAdmins(db'[d]) = ActiveAdmins(db[d])
    BY <1>3 DEF Quiet, SameAccounts, ActiveAdmins
  <2>2. QED
    BY <1>1, <1>3, <2>1 DEF Quiet, SameAccounts
<1>4. ASSUME NEW q \in Requests, task[q].pc # "idle", d = proc.mysql, Committed(q)
      PROVE  db[d].users # {}
  BY <1>4 DEF StepsInv, AdminInv
<1>5. ASSUME NEW e \in Emails, Joins(d, e), d = proc.mysql
      PROVE  /\ db'[d].users # {} /\ ActiveAdmins(db'[d]) # {}
             /\ ActiveAdmins(db[d]) \subseteq ActiveAdmins(db'[d])
  <2>1. /\ db'[d].users = db[d].users \cup {e} /\ db'[d].disabled = db[d].disabled
        /\ e \notin db[d].users
    BY <1>5 DEF Joins, Adds
  <2>2. CASE Adds(d, e, db[d].admins \cup {e})
    <3>1. db'[d].admins = db[d].admins \cup {e}
      BY <2>2 DEF Adds
    <3>2. QED
      BY <1>1, <2>1, <3>1 DEF ActiveAdmins
  <2>3. ASSUME Adds(d, e, db[d].admins), NEW q \in Requests, task[q].pc = "insert"
        PROVE  /\ db'[d].users # {} /\ ActiveAdmins(db'[d]) # {}
               /\ ActiveAdmins(db[d]) \subseteq ActiveAdmins(db'[d])
    <3>1. db'[d].admins = db[d].admins
      BY <2>3 DEF Adds
    <3>2. Committed(q)
      BY <2>3 DEF Committed, AccountPCs
    <3>3. ActiveAdmins(db[d]) # {}
      BY <1>1, <1>4, <1>5, <2>3, <3>2
    <3>4. ActiveAdmins(db'[d]) = ActiveAdmins(db[d])
      BY <2>1, <3>1 DEF ActiveAdmins
    <3>5. QED
      BY <2>1, <3>3, <3>4
  <2>4. QED
    BY <1>5, <2>2, <2>3 DEF Joins
<1>6. ASSUME NEW q \in Requests, UpdateUser(q), d = proc.mysql
      PROVE  /\ db'[d].users # {} /\ ActiveAdmins(db'[d]) # {}
             /\ \A r \in Requests :
                  Stranding(r) /\ Stranding(r)' /\ ActiveAdmins(db[d]) \ {task[r].email} # {} =>
                    ActiveAdmins(db'[d]) \ {task[r].email} # {}
  <2>1. /\ db'[d].admins \subseteq db'[d].users
        /\ ActiveAdmins(db[d]) \ {task[q].email} \subseteq ActiveAdmins(db'[d])
        /\ task[q].change \notin Strands => ActiveAdmins(db[d]) \subseteq ActiveAdmins(db'[d])
    BY <1>6, UpdateUserEffect DEF Here
  <2>2. task[q].pc = "update" /\ Committed(q) /\ proc.mysql = file.mysql
    BY <1>6 DEF UpdateUser, Committed, AccountPCs, StepsInv
  <2>3. db[d].users # {}
    BY <1>4, <1>6, <2>2
  <2>4. CASE task[q].change \in Strands
    <3>1. Stranding(q) /\ ActiveAdmins(db[d]) \ {task[q].email} # {}
      BY <1>6, <2>2, <2>4 DEF Stranding, AdminInv
    <3>2. \A r \in Requests : Stranding(r) => r = q
      BY <3>1 DEF AdminInv, Ok
    <3>3. ~Stranding(q)'
      BY <1>6, EndsEffect DEF UpdateUser, Stranding
    <3>4. QED
      BY <2>1, <3>1, <3>2, <3>3 DEF ActiveAdmins
  <2>5. CASE task[q].change \notin Strands
    BY <1>1, <2>1, <2>3, <2>5 DEF ActiveAdmins
  <2>6. QED
    BY <2>4, <2>5
<1>7. CASE d # proc.mysql \/ UNCHANGED db
  <2>1. db'[d] = db[d]
    <3>1. ASSUME NEW q \in Requests, UpdateUser(q), d # proc.mysql PROVE db'[d] = db[d]
      BY <3>1, UpdateUserEffect DEF PutDb
    <3>2. QED
      BY <1>7, <3>1, DbSteps DEF Quiet, Joins, Adds, PutDb
  <2>2. QED
    BY <1>2, <2>1
<1>8. QED
  BY <1>3, <1>5, <1>6, <1>7, DbSteps

LEMMA AdminNext ==
  ASSUME Sound, StepsInv, AdminInv, [Next]_vars
  PROVE  AdminInv'
<1> USE DEF Sound, Tasks
<1>1. ASSUME ~crossed', NEW q \in Requests, NEW r \in Requests, Stranding(q)', Stranding(r)'
      PROVE  q = r
  <2>1. ~crossed
    BY <1>1, HistoryStays
  <2>2. CASE Stranding(q) /\ Stranding(r)
    BY <2>1, <2>2 DEF AdminInv
  <2>3. CASE ~Stranding(q)
    <3>1. \A x \in Requests \ {q} : task'[x] = task[x] /\ ~Stranding(x)
      BY <1>1, <2>3, Strandings
    <3>2. QED
      BY <1>1, <3>1 DEF Stranding
  <2>4. CASE ~Stranding(r)
    <3>1. \A x \in Requests \ {r} : task'[x] = task[x] /\ ~Stranding(x)
      BY <1>1, <2>4, Strandings
    <3>2. QED
      BY <1>1, <3>1 DEF Stranding
  <2>5. QED
    BY <2>2, <2>3, <2>4
<1>2. ASSUME Ok' PROVE Ok /\ ~crossed'
  BY <1>2, OkBefore DEF Ok
<1>3. ASSUME Ok', NEW d \in Databases
      PROVE  /\ db'[d].users # {} => ActiveAdmins(db'[d]) # {}
             /\ db'[d].sessions # {} => db'[d].users # {}
  BY <1>2, <1>3, AccountsStay
<1>4. ASSUME Ok', NEW r \in Requests, Stranding(r)'
      PROVE  ActiveAdmins(db'[file'.mysql]) \ {task'[r].email} # {}
  <2>1. Ok /\ ~crossed'
    BY <1>2, <1>4
  <2>2. CASE Stranding(r) /\ task'[r].email = task[r].email
    <3>1. Committed(r) /\ Committed(r)'
      BY <1>4, <2>2 DEF Stranding, Committed, AccountPCs
    <3>2. /\ file.mysql \in Databases /\ ActiveAdmins(db[file.mysql]) \ {task[r].email} # {}
          /\ file'.mysql = file.mysql
      BY <1>4, <2>1, <2>2, <3>1, FileMoves DEF AdminInv
    <3>3. QED
      BY <1>4, <2>1, <2>2, <3>2, AccountsStay
  <2>3. CASE ~(Stranding(r) /\ task'[r].email = task[r].email)
    BY <1>4, <2>1, <2>3, Strandings
  <2>4. QED
    BY <2>2, <2>3
<1>5. ASSUME Ok', file'.installed \/ (\E r \in Requests : Committed(r)')
      PROVE  file'.mysql \in Databases /\ db'[file'.mysql].users # {}
  <2>1. Ok
    BY <1>2, <1>5
  <2>2. file'.mysql = file.mysql
    BY <1>5, FileMoves
  <2>3. CASE file.installed \/ \E r \in Requests : Committed(r)
    <3>1. file.mysql \in Databases /\ db[file.mysql].users # {}
      BY <2>1, <2>3 DEF AdminInv
    <3>2. QED
      BY <2>1, <2>2, <3>1, AccountsStay
  <2>4. CASE ~file.installed /\ \A r \in Requests : ~Committed(r)
    <3>1. ~file'.installed
      BY <2>4, InstallsCommitted
    <3>2. PICK r \in Requests : Committed(r)'
      BY <1>5, <3>1
    <3>3. /\ proc.mysql \in Databases /\ proc.mysql = file.mysql
          /\ db[proc.mysql].sessions # {} \/ db'[proc.mysql].users # {}
      BY <2>4, <3>2, Commits
    <3>4. db[proc.mysql].sessions # {} => db[proc.mysql].users # {}
      BY <2>1, <3>3 DEF AdminInv
    <3>5. db'[proc.mysql].users # {}
      BY <2>1, <3>3, <3>4, AccountsStay
    <3>6. QED
      BY <2>2, <3>3, <3>5
  <2>5. QED
    BY <2>3, <2>4
<1>6. QED
  BY <1>1, <1>3, <1>4, <1>5 DEF AdminInv

LEMMA AdminInit ==
  ASSUME Init
  PROVE  AdminInv
<1>1. \A t \in Tasks : task[t].pc = "idle"
  BY DEF Init, Idle
<1>2. \A r \in Requests : ~Stranding(r) /\ ~Committed(r)
  BY <1>1 DEF Tasks, Stranding, Committed, AccountPCs
<1>3. CASE /\ file = [installed |-> FALSE, mysql |-> Nowhere, done |-> {}, skipped |-> {}]
           /\ db = [d \in Databases |-> Empty]
  BY <1>2, <1>3 DEF AdminInv, Empty
<1>4. ASSUME NEW d \in Databases, NEW A \in (SUBSET Emails) \ {{}},
             file = [installed |-> TRUE, mysql |-> d, done |-> Steps, skipped |-> {}],
             db = [x \in Databases |->
               IF x # d THEN Empty
               ELSE [schema |-> TRUE, stored |-> Skippable, users |-> A, admins |-> A,
                     disabled |-> {}, sessions |-> A]]
      PROVE  AdminInv
  <2>1. /\ file.mysql = d /\ db[d].users = A /\ db[d].admins = A /\ db[d].disabled = {}
        /\ \A x \in Databases \ {d} : db[x].users = {} /\ db[x].sessions = {}
    BY <1>4 DEF Empty
  <2>2. ActiveAdmins(db[d]) = A
    BY <2>1 DEF ActiveAdmins
  <2>3. A # {} /\ d \in Databases
    BY <1>4
  <2>4. \A x \in Databases :
          /\ db[x].users # {} => ActiveAdmins(db[x]) # {}
          /\ db[x].sessions # {} => db[x].users # {}
    BY <2>1, <2>2, <2>3
  <2>5. file.mysql \in Databases /\ db[file.mysql].users # {}
    BY <2>1, <2>3
  <2>6. QED
    BY <1>2, <2>4, <2>5 DEF AdminInv
<1>5. QED
  BY <1>3, <1>4 DEF Init

\* users.js:34-35, authUsers.js:76-78: an installed server always has an active administrator,
\* whatever requests demote, disable and delete accounts, unless two such requests were let
\* through together or the database was changed under a request.
THEOREM AdministratorRemains == Spec => []SomeoneAdministers
<1>1. Init => AdminInv
  BY AdminInit
<1>2. Sound /\ StepsInv /\ AdminInv /\ [Next]_vars => AdminInv'
  BY AdminNext
<1>3. AdminInv => SomeoneAdministers
  BY DEF AdminInv, Ok, SomeoneAdministers
<1>4. QED
  BY <1>1, <1>2, <1>3, AlwaysSteps, PTL DEF Spec
=============================================================================
