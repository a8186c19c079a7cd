----------------------------- MODULE Installation -----------------------------
(***************************************************************************)
(* From an empty server to an administered one: the steps of the set-up    *)
(* wizard (routes/setup.js) over setup.json (lib/setupState.js), the       *)
(* activation of the runtime and the boot (server.js), and the accounts    *)
(* (routes/users.js, lib/authUsers.js), whose rule it is that somebody can *)
(* still administer the server.                                            *)
(*                                                                         *)
(* A request runs from one await to the next.  Who may send it (the claim  *)
(* and the install token) is left open: a claim lapses and can be taken    *)
(* over, so a request that arrived under it may still be under way.  The   *)
(* validators and MySQL are external: they may refuse, or fail.            *)
(***************************************************************************)
EXTENDS Integers, FiniteSets

CONSTANTS
  Skippable,     \* the steps beside the database and the last one
  Db,            \* the database step
  Databases,     \* what the database step may be pointed at
  Nowhere,
  Emails,        \* of accounts
  Localhost,     \* the address of the bootstrap administrator
  NoOne,
  Requests,
  Boot,          \* the start of the process, a task like a request
  MaxStarts,     \* bound: requests
  MaxFaults      \* bound: failed calls, statements and writes, and crashes

ASSUME NamesAssumption ==
  /\ Db \notin Skippable
  /\ Nowhere \notin Databases
  /\ Localhost \in Emails /\ NoOne \notin Emails
  /\ Boot \notin Requests
ASSUME FinitenessAssumption == IsFiniteSet(Emails) /\ IsFiniteSet(Requests)
ASSUME BoundsAssumption == MaxStarts \in Nat /\ MaxFaults \in Nat

Steps == Skippable \cup {Db}

Tasks == Requests \cup {Boot}

\* What a request does to an account; the first three can take an administrator away.
Changes == {"demote", "disable", "delete", "promote", "enable"}

Strands == {"demote", "disable", "delete"}

-----------------------------------------------------------------------------
VARIABLES
  file,        \* setup.json
  proc,        \* the process: config.mysql, the runtime router, `activated`, the scheduler
  db,          \* each database: its schema, the stored answers, the accounts and sessions
  task,        \* the requests, and the boot, each at the await it is waiting for
  moved,       \* history: steps answered before the database was changed
  strayed,     \* history: the database was changed under a request, or after the install
  crossed,     \* history: two requests that take administrators away were both let through
  degraded,    \* history: this process mounted the API without activating
  starts, faults

history == <<moved, strayed, crossed, degraded>>
vars == <<file, proc, db, task, history, starts, faults>>

Idle == [pc |-> "idle", step |-> Db, to |-> Nowhere, email |-> NoOne, change |-> "enable"]

SavePCs == {"validate", "persist", "mark"}
FinishPCs == {"look", "range", "create", "activate", "schema", "bootstrap", "mount"}
AccountPCs == {"exists", "insert", "check", "count", "update"}

Task ==
  [pc : {"idle"} \cup SavePCs \cup FinishPCs \cup AccountPCs,
   step : Steps, to : Databases \cup {Nowhere}, email : Emails \cup {NoOne}, change : Changes]

Database ==
  [schema : BOOLEAN, stored : SUBSET Skippable, users : SUBSET Emails, admins : SUBSET Emails,
   disabled : SUBSET Emails, sessions : SUBSET Emails]

Empty ==
  [schema |-> FALSE, stored |-> {}, users |-> {}, admins |-> {}, disabled |-> {}, sessions |-> {}]

TypeOK ==
  /\ file \in [installed : BOOLEAN, mysql : Databases \cup {Nowhere}, done : SUBSET Steps,
               skipped : SUBSET Skippable]
  /\ proc \in [up : BOOLEAN, mysql : Databases \cup {Nowhere}, router : BOOLEAN,
               activated : BOOLEAN, scheduler : BOOLEAN]
  /\ db \in [Databases -> Database]
  /\ task \in [Tasks -> Task]
  /\ \A t \in Tasks :
       /\ task[t].pc \in SavePCs /\ task[t].step = Db => task[t].to \in Databases
       /\ task[t].pc = "persist" => task[t].step \in Skippable
       /\ task[t].pc \in {"look", "range", "create"} \cup AccountPCs => task[t].email \in Emails
  /\ moved \subseteq Skippable
  /\ strayed \in BOOLEAN /\ crossed \in BOOLEAN /\ degraded \in BOOLEAN
  /\ starts \in Nat /\ faults \in Nat

\* A first start, or a server that has been running, its administrators signed in.
Init ==
  /\ \/ /\ file = [installed |-> FALSE, mysql |-> Nowhere, done |-> {}, skipped |-> {}]
        /\ proc = [up |-> TRUE, mysql |-> Nowhere, router |-> FALSE, activated |-> FALSE,
                   scheduler |-> FALSE]
        /\ db = [d \in Databases |-> Empty]
     \/ \E d \in Databases, A \in (SUBSET Emails) \ {{}} :
          /\ file = [installed |-> TRUE, mysql |-> d, done |-> Steps, skipped |-> {}]
          /\ proc = [up |-> TRUE, mysql |-> d, router |-> TRUE, activated |-> TRUE,
                     scheduler |-> TRUE]
          /\ db = [x \in Databases |->
               IF x # d THEN Empty
               ELSE [schema |-> TRUE, stored |-> Skippable, users |-> A, admins |-> A,
                     disabled |-> {}, sessions |-> A]]
  /\ task = [t \in Tasks |-> Idle]
  /\ moved = {}
  /\ strayed = FALSE /\ crossed = FALSE /\ degraded = FALSE
  /\ starts = 0 /\ faults = 0

Fault == faults < MaxFaults /\ faults' = faults + 1

Starts(r) ==
  /\ proc.up
  /\ task[r].pc = "idle"
  /\ starts < MaxStarts
  /\ starts' = starts + 1

Goes(t, pc) == task' = [task EXCEPT ![t].pc = pc]

Ends(t) == task' = [task EXCEPT ![t] = Idle]

\* The pool answers, and the tables are there.
Reachable == proc.mysql # Nowhere /\ db[proc.mysql].schema

Here == db[proc.mysql]

ActiveAdmins(D) == D.admins \ D.disabled

-----------------------------------------------------------------------------
(* The steps of the wizard *)

\* requireNotInstalled lets the request in; the validator is on its way.
Save(r, s, d) ==
  /\ Starts(r)
  /\ ~file.installed
  /\ task' = [task EXCEPT ![r] =
       [Idle EXCEPT !.pc = "validate", !.step = s, !.to = IF s = Db THEN d ELSE Nowhere]]
  /\ UNCHANGED <<file, proc, db, history, faults>>

\* The validator refuses, or throws.
Invalid(r) ==
  /\ task[r].pc = "validate"
  /\ Ends(r)
  /\ UNCHANGED <<file, proc, db, history, starts, faults>>

\* The database step: setup.json and config.mysql follow without an await between.
SaveDb(r) ==
  LET d == task[r].to
      late == {t \in Tasks \ {r} : task[t].pc \in FinishPCs \cup AccountPCs}
      marking == {task[t].step : t \in {x \in Requests : task[x].pc = "mark"}}
  IN
  /\ task[r].pc = "validate"
  /\ task[r].step = Db
  /\ file' = [file EXCEPT !.mysql = d]
  /\ proc' = [proc EXCEPT !.mysql = d]
  /\ Goes(r, "mark")
  /\ IF d = file.mysql
     THEN UNCHANGED <<moved, strayed>>
     ELSE /\ moved' = moved \cup ((file.done \cup marking) \cap Skippable)
          /\ strayed' = (strayed \/ file.installed \/ late # {})
  /\ UNCHANGED <<db, crossed, degraded, starts, faults>>

Valid(r) ==
  /\ task[r].pc = "validate"
  /\ task[r].step # Db
  /\ Goes(r, "persist")
  /\ UNCHANGED <<file, proc, db, history, starts, faults>>

\* saveConfig, or the row of ads_settings: into the database of the moment.
Persist(r) ==
  /\ task[r].pc = "persist"
  /\ Reachable
  /\ db' = [db EXCEPT ![proc.mysql].stored = @ \cup {task[r].step}]
  /\ Goes(r, "mark")
  /\ UNCHANGED <<file, proc, history, starts, faults>>

\* markComplete reads the file and writes it back in one go.
MarkComplete(r) ==
  LET s == task[r].step IN
  /\ task[r].pc = "mark"
  /\ file' = [file EXCEPT !.done = @ \cup {s}, !.skipped = @ \ {s}]
  /\ moved' = IF file.mysql # Nowhere /\ s \in db[file.mysql].stored THEN moved \ {s} ELSE moved
  /\ Ends(r)
  /\ UNCHANGED <<proc, db, strayed, crossed, degraded, starts, faults>>

\* A statement fails, for the want of its table too, or setup.json cannot be written.
SaveFails(r) ==
  /\ task[r].pc \in {"validate", "persist", "mark"}
  /\ \/ task[r].pc = "persist" /\ ~Reachable /\ UNCHANGED faults
     \/ Fault
  /\ Ends(r)
  /\ UNCHANGED <<file, proc, db, history, starts>>

Skip(s) ==
  /\ proc.up
  /\ ~file.installed
  /\ file' = [file EXCEPT !.skipped = @ \cup {s}]
  /\ UNCHANGED <<proc, db, task, history, starts, faults>>

\* POST /db/migrate, which the page sends after the database step.
Migrate ==
  /\ proc.up
  /\ ~file.installed
  /\ proc.mysql # Nowhere
  /\ db' = [db EXCEPT ![proc.mysql].schema = TRUE]
  /\ UNCHANGED <<file, proc, task, history, starts, faults>>

-----------------------------------------------------------------------------
(* POST /finish, and the activation *)

Finish(r, e) ==
  /\ Starts(r)
  /\ ~file.installed
  /\ Db \in file.done
  /\ Skippable \subseteq file.done \cup file.skipped
  /\ task' = [task EXCEPT ![r] = [Idle EXCEPT !.pc = "look", !.email = e]]
  /\ UNCHANGED <<file, proc, db, history, faults>>

\* findByEmail: an address that is taken is refused.
LookUp(r) ==
  /\ task[r].pc = "look"
  /\ Reachable
  /\ IF task[r].email \in Here.users THEN Ends(r) ELSE Goes(r, "range")
  /\ UNCHANGED <<file, proc, db, history, starts, faults>>

\* The range of the import is saved before the account.
SaveRange(r) ==
  /\ task[r].pc = "range"
  /\ Reachable
  /\ Goes(r, "create")
  /\ UNCHANGED <<file, proc, db, history, starts, faults>>

\* createUser, under the unique key of the address.
CreateAdmin(r) ==
  LET e == task[r].email IN
  /\ task[r].pc = "create"
  /\ Reachable
  /\ IF e \in Here.users
     THEN Ends(r) /\ UNCHANGED db
     ELSE /\ db' = [db EXCEPT ![proc.mysql].users = @ \cup {e},
                              ![proc.mysql].admins = @ \cup {e}]
          /\ Goes(r, "activate")
  /\ UNCHANGED <<file, proc, history, starts, faults>>

Installs == file' = [file EXCEPT !.installed = TRUE]

ActivateRecordsFirst(r) ==
  /\ task[r].pc = "activate"
  /\ Installs
  /\ IF proc.activated
     THEN Ends(r) /\ UNCHANGED proc
     ELSE Goes(r, "schema") /\ proc' = [proc EXCEPT !.mysql = file.mysql]
  /\ UNCHANGED <<db, history, starts, faults>>

\* The activator: nothing more to do when the runtime is active already.
Activate(r) ==
  /\ task[r].pc = "activate"
  /\ IF proc.activated
     THEN Installs /\ Ends(r) /\ UNCHANGED proc
     ELSE Goes(r, "schema") /\ UNCHANGED file /\ proc' = [proc EXCEPT !.mysql = file.mysql]
  /\ UNCHANGED <<db, history, starts, faults>>

EnsureSchema(t) ==
  /\ task[t].pc = "schema"
  /\ proc.mysql # Nowhere
  /\ db' = [db EXCEPT ![proc.mysql].schema = TRUE]
  /\ Goes(t, "bootstrap")
  /\ UNCHANGED <<file, proc, history, starts, faults>>

\* The hydrates, and ensureBootstrapAdmin, whose failure is swallowed.
Bootstrap(t) ==
  /\ task[t].pc = "bootstrap"
  /\ Reachable
  /\ \/ /\ db' = IF Here.users # {} THEN db
                 ELSE [db EXCEPT ![proc.mysql].users = {Localhost},
                                 ![proc.mysql].admins = {Localhost}]
        /\ UNCHANGED faults
     \/ Fault /\ UNCHANGED db
  /\ Goes(t, "mount")
  /\ UNCHANGED <<file, proc, history, starts>>

\* The router is swapped, the scheduler started; the last step then records the install.
Mount(t) ==
  /\ task[t].pc = "mount"
  /\ proc' = [proc EXCEPT !.router = TRUE, !.scheduler = TRUE, !.activated = TRUE]
  /\ \/ t = Boot /\ UNCHANGED <<file, faults>>
     \/ t # Boot /\ Installs /\ UNCHANGED faults
     \/ t # Boot /\ Fault /\ UNCHANGED file
  /\ Ends(t)
  /\ UNCHANGED <<db, history, starts>>

\* A statement of the last step, or of the boot, fails: the wizard is left where
\* it was, the boot mounts the API all the same.
FinishFails(t) ==
  /\ task[t].pc \in FinishPCs \ {"activate", "mount"}
  /\ \/ ~Reachable /\ task[t].pc # "schema" /\ UNCHANGED faults
     \/ Fault
  /\ Ends(t)
  /\ IF t = Boot
     THEN /\ proc' = [proc EXCEPT !.router = TRUE, !.activated = TRUE]
          /\ degraded' = TRUE
     ELSE UNCHANGED <<proc, degraded>>
  /\ UNCHANGED <<file, db, moved, strayed, crossed, starts>>

-----------------------------------------------------------------------------
(* The process *)

Crash ==
  /\ proc.up
  /\ Fault
  /\ proc' = [up |-> FALSE, mysql |-> Nowhere, router |-> FALSE, activated |-> FALSE,
              scheduler |-> FALSE]
  /\ task' = [t \in Tasks |-> Idle]
  /\ degraded' = FALSE
  /\ UNCHANGED <<file, db, moved, strayed, crossed, starts>>

StartUpNoResume ==
  /\ ~proc.up
  /\ proc' = [proc EXCEPT !.up = TRUE, !.mysql = IF file.installed THEN file.mysql ELSE Nowhere]
  /\ IF file.installed THEN Goes(Boot, "schema") ELSE UNCHANGED task
  /\ UNCHANGED <<file, db, history, starts, faults>>

\* resumeSetupDatabase, or the activation of an installed server.
StartUp ==
  /\ ~proc.up
  /\ proc' = [proc EXCEPT !.up = TRUE, !.mysql = file.mysql]
  /\ IF file.installed THEN Goes(Boot, "schema") ELSE UNCHANGED task
  /\ UNCHANGED <<file, db, history, starts, faults>>

-----------------------------------------------------------------------------
(* Accounts *)

\* requireRole trusts the role the session was given at sign-in.
AdminRequest(r) == Starts(r) /\ proc.router /\ Reachable /\ Here.sessions # {}

SignIn(e) ==
  /\ proc.up /\ proc.router /\ Reachable
  /\ e \in ActiveAdmins(Here)
  /\ db' = [db EXCEPT ![proc.mysql].sessions = @ \cup {e}]
  /\ UNCHANGED <<file, proc, task, history, starts, faults>>

CreateUser(r, e, admin) ==
  /\ AdminRequest(r)
  /\ task' = [task EXCEPT ![r] = [Idle EXCEPT !.pc = "exists", !.email = e,
                                    !.change = IF admin THEN "promote" ELSE "demote"]]
  /\ UNCHANGED <<file, proc, db, history, faults>>

Exists(r) ==
  /\ task[r].pc = "exists"
  /\ Reachable
  /\ IF task[r].email \in Here.users THEN Ends(r) ELSE Goes(r, "insert")
  /\ UNCHANGED <<file, proc, db, history, starts, faults>>

Insert(r) ==
  LET e == task[r].email IN
  /\ task[r].pc = "insert"
  /\ Reachable
  /\ IF e \in Here.users
     THEN UNCHANGED db
     ELSE db' = [db EXCEPT ![proc.mysql].users = @ \cup {e},
            ![proc.mysql].admins = IF task[r].change = "promote" THEN @ \cup {e} ELSE @]
  /\ Ends(r)
  /\ UNCHANGED <<file, proc, history, starts, faults>>

\* PATCH and DELETE of an account.  Nobody deletes his own.
ChangeUser(r, e, change) ==
  /\ AdminRequest(r)
  /\ change = "delete" => Here.sessions # {e}
  /\ task' = [task EXCEPT ![r] = [Idle EXCEPT !.pc = "check", !.email = e, !.change = change]]
  /\ UNCHANGED <<file, proc, db, history, faults>>

\* Let through: the update is next.
LetThrough(r) ==
  /\ Goes(r, "update")
  /\ crossed' = (crossed \/
       (/\ task[r].change \in Strands
        /\ \E q \in Requests \ {r} : task[q].pc = "update" /\ task[q].change \in Strands))

\* findById, and the first read of isLastActiveAdmin.
CheckTarget(r) ==
  LET e == task[r].email IN
  /\ task[r].pc = "check"
  /\ Reachable
  /\ \/ e \notin Here.users /\ Ends(r) /\ UNCHANGED crossed
     \/ /\ e \in Here.users
        /\ task[r].change \notin Strands \/ e \notin ActiveAdmins(Here)
        /\ LetThrough(r)
     \/ /\ task[r].change \in Strands /\ e \in ActiveAdmins(Here)
        /\ Goes(r, "count") /\ UNCHANGED crossed
  /\ UNCHANGED <<file, proc, db, moved, strayed, degraded, starts, faults>>

\* activeAdminCount: the last one is refused.
CountAdminsLeaves(r) ==
  /\ task[r].pc = "count"
  /\ Reachable
  /\ IF Cardinality(ActiveAdmins(Here)) < 1 THEN Ends(r) /\ UNCHANGED crossed ELSE LetThrough(r)
  /\ UNCHANGED <<file, proc, db, moved, strayed, degraded, starts, faults>>

CountAdmins(r) ==
  /\ task[r].pc = "count"
  /\ Reachable
  /\ IF Cardinality(ActiveAdmins(Here)) <= 1 THEN Ends(r) /\ UNCHANGED crossed ELSE LetThrough(r)
  /\ UNCHANGED <<file, proc, db, moved, strayed, degraded, starts, faults>>

Changed(D, e, change) ==
  CASE change = "demote" -> [D EXCEPT !.admins = @ \ {e}]
    [] change = "disable" -> [D EXCEPT !.disabled = @ \cup ({e} \cap D.users)]
    [] change = "delete" -> [D EXCEPT !.users = @ \ {e}, !.admins = @ \ {e}, !.disabled = @ \ {e}]
    [] change = "promote" -> [D EXCEPT !.admins = @ \cup ({e} \cap D.users)]
    [] change = "enable" -> [D EXCEPT !.disabled = @ \ {e}]

UpdateUser(r) ==
  /\ task[r].pc = "update"
  /\ Reachable
  /\ db' = [db EXCEPT ![proc.mysql] = Changed(@, task[r].email, task[r].change)]
  /\ Ends(r)
  /\ UNCHANGED <<file, proc, history, starts, faults>>

AccountFails(r) ==
  /\ task[r].pc \in AccountPCs
  /\ \/ ~Reachable /\ UNCHANGED faults
     \/ Fault
  /\ Ends(r)
  /\ UNCHANGED <<file, proc, db, history, starts>>

-----------------------------------------------------------------------------
WizardStep(r) ==
  \/ \E s \in Steps, d \in Databases : Save(r, s, d)
  \/ Invalid(r) \/ SaveDb(r) \/ Valid(r) \/ Persist(r) \/ MarkComplete(r) \/ SaveFails(r)
  \/ \E e \in Emails : Finish(r, e)
  \/ LookUp(r) \/ SaveRange(r) \/ CreateAdmin(r) \/ Activate(r)

ActivationStep(t) == EnsureSchema(t) \/ Bootstrap(t) \/ Mount(t) \/ FinishFails(t)

AccountStep(r) ==
  \/ \E e \in Emails, admin \in BOOLEAN : CreateUser(r, e, admin)
  \/ \E e \in Emails, change \in Changes : ChangeUser(r, e, change)
  \/ Exists(r) \/ Insert(r) \/ CheckTarget(r) \/ CountAdmins(r) \/ UpdateUser(r) \/ AccountFails(r)

Next ==
  \/ \E r \in Requests : WizardStep(r) \/ AccountStep(r)
  \/ \E t \in Tasks : ActivationStep(t)
  \/ \E s \in Skippable : Skip(s)
  \/ Migrate
  \/ \E e \in Emails : SignIn(e)
  \/ Crash \/ StartUp

Spec == Init /\ [][Next]_vars

-----------------------------------------------------------------------------
(* Properties *)

\* setup.js:494-501, server.js:104-113: an installed server that has come up answers
\* with its API, has had every step done or put off, and, unless it could not
\* activate, runs its scheduler: never 410 from the wizard and 503 from the rest.
InstalledIsUsable ==
  file.installed /\ proc.up /\ task[Boot].pc = "idle" =>
    /\ proc.router
    /\ degraded \/ proc.scheduler
    /\ Steps \subseteq file.done \cup file.skipped

\* server.js:252-263, setup.js:139-140: what setup.json says is done is there: the
\* process is on the database the file names, after a restart too, and a step's
\* answers are in that database, unless it was answered before the database changed.
CompletedStepsHold ==
  /\ proc.up => proc.mysql = file.mysql
  /\ Db \in file.done => file.mysql # Nowhere
  /\ \A s \in (file.done \cap Skippable) \ moved : s \in db[file.mysql].stored

\* users.js:34-35, authUsers.js:76-78: an installed server has an account that can
\* administer it, unless two requests that take one away were let through together,
\* or the database was changed under a request.
SomeoneAdministers ==
  file.installed /\ ~crossed /\ ~strayed => ActiveAdmins(db[file.mysql]) # {}
=============================================================================
