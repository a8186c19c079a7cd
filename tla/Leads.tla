--------------------------------- MODULE Leads ---------------------------------
(***************************************************************************)
(* What the database keeps of a lead, and who writes it: ingestWati        *)
(* (ingest/ingestWati.js) under its callers, syncOne                       *)
(* (lib/conversationMeta.js), the re-read of boardRefresh.js, the snapshot *)
(* of lib/contactStatus.js, and the assignments of lib/watiAssign.js.      *)
(*                                                                         *)
(* WATI is external: a conversation there is the number of its messages,   *)
(* which only grows, and its owner, whom WATI's own users move too.        *)
(* Message facts are the number of messages they were computed from.       *)
(***************************************************************************)
EXTENDS Integers, FiniteSets

CONSTANTS
  Contacts,
  Owners,        \* the employees with a usable WATI login
  Nobody,        \* no owner
  Passes,        \* the callers of ingestWati, each with its own guard
  Board,         \* the caller that is boardRefresh
  Readers,       \* the calls of syncOne: page views, workers
  Desks,         \* the requests that assign or undo
  NoContact,
  HumanAt,       \* an employee wrote the HumanAt-th message
  BatchSize,     \* rows per flush, 500
  Attempts,      \* of one assignment, 3
  MaxMessages,   \* bound: messages of a conversation
  MaxMoves,      \* bound: owners moved by WATI's own users
  MaxStarts,     \* bound: passes, single re-reads and batches started
  MaxFaults      \* bound: failed calls and statements, and crashes

ASSUME NamesAssumption ==
  /\ IsFiniteSet(Contacts) /\ IsFiniteSet(Readers)
  /\ NoContact \notin Contacts /\ Nobody \notin Owners \cup Passes \cup Desks
  /\ Board \in Passes /\ Passes \cap Desks = {}
ASSUME BoundsAssumption ==
  /\ HumanAt \in Nat \ {0} /\ BatchSize \in Nat \ {0} /\ Attempts \in Nat \ {0}
  /\ MaxMessages \in Nat /\ MaxMoves \in Nat /\ MaxStarts \in Nat /\ MaxFaults \in Nat

Unread == -1                     \* a message fact that is NULL

Facts == Nat \cup {Unread}

Owner == Owners \cup {Nobody}

-----------------------------------------------------------------------------
VARIABLES
  thread,      \* WATI: the messages of each conversation
  owner,       \* WATI: its owner
  row,         \* ads_wati_contacts: owner, message facts, and what the score was made from
  meta,        \* ads_conversation_meta.msg_total; Unread: no row
  follow,      \* ads_lead_followup
  sentLog,     \* the 'sent' rows of ads_assignment_log
  pass,        \* the passes over WATI's contact list, and what follows them
  reader,      \* the calls of syncOne
  desk,        \* the batches of assignments
  batches,     \* batch ids handed out
  overlapped,  \* history: contacts whose messages two writers were on at one time
  misread,     \* history: contacts of which a failed read was taken for an empty one
  overtaken,   \* history: who holds an owner that has been moved since
  astray,      \* history: contacts whose local owner nobody vouches for
  carried,     \* history: <<batch, contact>> that WATI carried out
  excused,     \* history: those of them a fault kept out of the log
  stamps,      \* history: how often contacted_at was set
  doubled,     \* history: two snapshots were under way at one time
  moves, starts, faults

wati == <<thread, owner>>
store == <<row, meta, follow, sentLog, stamps>>
tasks == <<pass, reader, desk, batches>>
ghosts == <<overlapped, misread, overtaken, astray, carried, excused, doubled>>
counts == <<moves, starts, faults>>
vars == <<wati, store, tasks, ghosts, counts>>

NoRow == [here |-> FALSE, owner |-> Nobody, facts |-> Unread, score |-> Unread]

NoFollow == [here |-> FALSE, contacted |-> FALSE, waited |-> FALSE]

\* unlisted, todo: contacts not yet on a page, and the rest of the page;
\* full, part: the rows with and without message facts that await their flush;
\* ids, reread: what boardRefresh has left to re-read, and counts as re-read;
\* due: the messages, when it began, of what had any in our table, and Unread of
\* the rest; clean: no failure is reported.
NoPass ==
  [pc |-> "off", messages |-> FALSE, unlisted |-> {}, todo |-> {}, full |-> {}, part |-> {},
   seen |-> [c \in Contacts |-> Nobody], facts |-> [c \in Contacts |-> Unread],
   ids |-> {}, reread |-> {}, due |-> [c \in Contacts |-> Unread], clean |-> TRUE,
   leads |-> {}, contacted |-> {}]

NoReader == [pc |-> "idle", on |-> NoContact, len |-> 0, saw |-> FALSE, board |-> FALSE]

NoDesk ==
  [pc |-> "idle", batch |-> 0, plan |-> {}, on |-> NoContact, to |-> Nobody, from |-> Nobody,
   tries |-> 0]

Pass ==
  [pc : {"off", "scan", "select", "reread", "gather", "snapshot"}, messages : BOOLEAN,
   unlisted : SUBSET Contacts, todo : SUBSET Contacts, full : SUBSET Contacts,
   part : SUBSET Contacts, seen : [Contacts -> Owner], facts : [Contacts -> Facts],
   ids : SUBSET Contacts, reread : SUBSET Contacts, due : [Contacts -> Facts], clean : BOOLEAN,
   leads : SUBSET Contacts, contacted : SUBSET Contacts]

Reader ==
  [pc : {"idle", "fetch", "meta", "row"}, on : Contacts \cup {NoContact}, len : Nat,
   saw : BOOLEAN, board : BOOLEAN]

Desk ==
  [pc : {"idle", "next", "call", "update", "log"}, batch : Nat,
   plan : SUBSET (Contacts \X Owners), on : Contacts \cup {NoContact}, to : Owner,
   from : Owner, tries : 0..Attempts - 1]

TypeOK ==
  /\ thread \in [Contacts -> Nat]
  /\ owner \in [Contacts -> Owner]
  /\ row \in [Contacts -> [here : BOOLEAN, owner : Owner, facts : Facts, score : Facts]]
  /\ meta \in [Contacts -> Facts]
  /\ follow \in [Contacts -> [here : BOOLEAN, contacted : BOOLEAN, waited : BOOLEAN]]
  /\ sentLog \subseteq [batch : Nat, on : Contacts, from : Owner]
  /\ pass \in [Passes -> Pass]
  /\ reader \in [Readers -> Reader]
  /\ \A r \in Readers : reader[r].pc # "idle" => reader[r].on \in Contacts
  /\ desk \in [Desks -> Desk]
  /\ \A d \in Desks : desk[d].pc \in {"call", "update", "log"} =>
       desk[d].on \in Contacts /\ desk[d].to \in Owners
  /\ batches \in Nat
  /\ overlapped \subseteq Contacts /\ misread \subseteq Contacts /\ astray \subseteq Contacts
  /\ overtaken \subseteq (Passes \cup Desks) \X Contacts
  /\ carried \subseteq Nat \X Contacts /\ excused \subseteq Nat \X Contacts
  /\ stamps \in [Contacts -> Nat]
  /\ doubled \in BOOLEAN
  /\ moves \in Nat /\ starts \in Nat /\ faults \in Nat

Init ==
  /\ thread = [c \in Contacts |-> 0]
  /\ owner \in [Contacts -> Owner]
  /\ row = [c \in Contacts |-> NoRow]
  /\ meta = [c \in Contacts |-> Unread]
  /\ follow = [c \in Contacts |-> NoFollow]
  /\ sentLog = {}
  /\ pass = [p \in Passes |-> NoPass]
  /\ reader = [r \in Readers |-> NoReader]
  /\ desk = [d \in Desks |-> NoDesk]
  /\ batches = 0
  /\ overlapped = {} /\ misread = {} /\ overtaken = {} /\ astray = {}
  /\ carried = {} /\ excused = {}
  /\ stamps = [c \in Contacts |-> 0]
  /\ doubled = FALSE
  /\ moves = 0 /\ starts = 0 /\ faults = 0

Fault == faults < MaxFaults /\ faults' = faults + 1

Start == starts < MaxStarts /\ starts' = starts + 1

Contacted(len) == len >= HumanAt

CoalesceNever(new, old) == new

\* An upsert's column under COALESCE keeps the stored value when the new one is NULL.
Coalesce(new, old) == IF new = Unread THEN old ELSE new

\* Who will write message facts or a score of c from what it has read.
OnMessages(c) ==
  {p \in Passes : c \in pass[p].full \cup pass[p].part}
    \cup {r \in Readers : reader[r].on = c /\ reader[r].pc \in {"meta", "row"}}

ReadsMessages(c) ==
  overlapped' = IF OnMessages(c) # {} THEN overlapped \cup {c} ELSE overlapped

\* Who has been told the owner of c, or to whom c went, and not yet stored it.
HoldsOwner(h, c) ==
  IF h \in Passes
  THEN c \in pass[h].todo \cup pass[h].full \cup pass[h].part
  ELSE desk[h].on = c /\ <<desk[h].batch, c>> \in carried /\ desk[h].pc \in {"call", "update"}

\* mover is a desk, or Nobody for WATI's own users.
OwnerGoes(c, to, mover) ==
  /\ owner' = [owner EXCEPT ![c] = to]
  /\ overtaken' = (overtaken \ {<<mover, c>>})
       \cup {<<h, c>> : h \in {x \in Passes \cup Desks : x # mover /\ HoldsOwner(x, c)}}

-----------------------------------------------------------------------------
(* WATI *)

NewMessage(c) ==
  /\ thread[c] < MaxMessages
  /\ thread' = [thread EXCEPT ![c] = @ + 1]
  /\ UNCHANGED <<owner, store, tasks, ghosts, counts>>

WatiMoves(c, to) ==
  /\ moves < MaxMoves
  /\ to # owner[c]
  /\ OwnerGoes(c, to, Nobody)
  /\ astray' = astray \cup {c}
  /\ moves' = moves + 1
  /\ UNCHANGED <<thread, store, tasks, overlapped, misread, carried, excused, doubled, starts,
                 faults>>

-----------------------------------------------------------------------------
(* ingestWati *)

\* boardRefresh first gathers the picture it will compare with.
StartPass(p) ==
  /\ pass[p].pc = "off"
  /\ Start
  /\ \E messages \in BOOLEAN :
       /\ p = Board => messages
       /\ pass' = [pass EXCEPT ![p] =
            [NoPass EXCEPT !.pc = "scan", !.messages = messages, !.unlisted = Contacts,
               !.due = [c \in Contacts |->
                          IF p = Board /\ row[c].facts > 0 THEN thread[c] ELSE Unread]]]
  /\ UNCHANGED <<wati, store, reader, desk, batches, ghosts, moves, faults>>

\* A page of the list; merged contacts and, in an incremental pass, those not
\* updated lately are passed over.
ListPage(p) ==
  /\ pass[p].pc = "scan"
  /\ pass[p].todo = {}
  /\ \E page \in (SUBSET pass[p].unlisted) \ {{}} : \E kept \in SUBSET page :
       pass' = [pass EXCEPT ![p].unlisted = @ \ page, ![p].todo = kept,
         ![p].seen = [c \in Contacts |-> IF c \in kept THEN owner[c] ELSE @[c]]]
  /\ UNCHANGED <<wati, store, reader, desk, batches, ghosts, counts>>

\* buildRow.  The thread of a contact older than the start date is not read.
BuildRow(p, c) ==
  /\ c \in pass[p].todo
  /\ \/ /\ pass[p].messages
        /\ pass' = [pass EXCEPT ![p].todo = @ \ {c}, ![p].full = @ \cup {c},
             ![p].facts[c] = thread[c]]
     \/ pass' = [pass EXCEPT ![p].todo = @ \ {c}, ![p].part = @ \cup {c}]
  /\ ReadsMessages(c)
  /\ UNCHANGED <<wati, store, reader, desk, batches, misread, overtaken, astray, carried, excused,
                 doubled, counts>>

\* firstResponse answers a failed read with no messages and no mark, whether the
\* call threw or, on a fourth 429, returned nothing.
BuildRowMisread(p, c) ==
  /\ c \in pass[p].todo
  /\ pass[p].messages
  /\ Fault
  /\ pass' = [pass EXCEPT ![p].todo = @ \ {c}, ![p].full = @ \cup {c}, ![p].facts[c] = 0]
  /\ ReadsMessages(c)
  /\ misread' = misread \cup {c}
  /\ UNCHANGED <<wati, store, reader, desk, batches, overtaken, astray, carried, excused, doubled,
                 moves, starts>>

Listed(p) == pass[p].pc = "scan" /\ pass[p].unlisted = {} /\ pass[p].todo = {}

\* What p writes of the owners in S: whoever was overtaken leaves them astray.
StoresOwners(h, S) ==
  /\ astray' = (astray \ S) \cup {c \in S : <<h, c>> \in overtaken}
  /\ overtaken' = overtaken \ ({h} \X S)

Written(p, S) ==
  [pass EXCEPT ![p].full = @ \ S, ![p].part = @ \ S,
     ![p].seen = [c \in Contacts |-> IF c \in S THEN Nobody ELSE @[c]],
     ![p].facts = [c \in Contacts |-> IF c \in S THEN Unread ELSE @[c]]]

flushAllColumns(p, S, wantMessages) ==
  /\ row' = [c \in Contacts |->
       IF c \notin S THEN row[c]
       ELSE [here |-> TRUE, owner |-> pass[p].seen[c],
             facts |-> Coalesce(pass[p].facts[c], row[c].facts), score |-> pass[p].facts[c]]]
  /\ pass' = Written(p, S)
  /\ StoresOwners(p, S)

\* Without the messages the score is for new rows only.
flush(p, S, wantMessages) ==
  /\ row' = [c \in Contacts |->
       IF c \notin S THEN row[c]
       ELSE [here |-> TRUE, owner |-> pass[p].seen[c],
             facts |-> Coalesce(pass[p].facts[c], row[c].facts),
             score |-> IF wantMessages \/ ~row[c].here THEN pass[p].facts[c] ELSE row[c].score]]
  /\ pass' = Written(p, S)
  /\ StoresOwners(p, S)

\* A group is flushed when it is full, in mid-list, and at the end.
Flush(p) ==
  /\ \/ /\ pass[p].full # {}
        /\ Listed(p) \/ Cardinality(pass[p].full) >= BatchSize
        /\ flush(p, pass[p].full, TRUE)
     \/ /\ pass[p].part # {}
        /\ Listed(p) \/ Cardinality(pass[p].part) >= BatchSize
        /\ Listed(p) => pass[p].full = {}
        /\ flush(p, pass[p].part, FALSE)
  /\ UNCHANGED <<wati, meta, follow, sentLog, stamps, reader, desk, batches, overlapped, misread,
                 carried, excused, doubled, counts>>

\* What p holds in hand is gone.
Drops(p) == overtaken' = {x \in overtaken : x[1] # p}

\* The admin's job ends with its pass; boardRefresh re-reads its window; the
\* quick sync and the nightly run come to the snapshot.
EndScan(p) ==
  /\ Listed(p)
  /\ pass[p].full = {} /\ pass[p].part = {}
  /\ IF p = Board
     THEN pass' = [pass EXCEPT ![p].pc = "select"]
     ELSE \E pc \in {"off", "gather"} :
            pass' = [pass EXCEPT ![p] = IF pc = "off" THEN NoPass ELSE [@ EXCEPT !.pc = pc]]
  /\ UNCHANGED <<wati, store, reader, desk, batches, ghosts, counts>>

\* A page that fails for good, or a statement; the callers go on with their next stage.
ScanFails(p) ==
  /\ pass[p].pc = "scan"
  /\ Fault
  /\ IF p = Board
     THEN pass' = [pass EXCEPT ![p] =
            [NoPass EXCEPT !.pc = "select", !.due = pass[p].due, !.clean = FALSE]]
     ELSE \E pc \in {"off", "gather"} : pass' = [pass EXCEPT ![p] = [NoPass EXCEPT !.pc = pc]]
  /\ Drops(p)
  /\ UNCHANGED <<wati, store, reader, desk, batches, overlapped, misread, astray, carried, excused,
                 doubled, moves, starts>>

-----------------------------------------------------------------------------
(* syncOne *)

Takes(r, c, board) ==
  /\ reader[r].pc = "idle"
  /\ reader' = [reader EXCEPT ![r] = [NoReader EXCEPT !.pc = "fetch", !.on = c, !.board = board]]

\* A page view, or a worker of the other jobs.
View(r, c) ==
  /\ Start
  /\ Takes(r, c, FALSE)
  /\ UNCHANGED <<wati, store, pass, desk, batches, ghosts, moves, faults>>

Fetch(r) ==
  /\ reader[r].pc = "fetch"
  /\ reader' = [reader EXCEPT ![r].pc = "meta", ![r].len = thread[reader[r].on]]
  /\ ReadsMessages(reader[r].on)
  /\ UNCHANGED <<wati, store, pass, desk, batches, misread, overtaken, astray, carried, excused,
                 doubled, counts>>

\* On a fourth 429 in a row get() does not throw but returns nothing: getThread
\* makes an empty thread of it that carries no mark, and syncOne goes on with it.
FetchRateLimited(r) ==
  LET c == reader[r].on IN
  /\ reader[r].pc = "fetch"
  /\ Fault
  /\ reader' = [reader EXCEPT ![r].pc = "meta", ![r].len = 0]
  /\ ReadsMessages(c)
  /\ misread' = misread \cup {c}
  /\ UNCHANGED <<wati, store, pass, desk, batches, overtaken, astray, carried, excused, doubled,
                 moves, starts>>

\* The upsert of the meta row; then the contact's row is read.
SyncMeta(r) ==
  LET c == reader[r].on IN
  /\ reader[r].pc = "meta"
  /\ meta' = [meta EXCEPT ![c] = reader[r].len]
  /\ reader' = [reader EXCEPT ![r].pc = "row", ![r].saw = row[c].here]
  /\ UNCHANGED <<wati, row, follow, sentLog, stamps, pass, desk, batches, ghosts, counts>>

\* The call returns; to boardRefresh it counts as re-read or as failed.
Returns(r, ok) ==
  /\ reader' = [reader EXCEPT ![r] = NoReader]
  /\ pass' = IF ~reader[r].board THEN pass
             ELSE IF ok THEN [pass EXCEPT ![Board].reread = @ \cup {reader[r].on}]
             ELSE [pass EXCEPT ![Board].clean = FALSE]

\* Of the message facts it writes num_messages and last_message_at only: not
\* is_answered, first_response_min and msg_unavailable, which stay as the last pass
\* left them.  `facts' is the freshness of the ones it writes.  No score was made
\* when the row was not there to be read.
SyncRow(r) ==
  LET c == reader[r].on IN
  /\ reader[r].pc = "row"
  /\ row' = IF row[c].here
            THEN [row EXCEPT ![c].facts = reader[r].len,
                             ![c].score = IF reader[r].saw THEN reader[r].len ELSE @]
            ELSE row
  /\ Returns(r, TRUE)
  /\ UNCHANGED <<wati, meta, follow, sentLog, stamps, desk, batches, ghosts, counts>>

\* A fetch whose last attempt throws is marked, and keeps what is stored; a failed
\* statement throws.
SyncFails(r) ==
  /\ reader[r].pc # "idle"
  /\ Fault
  /\ Returns(r, FALSE)
  /\ UNCHANGED <<wati, store, desk, batches, ghosts, moves, starts>>

-----------------------------------------------------------------------------
(* boardRefresh, and the snapshot *)

SelectWindow ==
  /\ pass[Board].pc = "select"
  /\ pass' = [pass EXCEPT ![Board].pc = "reread",
       ![Board].ids = {c \in Contacts : row[c].here /\ row[c].facts > 0}]
  /\ UNCHANGED <<wati, store, reader, desk, batches, ghosts, counts>>

Reread(r, c) ==
  /\ pass[Board].pc = "reread"
  /\ c \in pass[Board].ids
  /\ pass' = [pass EXCEPT ![Board].ids = @ \ {c}]
  /\ Takes(r, c, TRUE)
  /\ UNCHANGED <<wati, store, desk, batches, ghosts, counts>>

EndRereadAtLast ==
  /\ pass[Board].pc = "reread"
  /\ pass[Board].ids = {}
  /\ pass' = [pass EXCEPT ![Board].pc = "gather"]
  /\ UNCHANGED <<wati, store, reader, desk, batches, ghosts, counts>>

EndReread ==
  /\ pass[Board].pc = "reread"
  /\ pass[Board].ids = {}
  /\ ~ \E r \in Readers : reader[r].board
  /\ pass' = [pass EXCEPT ![Board].pc = "gather"]
  /\ UNCHANGED <<wati, store, reader, desk, batches, ghosts, counts>>

\* gatherContactStatus
Gather(p) ==
  /\ pass[p].pc = "gather"
  /\ LET leads == {c \in Contacts : row[c].here} IN
     pass' = [pass EXCEPT ![p].pc = "snapshot", ![p].leads = leads,
                          ![p].contacted = {c \in leads : Contacted(meta[c])}]
  /\ doubled' = (doubled \/ \E q \in Passes : pass[q].pc = "snapshot")
  /\ UNCHANGED <<wati, store, reader, desk, batches, overlapped, misread, overtaken, astray,
                 carried, excused, counts>>

\* One upsert of every lead; contacted_at is assigned before contacted.
StampAfter(c, now) == follow[c].here /\ ~now /\ now

Stamp(c, now) == follow[c].here /\ ~follow[c].contacted /\ now

Snapshot(p) ==
  LET now(c) == c \in pass[p].contacted
      S == pass[p].leads
  IN
  /\ pass[p].pc = "snapshot"
  /\ follow' = [c \in Contacts |->
       IF c \notin S THEN follow[c]
       ELSE [here |-> TRUE, contacted |-> now(c),
             waited |-> IF follow[c].here THEN follow[c].waited ELSE ~now(c)]]
  /\ stamps' = [c \in Contacts |->
       IF c \in S /\ Stamp(c, now(c)) THEN stamps[c] + 1 ELSE stamps[c]]
  /\ pass' = [pass EXCEPT ![p] = NoPass]
  /\ UNCHANGED <<wati, row, meta, sentLog, reader, desk, batches, ghosts, counts>>

PassFails(p) ==
  /\ pass[p].pc \in {"select", "gather", "snapshot"}
  /\ Fault
  /\ pass' = [pass EXCEPT ![p] = NoPass]
  /\ UNCHANGED <<wati, store, reader, desk, batches, ghosts, moves, starts>>

-----------------------------------------------------------------------------
(* assignMany and undoBatch *)

DeskUnchanged == UNCHANGED <<thread, meta, follow, stamps, pass, reader, overlapped, misread, doubled>>

NewBatch(d, plan) ==
  /\ desk[d].pc = "idle"
  /\ Start
  /\ batches' = batches + 1
  /\ desk' = [desk EXCEPT ![d] =
       [NoDesk EXCEPT !.pc = "next", !.batch = batches + 1, !.plan = plan]]
  /\ UNCHANGED <<owner, row, sentLog, overtaken, astray, carried, excused, moves, faults>>
  /\ DeskUnchanged

Assign(d, S, to) == NewBatch(d, S \X {to})

\* Back to the owner recorded before the batch; who had none stays where he is.
Undo(d, b) ==
  NewBatch(d, {<<l.on, l.from>> : l \in {x \in sentLog : x.batch = b /\ x.from # Nobody}})

NextContact(d) ==
  [NoDesk EXCEPT !.pc = "next", !.batch = desk[d].batch, !.plan = desk[d].plan]

\* Passed over: already there, or the 24-hour window has closed.
PassOver(d, x) ==
  /\ desk[d].pc = "next"
  /\ x \in desk[d].plan
  /\ desk' = [desk EXCEPT ![d].plan = @ \ {x}]
  /\ UNCHANGED <<owner, row, sentLog, batches, overtaken, astray, carried, excused, counts>>
  /\ DeskUnchanged

Look(d, x) ==
  /\ desk[d].pc = "next"
  /\ x \in desk[d].plan
  /\ row[x[1]].owner # x[2]
  /\ desk' = [desk EXCEPT ![d].pc = "call", ![d].plan = @ \ {x}, ![d].on = x[1], ![d].to = x[2],
                          ![d].from = row[x[1]].owner]
  /\ UNCHANGED <<owner, row, sentLog, batches, overtaken, astray, carried, excused, counts>>
  /\ DeskUnchanged

\* The lookup throws: the rest of the batch, in an undo that of this owner, is given up.
LookFails(d, to) ==
  /\ desk[d].pc = "next"
  /\ \E x \in desk[d].plan : x[2] = to
  /\ Fault
  /\ desk' = [desk EXCEPT ![d].plan = {x \in @ : x[2] # to}]
  /\ UNCHANGED <<owner, row, sentLog, batches, overtaken, astray, carried, excused, moves, starts>>
  /\ DeskUnchanged

CarriesOut(d) ==
  /\ OwnerGoes(desk[d].on, desk[d].to, d)
  /\ carried' = carried \cup {<<desk[d].batch, desk[d].on>>}

Accepted(d) ==
  /\ desk[d].pc = "call"
  /\ CarriesOut(d)
  /\ desk' = [desk EXCEPT ![d].pc = "update"]
  /\ UNCHANGED <<row, sentLog, batches, astray, excused, counts>>
  /\ DeskUnchanged

\* The attempt is over without an answer that counts; after the last one the
\* assignment is an error, though an earlier attempt may have been carried out.
GivesUp(d) ==
  LET c == desk[d].on
      done == <<desk[d].batch, c>> \in carried'
  IN
  /\ desk' = [desk EXCEPT ![d] = NextContact(d)]
  /\ astray' = IF done THEN astray \cup {c} ELSE astray
  /\ excused' = IF done THEN excused \cup {<<desk[d].batch, c>>} ELSE excused

RefusedAsSent(d) ==
  /\ desk[d].pc = "call"
  /\ desk' = [desk EXCEPT ![d].pc = "log"]
  /\ UNCHANGED <<owner, row, sentLog, batches, overtaken, astray, carried, excused, counts>>
  /\ DeskUnchanged

\* WATI says no.
Refused(d) ==
  /\ desk[d].pc = "call"
  /\ UNCHANGED carried
  /\ GivesUp(d)
  /\ overtaken' = overtaken \ {<<d, desk[d].on>>}
  /\ UNCHANGED <<owner, row, sentLog, batches, counts>>
  /\ DeskUnchanged

\* A 429, a 5xx or a broken connection, whatever WATI did.
Unanswered(d) ==
  /\ desk[d].pc = "call"
  /\ Fault
  /\ CarriesOut(d) \/ UNCHANGED <<owner, carried, overtaken>>
  /\ IF desk[d].tries + 1 < Attempts
     THEN desk' = [desk EXCEPT ![d].tries = @ + 1] /\ UNCHANGED <<astray, excused>>
     ELSE GivesUp(d)
  /\ UNCHANGED <<row, sentLog, batches, moves, starts>>
  /\ DeskUnchanged

UpdateAnyway(d) ==
  LET c == desk[d].on IN
  /\ desk[d].pc \in {"call", "update"}
  /\ row' = IF row[c].here THEN [row EXCEPT ![c].owner = desk[d].to] ELSE row
  /\ StoresOwners(d, {c})
  /\ desk' = [desk EXCEPT ![d].pc = "log"]
  /\ UNCHANGED <<owner, sentLog, batches, carried, excused, counts>>
  /\ DeskUnchanged

\* The owner in our own table follows, where the contact is known.
Update(d) ==
  LET c == desk[d].on IN
  /\ desk[d].pc = "update"
  /\ row' = IF row[c].here THEN [row EXCEPT ![c].owner = desk[d].to] ELSE row
  /\ StoresOwners(d, {c})
  /\ desk' = [desk EXCEPT ![d].pc = "log"]
  /\ UNCHANGED <<owner, sentLog, batches, carried, excused, counts>>
  /\ DeskUnchanged

\* Its failure is swallowed.
UpdateFails(d) ==
  /\ desk[d].pc = "update"
  /\ Fault
  /\ desk' = [desk EXCEPT ![d].pc = "log"]
  /\ astray' = astray \cup {desk[d].on}
  /\ overtaken' = overtaken \ {<<d, desk[d].on>>}
  /\ UNCHANGED <<owner, row, sentLog, batches, carried, excused, moves, starts>>
  /\ DeskUnchanged

logRow(d) ==
  /\ desk[d].pc = "log"
  /\ sentLog' = sentLog \cup {[batch |-> desk[d].batch, on |-> desk[d].on, from |-> desk[d].from]}
  /\ desk' = [desk EXCEPT ![d] = NextContact(d)]
  /\ UNCHANGED <<owner, row, batches, overtaken, astray, carried, excused, counts>>
  /\ DeskUnchanged

\* So is that of the log.
logRowFails(d) ==
  /\ desk[d].pc = "log"
  /\ Fault
  /\ excused' = excused \cup {<<desk[d].batch, desk[d].on>>}
  /\ desk' = [desk EXCEPT ![d] = NextContact(d)]
  /\ UNCHANGED <<owner, row, sentLog, batches, overtaken, astray, carried, moves, starts>>
  /\ DeskUnchanged

EndBatch(d) ==
  /\ desk[d].pc = "next"
  /\ desk[d].plan = {}
  /\ desk' = [desk EXCEPT ![d] = NoDesk]
  /\ UNCHANGED <<owner, row, sentLog, batches, overtaken, astray, carried, excused, counts>>
  /\ DeskUnchanged

-----------------------------------------------------------------------------
\* What desk d has in hand, carried out and not yet in the log.
InHand(d) == IF desk[d].pc \in {"call", "update", "log"} THEN {<<desk[d].batch, desk[d].on>>} ELSE {}

\* The process dies: passes, calls and batches are gone.
Crash ==
  /\ Fault
  /\ pass' = [p \in Passes |-> NoPass]
  /\ reader' = [r \in Readers |-> NoReader]
  /\ desk' = [d \in Desks |-> NoDesk]
  /\ overtaken' = {}
  /\ astray' = astray \cup {c \in Contacts : \E d \in Desks : HoldsOwner(d, c)}
  /\ excused' = excused \cup (carried \cap UNION {InHand(d) : d \in Desks})
  /\ UNCHANGED <<wati, store, batches, overlapped, misread, carried, doubled, moves, starts>>

PassStep(p) ==
  \/ StartPass(p) \/ ListPage(p) \/ Flush(p) \/ EndScan(p) \/ ScanFails(p)
  \/ \E c \in Contacts : BuildRow(p, c) \/ BuildRowMisread(p, c)
  \/ Gather(p) \/ Snapshot(p) \/ PassFails(p)

ReaderStep(r) ==
  \/ \E c \in Contacts : View(r, c) \/ Reread(r, c)
  \/ Fetch(r) \/ FetchRateLimited(r) \/ SyncMeta(r) \/ SyncRow(r) \/ SyncFails(r)

DeskStep(d) ==
  \/ \E S \in (SUBSET Contacts) \ {{}}, to \in Owners : Assign(d, S, to)
  \/ \E b \in 1..batches : Undo(d, b)
  \/ \E x \in desk[d].plan : PassOver(d, x) \/ Look(d, x)
  \/ \E to \in Owners : LookFails(d, to)
  \/ Accepted(d) \/ Refused(d) \/ Unanswered(d)
  \/ Update(d) \/ UpdateFails(d) \/ logRow(d) \/ logRowFails(d)
  \/ EndBatch(d)

WatiStep ==
  \E c \in Contacts : NewMessage(c) \/ \E to \in Owners : WatiMoves(c, to)

BoardStep == SelectWindow \/ EndReread

Next ==
  \/ WatiStep
  \/ \E p \in Passes : PassStep(p)
  \/ \E r \in Readers : ReaderStep(r)
  \/ BoardStep
  \/ \E d \in Desks : DeskStep(d)
  \/ Crash

Spec == Init /\ [][Next]_vars

-----------------------------------------------------------------------------
(* Properties *)

\* ingestWati.js:18-21: the facts about a conversation are not erased by a pass
\* that did not read its messages, nor by a read that failed and says so, and only
\* grow, unless two writers overlapped on it or a failed read, one without a mark,
\* was taken for an empty one.
FactsAreKept ==
  [][\A c \in Contacts :
       c \notin overlapped' \cup misread' =>
         row'[c].facts >= row[c].facts /\ meta'[c] >= meta[c]]_vars

\* conversationMeta.js:59-62: "a FAILED fetch used to look exactly like an empty
\* thread and would overwrite a real conversation's stored classification with
\* no_customer/0 messages.  On failure, keep whatever is stored".  Since threads
\* only grow, the stored number of messages never falls while nobody overlaps.
FailedFetchKeepsMeta ==
  [][\A c \in Contacts : c \notin overlapped' => meta'[c] >= meta[c]]_vars

\* ingestWati.js:27-33: the score is DERIVED from the message facts, so what is
\* stored of a lead is its facts and the score made of those facts.
ScoreFollowsFacts ==
  \A c \in Contacts \ overlapped : row[c].score = row[c].facts

\* contactStatus.js:178-180, 199: contacted_at is stamped on the first change from
\* not contacted to contacted, and on no other, while reads and snapshots do not
\* overlap and no failed read is taken for an empty one (the lead then counts as
\* not contacted, and is stamped again).
FirstContactStands ==
  ~doubled =>
    \A c \in Contacts \ (overlapped \cup misread) :
      stamps[c] = IF follow[c].waited /\ follow[c].contacted THEN 1 ELSE 0

\* boardRefresh.js:8-14, 83-84: a refresh that reports no failure has re-read every
\* conversation its table had messages of when it began, and what is stored of it
\* is no older than the refresh, unless a failed read was taken for an empty one:
\* such a read is counted as re-read.
RefreshIsComplete ==
  pass[Board].pc \in {"gather", "snapshot"} /\ pass[Board].clean =>
    \A c \in Contacts \ (misread \cup overlapped) :
      /\ pass[Board].due[c] # Unread => c \in pass[Board].reread
      /\ meta[c] >= pass[Board].due[c]

\* watiAssign.js:104: the owner in our table is the owner at WATI, except while an
\* assignment is under way, and after WATI's own users, a lost answer, a failed
\* update or a pass that read the owner before it was moved set it astray: until
\* the next write that nobody overtook.
OwnerAgrees ==
  \A c \in Contacts \ astray :
    row[c].here /\ (~ \E d \in Desks : HoldsOwner(d, c)) => row[c].owner = owner[c]

\* watiAssign.js:10-11: the log is the only record of the previous owner, so every
\* assignment carried out has its 'sent' row, and no other has one, except for
\* what a lost answer, a failed insert or a crash kept out of it.
MovesAreOnRecord ==
  LET logged == {<<l.batch, l.on>> : l \in sentLog} IN
  /\ logged \subseteq carried
  /\ carried \subseteq logged \cup excused \cup UNION {InHand(d) : d \in Desks}
=============================================================================
