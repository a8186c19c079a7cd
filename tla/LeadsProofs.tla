------------------------------ MODULE LeadsProofs ------------------------------
(***************************************************************************)
(* What holds of the leads for any number of contacts, passes, re-reads    *)
(* and desks.                                                              *)
(***************************************************************************)
EXTENDS Leads, TLAPS

LEMMA NoPassType == NoPass \in Pass
BY DEF NoPass, Pass, Owner, Facts, Unread

LEMMA NoReaderType == NoReader \in Reader /\ NoReader.pc = "idle"
BY DEF NoReader, Reader

LEMMA NoDeskType == NoDesk \in Desk /\ NoDesk.pc = "idle"
BY BoundsAssumption DEF NoDesk, Desk, Owner

\* What a step leaves of the passes other than p.
Put(p) == pass' \in [Passes -> Pass] /\ \A q \in Passes \ {p} : pass'[q] = pass[q]

LEMMA PassPut ==
  ASSUME TypeOK, NEW p \in Passes, NEW x \in Pass, pass' = [pass EXCEPT ![p] = x]
  PROVE  Put(p) /\ pass'[p] = x
BY DEF TypeOK, Put

LEMMA PassType ==
  ASSUME TypeOK, NEW p \in Passes
  PROVE  pass[p] \in Pass
BY DEF TypeOK

-----------------------------------------------------------------------------
\* What each step of a pass makes of it.

DueNow(p) ==
  [c \in Contacts |-> IF p = Board /\ row[c].facts > 0 THEN thread[c] ELSE Unread]

LEMMA StartPassEffect ==
  ASSUME TypeOK, NEW p \in Passes, StartPass(p)
  PROVE  /\ Put(p)
         /\ pass'[p].pc = "scan" /\ pass'[p].clean = TRUE
         /\ pass'[p].due = DueNow(p)
         /\ pass'[p].unlisted = Contacts /\ pass'[p].todo = {}
         /\ pass'[p].full = {} /\ pass'[p].part = {} /\ pass'[p].reread = {}
         /\ pass'[p].facts = [c \in Contacts |-> Unread]
<1>1. PICK m \in BOOLEAN :
        pass' = [pass EXCEPT ![p] =
          [NoPass EXCEPT !.pc = "scan", !.messages = m, !.unlisted = Contacts,
             !.due = DueNow(p)]]
  BY DEF StartPass, DueNow
<1>2. PICK D \in [Contacts -> Facts] : D = DueNow(p)
  BY DEF DueNow, TypeOK, Facts
<1> DEFINE x == [NoPass EXCEPT !.pc = "scan", !.messages = m, !.unlisted = Contacts, !.due = D]
<1>3. /\ x \in Pass /\ x.pc = "scan" /\ x.due = D /\ x.clean = TRUE
      /\ x.unlisted = Contacts /\ x.todo = {}
      /\ x.full = {} /\ x.part = {} /\ x.reread = {}
      /\ x.facts = [c \in Contacts |-> Unread]
  BY NoPassType DEF NoPass, Pass
<1>4. pass' = [pass EXCEPT ![p] = x]
  BY <1>1, <1>2
<1>5. Put(p) /\ pass'[p] = x
  BY <1>3, <1>4, PassPut
<1>6. QED
  BY <1>2, <1>3, <1>5

\* The work after the list is left alone.
Later(p) ==
  /\ pass'[p].ids = pass[p].ids /\ pass'[p].leads = pass[p].leads
  /\ pass'[p].contacted = pass[p].contacted

LEMMA ListPageEffect ==
  ASSUME TypeOK, NEW p \in Passes, ListPage(p)
  PROVE  /\ Put(p)
         /\ pass'[p].pc = pass[p].pc /\ pass'[p].full = pass[p].full
         /\ pass'[p].part = pass[p].part /\ pass'[p].facts = pass[p].facts
         /\ pass'[p].reread = pass[p].reread /\ pass'[p].due = pass[p].due
         /\ pass'[p].clean = pass[p].clean
         /\ pass'[p].unlisted \subseteq pass[p].unlisted
         /\ pass'[p].todo \subseteq pass[p].unlisted \ pass'[p].unlisted
         /\ \A c \in Contacts :
              pass'[p].seen[c] = IF c \in pass'[p].todo THEN owner[c] ELSE pass[p].seen[c]
<1>1. PICK page \in (SUBSET pass[p].unlisted) \ {{}} : \E kept \in SUBSET page :
        pass' = [pass EXCEPT ![p].unlisted = @ \ page, ![p].todo = kept,
          ![p].seen = [c \in Contacts |-> IF c \in kept THEN owner[c] ELSE @[c]]]
  BY DEF ListPage
<1>2. PICK kept \in SUBSET page :
        pass' = [pass EXCEPT ![p].unlisted = @ \ page, ![p].todo = kept,
          ![p].seen = [c \in Contacts |-> IF c \in kept THEN owner[c] ELSE @[c]]]
  BY <1>1
<1>3. pass[p].unlisted \in SUBSET Contacts /\ pass[p].seen \in [Contacts -> Owner]
  BY PassType DEF Pass
<1>4. PICK U \in SUBSET Contacts, s \in [Contacts -> Owner] :
        /\ U = pass[p].unlisted \ page
        /\ s = [c \in Contacts |-> IF c \in kept THEN owner[c] ELSE pass[p].seen[c]]
  BY <1>3 DEF TypeOK
<1>5. kept \in SUBSET Contacts
  BY <1>3
<1> DEFINE x == [pass[p] EXCEPT !.unlisted = U, !.todo = kept, !.seen = s]
<1>6. /\ x \in Pass /\ x.pc = pass[p].pc /\ x.full = pass[p].full
      /\ x.part = pass[p].part /\ x.facts = pass[p].facts
      /\ x.reread = pass[p].reread /\ x.due = pass[p].due /\ x.clean = pass[p].clean
      /\ x.unlisted = U /\ x.todo = kept /\ x.seen = s
  BY <1>5, PassType DEF Pass
<1>7. pass' = [pass EXCEPT ![p] = x]
  BY <1>2, <1>4 DEF TypeOK
<1>8. Put(p) /\ pass'[p] = x
  BY <1>6, <1>7, PassPut
<1>9. QED
  BY <1>6, <1>8, <1>4, <1>3

\* A row built with its messages, which are n.
Full(p, c, n) ==
  pass' = [pass EXCEPT ![p].todo = @ \ {c}, ![p].full = @ \cup {c}, ![p].facts[c] = n]

LEMMA FullEffect ==
  ASSUME TypeOK, NEW p \in Passes, NEW c \in Contacts, NEW n \in Nat, Full(p, c, n)
  PROVE  /\ Put(p) /\ Later(p)
         /\ pass'[p].pc = pass[p].pc /\ pass'[p].unlisted = pass[p].unlisted
         /\ pass'[p].seen = pass[p].seen
         /\ pass'[p].reread = pass[p].reread /\ pass'[p].due = pass[p].due
         /\ pass'[p].clean = pass[p].clean /\ pass'[p].todo = pass[p].todo \ {c}
         /\ pass'[p].full = pass[p].full \cup {c} /\ pass'[p].part = pass[p].part
         /\ pass'[p].facts = [pass[p].facts EXCEPT ![c] = n]
<1>1. /\ pass[p].todo \in SUBSET Contacts /\ pass[p].full \in SUBSET Contacts
      /\ pass[p].facts \in [Contacts -> Facts]
  BY PassType DEF Pass
<1>2. PICK T \in SUBSET Contacts, L \in SUBSET Contacts, g \in [Contacts -> Facts] :
        /\ T = pass[p].todo \ {c} /\ L = pass[p].full \cup {c}
        /\ g = [pass[p].facts EXCEPT ![c] = n]
  BY <1>1 DEF Facts
<1> DEFINE x == [pass[p] EXCEPT !.todo = T, !.full = L, !.facts = g]
<1>3. /\ x \in Pass /\ x.pc = pass[p].pc /\ x.unlisted = pass[p].unlisted
      /\ x.ids = pass[p].ids /\ x.leads = pass[p].leads /\ x.contacted = pass[p].contacted
      /\ x.seen = pass[p].seen /\ x.reread = pass[p].reread /\ x.due = pass[p].due
      /\ x.clean = pass[p].clean /\ x.todo = T /\ x.full = L /\ x.part = pass[p].part
      /\ x.facts = g
  BY PassType DEF Pass
<1>4. pass' = [pass EXCEPT ![p] = x]
  <2>1. pass' = [pass EXCEPT ![p].todo = pass[p].todo \ {c}, ![p].full = pass[p].full \cup {c},
                   ![p].facts = [pass[p].facts EXCEPT ![c] = n]]
    BY PassType DEF TypeOK, Full, Pass
  <2>2. pass' = [pass EXCEPT ![p].todo = T, ![p].full = L, ![p].facts = g]
    BY <2>1, <1>2
  <2>3. QED
    BY <2>2 DEF TypeOK
<1>5. Put(p) /\ pass'[p] = x
  BY <1>3, <1>4, PassPut
<1>6. QED
  BY <1>3, <1>5, <1>2 DEF Later

\* A row built without them.
LEMMA PartEffect ==
  ASSUME TypeOK, NEW p \in Passes, NEW c \in Contacts,
         pass' = [pass EXCEPT ![p].todo = @ \ {c}, ![p].part = @ \cup {c}]
  PROVE  /\ Put(p) /\ Later(p)
         /\ pass'[p].pc = pass[p].pc /\ pass'[p].unlisted = pass[p].unlisted
         /\ pass'[p].seen = pass[p].seen
         /\ pass'[p].reread = pass[p].reread /\ pass'[p].due = pass[p].due
         /\ pass'[p].clean = pass[p].clean /\ pass'[p].todo = pass[p].todo \ {c}
         /\ pass'[p].full = pass[p].full /\ pass'[p].part = pass[p].part \cup {c}
         /\ pass'[p].facts = pass[p].facts
<1>1. pass[p].todo \in SUBSET Contacts /\ pass[p].part \in SUBSET Contacts
  BY PassType DEF Pass
<1>2. PICK T \in SUBSET Contacts, M \in SUBSET Contacts :
        T = pass[p].todo \ {c} /\ M = pass[p].part \cup {c}
  BY <1>1
<1> DEFINE x == [pass[p] EXCEPT !.todo = T, !.part = M]
<1>3. /\ x \in Pass /\ x.pc = pass[p].pc /\ x.unlisted = pass[p].unlisted
      /\ x.ids = pass[p].ids /\ x.leads = pass[p].leads /\ x.contacted = pass[p].contacted
      /\ x.seen = pass[p].seen /\ x.reread = pass[p].reread /\ x.due = pass[p].due
      /\ x.clean = pass[p].clean /\ x.todo = T /\ x.full = pass[p].full /\ x.part = M
      /\ x.facts = pass[p].facts
  BY PassType DEF Pass
<1>4. pass' = [pass EXCEPT ![p] = x]
  BY <1>2 DEF TypeOK
<1>5. Put(p) /\ pass'[p] = x
  BY <1>3, <1>4, PassPut
<1>6. QED
  BY <1>3, <1>5, <1>2 DEF Later

\* A built row, with its messages or without, read well or badly.
LEMMA BuildRowEffect ==
  ASSUME TypeOK, NEW p \in Passes, NEW c \in Contacts,
         BuildRow(p, c) \/ BuildRowMisread(p, c)
  PROVE  /\ Put(p) /\ Later(p)
         /\ pass'[p].pc = pass[p].pc /\ pass'[p].unlisted = pass[p].unlisted
         /\ pass'[p].seen = pass[p].seen
         /\ pass'[p].reread = pass[p].reread /\ pass'[p].due = pass[p].due
         /\ pass'[p].clean = pass[p].clean /\ pass'[p].todo = pass[p].todo \ {c}
         /\ \/ /\ pass'[p].full = pass[p].full \cup {c} /\ pass'[p].part = pass[p].part
               /\ \/ BuildRow(p, c) /\ pass'[p].facts = [pass[p].facts EXCEPT ![c] = thread[c]]
                  \/ BuildRowMisread(p, c) /\ pass'[p].facts = [pass[p].facts EXCEPT ![c] = 0]
            \/ /\ pass'[p].full = pass[p].full /\ pass'[p].part = pass[p].part \cup {c}
               /\ pass'[p].facts = pass[p].facts
<1>1. CASE BuildRowMisread(p, c)
  <2>1. Full(p, c, 0)
    BY <1>1 DEF BuildRowMisread, Full
  <2>2. QED
    BY <2>1, <1>1, FullEffect
<1>2. CASE BuildRow(p, c)
  <2>1. CASE Full(p, c, thread[c])
    <3>1. thread[c] \in Nat
      BY DEF TypeOK
    <3>2. QED
      BY <2>1, <3>1, <1>2, FullEffect
  <2>2. CASE pass' = [pass EXCEPT ![p].todo = @ \ {c}, ![p].part = @ \cup {c}]
    BY <2>2, PartEffect
  <2>3. QED
    BY <1>2, <2>1, <2>2 DEF BuildRow, Full
<1>3. QED
  BY <1>1, <1>2

LEMMA WrittenIs ==
  ASSUME TypeOK, NEW p \in Passes, NEW S \in SUBSET Contacts, pass' = Written(p, S)
  PROVE  /\ Put(p) /\ Later(p)
         /\ pass'[p].pc = pass[p].pc /\ pass'[p].unlisted = pass[p].unlisted
         /\ pass'[p].todo = pass[p].todo
         /\ pass'[p].reread = pass[p].reread /\ pass'[p].due = pass[p].due
         /\ pass'[p].clean = pass[p].clean
         /\ pass'[p].full = pass[p].full \ S /\ pass'[p].part = pass[p].part \ S
         /\ \A c \in Contacts :
              /\ pass'[p].seen[c] = IF c \in S THEN Nobody ELSE pass[p].seen[c]
              /\ pass'[p].facts[c] = IF c \in S THEN Unread ELSE pass[p].facts[c]
<1>1. /\ pass[p].full \in SUBSET Contacts /\ pass[p].part \in SUBSET Contacts
      /\ pass[p].seen \in [Contacts -> Owner] /\ pass[p].facts \in [Contacts -> Facts]
  BY PassType DEF Pass
<1>2. PICK L \in SUBSET Contacts, M \in SUBSET Contacts, s \in [Contacts -> Owner],
           g \in [Contacts -> Facts] :
        /\ L = pass[p].full \ S /\ M = pass[p].part \ S
        /\ s = [c \in Contacts |-> IF c \in S THEN Nobody ELSE pass[p].seen[c]]
        /\ g = [c \in Contacts |-> IF c \in S THEN Unread ELSE pass[p].facts[c]]
  BY <1>1 DEF Owner, Facts
<1> DEFINE x == [pass[p] EXCEPT !.full = L, !.part = M, !.seen = s, !.facts = g]
<1>3. /\ x \in Pass /\ x.pc = pass[p].pc /\ x.unlisted = pass[p].unlisted
      /\ x.ids = pass[p].ids /\ x.leads = pass[p].leads /\ x.contacted = pass[p].contacted
      /\ x.todo = pass[p].todo /\ x.reread = pass[p].reread /\ x.due = pass[p].due
      /\ x.clean = pass[p].clean
      /\ x.full = L /\ x.part = M /\ x.seen = s /\ x.facts = g
  BY PassType DEF Pass
<1>4. pass' = [pass EXCEPT ![p] = x]
  BY <1>2 DEF TypeOK, Written
<1>5. Put(p) /\ pass'[p] = x
  BY <1>3, <1>4, PassPut
<1>6. QED
  BY <1>3, <1>5, <1>2 DEF Later

\* What a pass has in hand is let go.
Empty(p) ==
  /\ pass'[p].unlisted = {} /\ pass'[p].todo = {} /\ pass'[p].full = {} /\ pass'[p].part = {}
  /\ pass'[p].facts = [c \in Contacts |-> Unread]

\* What a pass has in hand stays.
Keeps(p) ==
  /\ pass'[p].unlisted = pass[p].unlisted /\ pass'[p].todo = pass[p].todo
  /\ pass'[p].full = pass[p].full /\ pass'[p].part = pass[p].part
  /\ pass'[p].seen = pass[p].seen /\ pass'[p].facts = pass[p].facts

LEMMA OffEffect ==
  ASSUME TypeOK, NEW p \in Passes, pass' = [pass EXCEPT ![p] = NoPass]
  PROVE  /\ Put(p) /\ Empty(p) /\ pass'[p].pc = "off"
         /\ pass'[p].reread = {} /\ pass'[p].due = [c \in Contacts |-> Unread]
<1>1. Put(p) /\ pass'[p] = NoPass
  BY NoPassType, PassPut
<1>2. QED
  BY <1>1 DEF NoPass, Empty

Moves(p, pc) == pass' = [pass EXCEPT ![p].pc = pc]

LEMMA MovesEffect ==
  ASSUME TypeOK, NEW p \in Passes,
         NEW pc \in {"off", "scan", "select", "reread", "gather", "snapshot"}, Moves(p, pc)
  PROVE  /\ Put(p) /\ Keeps(p)
         /\ pass'[p].pc = pc /\ pass'[p].ids = pass[p].ids
         /\ pass'[p].reread = pass[p].reread /\ pass'[p].due = pass[p].due
         /\ pass'[p].clean = pass[p].clean
<1> DEFINE x == [pass[p] EXCEPT !.pc = pc]
<1>1. /\ x \in Pass /\ x.pc = pc /\ x.ids = pass[p].ids /\ x.reread = pass[p].reread
      /\ x.due = pass[p].due /\ x.clean = pass[p].clean
      /\ x.unlisted = pass[p].unlisted /\ x.todo = pass[p].todo
      /\ x.full = pass[p].full /\ x.part = pass[p].part
      /\ x.seen = pass[p].seen /\ x.facts = pass[p].facts
  BY PassType DEF Pass
<1>2. pass' = [pass EXCEPT ![p] = x]
  BY DEF Moves, TypeOK
<1>3. QED
  BY <1>1, <1>2, PassPut DEF Keeps

LEMMA EndScanEffect ==
  ASSUME TypeOK, NEW p \in Passes, EndScan(p)
  PROVE  /\ Put(p)
         /\ \/ Empty(p) /\ pass'[p].pc = "off" /\ p # Board
            \/ /\ Keeps(p) /\ pass'[p].pc \in {"select", "gather"}
               /\ pass'[p].pc = "select" <=> p = Board
               /\ pass'[p].due = pass[p].due /\ pass'[p].clean = pass[p].clean
               /\ pass'[p].reread = pass[p].reread
<1>1. CASE p = Board
  <2>1. Moves(p, "select")
    BY <1>1 DEF EndScan, Moves
  <2>2. QED
    BY <1>1, <2>1, MovesEffect
<1>2. CASE p # Board
  <2>1. PICK pc \in {"off", "gather"} :
          pass' = [pass EXCEPT ![p] = IF pc = "off" THEN NoPass ELSE [@ EXCEPT !.pc = pc]]
    BY <1>2 DEF EndScan
  <2>2. CASE pc = "off"
    <3>1. pass' = [pass EXCEPT ![p] = NoPass]
      BY <2>1, <2>2
    <3>2. QED
      BY <1>2, <3>1, OffEffect
  <2>3. CASE pc = "gather"
    <3>1. Moves(p, "gather")
      BY <2>1, <2>3 DEF Moves, TypeOK
    <3>2. QED
      BY <1>2, <3>1, MovesEffect
  <2>4. QED
    BY <2>2, <2>3
<1>3. QED
  BY <1>1, <1>2

LEMMA ScanFailsEffect ==
  ASSUME TypeOK, NEW p \in Passes, ScanFails(p)
  PROVE  /\ Put(p) /\ Empty(p)
         /\ pass'[p].pc \in {"off", "select", "gather"}
         /\ p = Board => /\ pass'[p].pc = "select" /\ pass'[p].clean = FALSE
                         /\ pass'[p].due = pass[p].due /\ pass'[p].reread = {}
<1>1. CASE p = Board
  <2>1. PICK D \in [Contacts -> Facts] : D = pass[p].due
    BY PassType DEF Pass
  <2> DEFINE x == [NoPass EXCEPT !.pc = "select", !.due = D, !.clean = FALSE]
  <2>2. /\ x \in Pass /\ x.pc = "select" /\ x.clean = FALSE /\ x.unlisted = {} /\ x.todo = {}
        /\ x.due = D /\ x.reread = {} /\ x.full = {} /\ x.part = {} /\ x.facts = [c \in Contacts |-> Unread]
    BY NoPassType DEF NoPass, Pass
  <2>3. pass' = [pass EXCEPT ![p] = x]
    BY <1>1, <2>1 DEF ScanFails
  <2>4. Put(p) /\ pass'[p] = x
    BY <2>2, <2>3, PassPut
  <2>5. QED
    BY <2>1, <2>2, <2>4 DEF Empty
<1>2. CASE p # Board
  <2>1. PICK pc \in {"off", "gather"} : pass' = [pass EXCEPT ![p] = [NoPass EXCEPT !.pc = pc]]
    BY <1>2 DEF ScanFails
  <2> DEFINE x == [NoPass EXCEPT !.pc = pc]
  <2>2. /\ x \in Pass /\ x.pc = pc /\ x.unlisted = {} /\ x.todo = {}
        /\ x.full = {} /\ x.part = {} /\ x.facts = [c \in Contacts |-> Unread]
    BY NoPassType DEF NoPass, Pass
  <2>3. Put(p) /\ pass'[p] = x
    BY <2>1, <2>2, PassPut
  <2>4. QED
    BY <1>2, <2>2, <2>3 DEF Empty
<1>3. QED
  BY <1>1, <1>2

LEMMA SelectEffect ==
  ASSUME TypeOK, SelectWindow
  PROVE  /\ Put(Board) /\ Keeps(Board)
         /\ pass'[Board].pc = "reread"
         /\ pass'[Board].ids = {c \in Contacts : row[c].here /\ row[c].facts > 0}
         /\ pass'[Board].due = pass[Board].due /\ pass'[Board].clean = pass[Board].clean
         /\ pass'[Board].reread = pass[Board].reread
<1>1. Board \in Passes
  BY NamesAssumption
<1>2. PICK I \in SUBSET Contacts : I = {c \in Contacts : row[c].here /\ row[c].facts > 0}
  OBVIOUS
<1> DEFINE x == [pass[Board] EXCEPT !.pc = "reread", !.ids = I]
<1>3. /\ x \in Pass /\ x.pc = "reread" /\ x.ids = I /\ x.reread = pass[Board].reread
      /\ x.due = pass[Board].due /\ x.clean = pass[Board].clean
      /\ x.unlisted = pass[Board].unlisted /\ x.todo = pass[Board].todo
      /\ x.full = pass[Board].full /\ x.part = pass[Board].part
      /\ x.seen = pass[Board].seen /\ x.facts = pass[Board].facts
  BY <1>1, PassType DEF Pass
<1>4. pass' = [pass EXCEPT ![Board] = x]
  BY <1>1, <1>2 DEF SelectWindow, TypeOK
<1>5. Put(Board) /\ pass'[Board] = x
  BY <1>1, <1>3, <1>4, PassPut
<1>6. QED
  BY <1>2, <1>3, <1>5 DEF Keeps

LEMMA TakenEffect ==
  ASSUME TypeOK, NEW r \in Readers, NEW c \in Contacts, Reread(r, c)
  PROVE  /\ Put(Board) /\ Keeps(Board)
         /\ pass'[Board].pc = "reread" /\ pass'[Board].ids = pass[Board].ids \ {c}
         /\ pass'[Board].reread = pass[Board].reread
         /\ pass'[Board].due = pass[Board].due /\ pass'[Board].clean = pass[Board].clean
<1>1. Board \in Passes
  BY NamesAssumption
<1>2. PICK I \in SUBSET Contacts : I = pass[Board].ids \ {c}
  BY <1>1, PassType DEF Pass
<1> DEFINE x == [pass[Board] EXCEPT !.ids = I]
<1>3. /\ x \in Pass /\ x.pc = pass[Board].pc /\ x.ids = I /\ x.reread = pass[Board].reread
      /\ x.due = pass[Board].due /\ x.clean = pass[Board].clean
      /\ x.unlisted = pass[Board].unlisted /\ x.todo = pass[Board].todo
      /\ x.full = pass[Board].full /\ x.part = pass[Board].part
      /\ x.seen = pass[Board].seen /\ x.facts = pass[Board].facts
  BY <1>1, PassType DEF Pass
<1>4. pass' = [pass EXCEPT ![Board] = x] /\ pass[Board].pc = "reread"
  BY <1>1, <1>2 DEF Reread, TypeOK
<1>5. Put(Board) /\ pass'[Board] = x
  BY <1>1, <1>3, <1>4, PassPut
<1>6. QED
  BY <1>2, <1>3, <1>4, <1>5 DEF Keeps

LEMMA ReturnsEffect ==
  ASSUME TypeOK, NEW r \in Readers, NEW ok \in BOOLEAN, Returns(r, ok), reader[r].pc # "idle"
  PROVE  /\ Put(Board) /\ Keeps(Board) /\ Later(Board)
         /\ pass'[Board].pc = pass[Board].pc /\ pass'[Board].ids = pass[Board].ids
         /\ pass'[Board].due = pass[Board].due
         /\ pass[Board].reread \subseteq pass'[Board].reread
         /\ pass'[Board].reread \subseteq
              pass[Board].reread \cup (IF ok /\ reader[r].board THEN {reader[r].on} ELSE {})
         /\ reader[r].board => IF ok THEN reader[r].on \in pass'[Board].reread
                                     ELSE pass'[Board].clean = FALSE
         /\ pass'[Board].clean => pass[Board].clean
<1>1. Board \in Passes
  BY NamesAssumption
<1>2. reader[r].on \in Contacts /\ pass[Board].reread \in SUBSET Contacts
  BY <1>1, PassType DEF TypeOK, Pass
<1>3. PICK R \in SUBSET Contacts : R = pass[Board].reread \cup {reader[r].on}
  BY <1>2
<1> DEFINE x == [pass[Board] EXCEPT !.reread = R]
           y == [pass[Board] EXCEPT !.clean = FALSE]
<1>4. /\ x \in Pass /\ x.pc = pass[Board].pc /\ x.ids = pass[Board].ids /\ x.reread = R
      /\ x.due = pass[Board].due /\ x.clean = pass[Board].clean
      /\ x.unlisted = pass[Board].unlisted /\ x.todo = pass[Board].todo
      /\ x.full = pass[Board].full /\ x.part = pass[Board].part
      /\ x.seen = pass[Board].seen /\ x.facts = pass[Board].facts
      /\ x.leads = pass[Board].leads /\ x.contacted = pass[Board].contacted
  BY <1>1, PassType DEF Pass
<1>5. /\ y \in Pass /\ y.pc = pass[Board].pc /\ y.ids = pass[Board].ids
      /\ y.reread = pass[Board].reread /\ y.due = pass[Board].due /\ y.clean = FALSE
      /\ y.unlisted = pass[Board].unlisted /\ y.todo = pass[Board].todo
      /\ y.full = pass[Board].full /\ y.part = pass[Board].part
      /\ y.seen = pass[Board].seen /\ y.facts = pass[Board].facts
      /\ y.leads = pass[Board].leads /\ y.contacted = pass[Board].contacted
  BY <1>1, PassType DEF Pass
<1>6. \/ ~reader[r].board /\ pass' = pass
      \/ reader[r].board /\ ok /\ pass' = [pass EXCEPT ![Board] = x]
      \/ reader[r].board /\ ~ok /\ pass' = [pass EXCEPT ![Board] = y]
  BY <1>1, <1>3 DEF Returns, TypeOK
<1>7. CASE pass' = pass /\ ~reader[r].board
  BY <1>7 DEF TypeOK, Put, Keeps, Later
<1>8. CASE reader[r].board /\ ok /\ pass' = [pass EXCEPT ![Board] = x]
  <2>1. Put(Board) /\ pass'[Board] = x
    BY <1>1, <1>4, <1>8, PassPut
  <2>2. QED
    BY <1>3, <1>4, <1>8, <2>1 DEF Keeps, Later
<1>9. CASE reader[r].board /\ ~ok /\ pass' = [pass EXCEPT ![Board] = y]
  <2>1. Put(Board) /\ pass'[Board] = y
    BY <1>1, <1>5, <1>9, PassPut
  <2>2. QED
    BY <1>5, <1>9, <2>1 DEF Keeps, Later
<1>10. QED
  BY <1>6, <1>7, <1>8, <1>9

LEMMA GatherEffect ==
  ASSUME TypeOK, NEW p \in Passes, Gather(p)
  PROVE  /\ Put(p) /\ Keeps(p)
         /\ pass'[p].pc = "snapshot" /\ pass'[p].due = pass[p].due
         /\ pass'[p].clean = pass[p].clean /\ pass'[p].reread = pass[p].reread
         /\ pass'[p].leads = {c \in Contacts : row[c].here}
         /\ pass'[p].contacted = {c \in Contacts : row[c].here /\ Contacted(meta[c])}
<1>1. PICK L \in SUBSET Contacts, M \in SUBSET Contacts :
        L = {c \in Contacts : row[c].here} /\ M = {c \in L : Contacted(meta[c])}
  OBVIOUS
<1> DEFINE x == [pass[p] EXCEPT !.pc = "snapshot", !.leads = L, !.contacted = M]
<1>2. /\ x \in Pass /\ x.pc = "snapshot" /\ x.due = pass[p].due /\ x.clean = pass[p].clean
      /\ x.reread = pass[p].reread /\ x.leads = L /\ x.contacted = M
      /\ x.unlisted = pass[p].unlisted /\ x.todo = pass[p].todo
      /\ x.full = pass[p].full /\ x.part = pass[p].part
      /\ x.seen = pass[p].seen /\ x.facts = pass[p].facts
  BY PassType DEF Pass
<1>3. pass' = [pass EXCEPT ![p] = x]
  BY <1>1 DEF Gather, TypeOK
<1>4. Put(p) /\ pass'[p] = x
  BY <1>2, <1>3, PassPut
<1>5. QED
  BY <1>1, <1>2, <1>4 DEF Keeps

-----------------------------------------------------------------------------
\* The same of a call of syncOne.

PutReader(r) ==
  reader' \in [Readers -> Reader] /\ \A q \in Readers \ {r} : reader'[q] = reader[q]

LEMMA ReaderPut ==
  ASSUME TypeOK, NEW r \in Readers, NEW x \in Reader, reader' = [reader EXCEPT ![r] = x]
  PROVE  PutReader(r) /\ reader'[r] = x
BY DEF TypeOK, PutReader

LEMMA ReaderType ==
  ASSUME TypeOK, NEW r \in Readers
  PROVE  reader[r] \in Reader /\ (reader[r].pc # "idle" => reader[r].on \in Contacts)
BY DEF TypeOK

LEMMA TakesEffect ==
  ASSUME TypeOK, NEW r \in Readers, NEW c \in Contacts, NEW b \in BOOLEAN, Takes(r, c, b)
  PROVE  /\ PutReader(r) /\ reader[r].pc = "idle"
         /\ reader'[r].pc = "fetch" /\ reader'[r].on = c /\ reader'[r].board = b
<1> DEFINE x == [NoReader EXCEPT !.pc = "fetch", !.on = c, !.board = b]
<1>1. x \in Reader /\ x.pc = "fetch" /\ x.on = c /\ x.board = b
  BY DEF NoReader, Reader
<1>2. reader' = [reader EXCEPT ![r] = x] /\ reader[r].pc = "idle"
  BY DEF Takes
<1>3. PutReader(r) /\ reader'[r] = x
  BY <1>1, <1>2, ReaderPut
<1>4. QED
  BY <1>1, <1>2, <1>3

\* A read answers with the thread, or, exhausted and unmarked, with nothing.
LEMMA FetchEffect ==
  ASSUME TypeOK, NEW r \in Readers, Fetch(r) \/ FetchRateLimited(r)
  PROVE  /\ PutReader(r) /\ reader[r].pc = "fetch"
         /\ reader'[r].pc = "meta" /\ reader'[r].on = reader[r].on
         /\ reader'[r].board = reader[r].board
         /\ reader'[r].len \in Nat /\ reader'[r].len <= thread[reader[r].on]
         /\ misread \subseteq misread' /\ misread' \subseteq misread \cup {reader[r].on}
         /\ reader[r].on \notin misread' => reader'[r].len = thread[reader[r].on]
<1>1. reader[r].pc = "fetch" /\ reader[r].on \in Contacts
  BY ReaderType DEF Fetch, FetchRateLimited
<1>2. thread[reader[r].on] \in Nat
  BY <1>1 DEF TypeOK
<1>3. PICK n \in Nat :
        /\ n <= thread[reader[r].on]
        /\ reader' = [reader EXCEPT ![r].pc = "meta", ![r].len = n]
        /\ misread \subseteq misread' /\ misread' \subseteq misread \cup {reader[r].on}
        /\ reader[r].on \notin misread' => n = thread[reader[r].on]
  <2>1. CASE Fetch(r)
    <3>1. PICK n \in Nat : n = thread[reader[r].on]
      BY <1>2
    <3>2. reader' = [reader EXCEPT ![r].pc = "meta", ![r].len = n] /\ misread' = misread
      BY <2>1, <3>1 DEF Fetch
    <3>3. n <= n
      OBVIOUS
    <3>4. QED
      BY <3>1, <3>2, <3>3
  <2>2. CASE FetchRateLimited(r)
    <3>1. /\ reader' = [reader EXCEPT ![r].pc = "meta", ![r].len = 0]
          /\ misread' = misread \cup {reader[r].on}
      BY <2>2 DEF FetchRateLimited
    <3>2. 0 \in Nat /\ 0 <= thread[reader[r].on]
      BY <1>2
    <3>3. QED
      BY <3>1, <3>2
  <2>3. QED
    BY <2>1, <2>2
<1> DEFINE x == [reader[r] EXCEPT !.pc = "meta", !.len = n]
<1>4. /\ x \in Reader /\ x.pc = "meta" /\ x.on = reader[r].on /\ x.board = reader[r].board
      /\ x.len = n
  BY ReaderType DEF Reader
<1>5. reader' = [reader EXCEPT ![r] = x]
  BY <1>3 DEF TypeOK
<1>6. PutReader(r) /\ reader'[r] = x
  BY <1>4, <1>5, ReaderPut
<1>7. QED
  BY <1>1, <1>3, <1>4, <1>6

LEMMA SyncMetaEffect ==
  ASSUME TypeOK, NEW r \in Readers, SyncMeta(r)
  PROVE  /\ PutReader(r) /\ reader[r].pc = "meta"
         /\ reader'[r].pc = "row" /\ reader'[r].on = reader[r].on
         /\ reader'[r].board = reader[r].board /\ reader'[r].len = reader[r].len
         /\ reader'[r].saw = row[reader[r].on].here
<1>1. reader[r].pc = "meta" /\ reader[r].on \in Contacts
  BY ReaderType DEF SyncMeta
<1>2. PICK b \in BOOLEAN : b = row[reader[r].on].here
  BY <1>1 DEF TypeOK
<1> DEFINE x == [reader[r] EXCEPT !.pc = "row", !.saw = b]
<1>3. /\ x \in Reader /\ x.pc = "row" /\ x.on = reader[r].on /\ x.board = reader[r].board
      /\ x.len = reader[r].len /\ x.saw = b
  BY ReaderType DEF Reader
<1>4. reader' = [reader EXCEPT ![r] = x]
  BY <1>2 DEF SyncMeta, TypeOK
<1>5. PutReader(r) /\ reader'[r] = x
  BY <1>3, <1>4, ReaderPut
<1>6. QED
  BY <1>1, <1>2, <1>3, <1>5

LEMMA ReturnedEffect ==
  ASSUME TypeOK, NEW r \in Readers, NEW ok, Returns(r, ok)
  PROVE  PutReader(r) /\ reader'[r] = NoReader
BY NoReaderType, ReaderPut DEF Returns

-----------------------------------------------------------------------------
\* And of a batch.

PutDesk(d) == desk' \in [Desks -> Desk] /\ \A e \in Desks \ {d} : desk'[e] = desk[e]

LEMMA DeskPut ==
  ASSUME TypeOK, NEW d \in Desks, NEW x \in Desk, desk' = [desk EXCEPT ![d] = x]
  PROVE  PutDesk(d) /\ desk'[d] = x
BY DEF TypeOK, PutDesk

LEMMA DeskType ==
  ASSUME TypeOK, NEW d \in Desks
  PROVE  /\ desk[d] \in Desk
         /\ desk[d].pc \in {"call", "update", "log"} =>
              desk[d].on \in Contacts /\ desk[d].to \in Owners
BY DEF TypeOK

LEMMA NewBatchEffect ==
  ASSUME TypeOK, NEW d \in Desks, NEW plan \in SUBSET (Contacts \X Owners), NewBatch(d, plan)
  PROVE  /\ PutDesk(d) /\ desk[d].pc = "idle"
         /\ desk'[d].pc = "next" /\ desk'[d].batch = batches + 1 /\ desk'[d].plan = plan
<1>1. PICK n \in Nat : n = batches + 1
  BY DEF TypeOK
<1> DEFINE x == [NoDesk EXCEPT !.pc = "next", !.batch = n, !.plan = plan]
<1>2. x \in Desk /\ x.pc = "next" /\ x.batch = n /\ x.plan = plan
  BY NoDeskType DEF NoDesk, Desk
<1>3. desk' = [desk EXCEPT ![d] = x] /\ desk[d].pc = "idle"
  BY <1>1 DEF NewBatch
<1>4. PutDesk(d) /\ desk'[d] = x
  BY <1>2, <1>3, DeskPut
<1>5. QED
  BY <1>1, <1>2, <1>3, <1>4

\* The plan becomes Q.
Trims(d, Q) == desk' = [desk EXCEPT ![d].plan = Q]

LEMMA TrimsEffect ==
  ASSUME TypeOK, NEW d \in Desks, NEW Q \in SUBSET (Contacts \X Owners), Trims(d, Q)
  PROVE  /\ PutDesk(d)
         /\ desk'[d].pc = desk[d].pc /\ desk'[d].batch = desk[d].batch /\ desk'[d].plan = Q
<1> DEFINE x == [desk[d] EXCEPT !.plan = Q]
<1>1. x \in Desk /\ x.pc = desk[d].pc /\ x.batch = desk[d].batch /\ x.plan = Q
  BY DeskType DEF Desk
<1>2. desk' = [desk EXCEPT ![d] = x]
  BY DEF Trims, TypeOK
<1>3. QED
  BY <1>1, <1>2, DeskPut

LEMMA LookEffect ==
  ASSUME TypeOK, NEW d \in Desks, NEW x \in desk[d].plan, Look(d, x)
  PROVE  /\ PutDesk(d) /\ desk[d].pc = "next"
         /\ desk'[d].pc = "call" /\ desk'[d].batch = desk[d].batch
         /\ desk'[d].plan = desk[d].plan \ {x} /\ desk'[d].on = x[1] /\ desk'[d].to = x[2]
         /\ x[1] \in Contacts /\ x[2] \in Owners
<1>1. desk[d].plan \in SUBSET (Contacts \X Owners)
  BY DeskType DEF Desk
<1>2. x[1] \in Contacts /\ x[2] \in Owners
  BY <1>1
<1>3. PICK c \in Contacts, to \in Owner, from \in Owner, Q \in SUBSET (Contacts \X Owners) :
        /\ c = x[1] /\ to = x[2] /\ from = row[x[1]].owner /\ Q = desk[d].plan \ {x}
  BY <1>1, <1>2 DEF TypeOK, Owner
<1> DEFINE y == [desk[d] EXCEPT !.pc = "call", !.plan = Q, !.on = c, !.to = to, !.from = from]
<1>4. /\ y \in Desk /\ y.pc = "call" /\ y.batch = desk[d].batch /\ y.plan = Q
      /\ y.on = c /\ y.to = to
  BY DeskType DEF Desk
<1>5. desk' = [desk EXCEPT ![d] = y] /\ desk[d].pc = "next"
  BY <1>3 DEF Look, TypeOK
<1>6. PutDesk(d) /\ desk'[d] = y
  BY <1>4, <1>5, DeskPut
<1>7. QED
  BY <1>2, <1>3, <1>4, <1>5, <1>6

Goes(d, pc) == desk' = [desk EXCEPT ![d].pc = pc]

LEMMA GoesEffect ==
  ASSUME TypeOK, NEW d \in Desks, NEW pc \in {"call", "update", "log"}, Goes(d, pc)
  PROVE  /\ PutDesk(d)
         /\ desk'[d].pc = pc /\ desk'[d].batch = desk[d].batch /\ desk'[d].plan = desk[d].plan
         /\ desk'[d].on = desk[d].on /\ desk'[d].to = desk[d].to
         /\ desk'[d].tries = desk[d].tries /\ desk'[d].from = desk[d].from
<1> DEFINE x == [desk[d] EXCEPT !.pc = pc]
<1>1. /\ x \in Desk /\ x.pc = pc /\ x.batch = desk[d].batch /\ x.plan = desk[d].plan
      /\ x.on = desk[d].on /\ x.to = desk[d].to /\ x.tries = desk[d].tries
      /\ x.from = desk[d].from
  BY DeskType DEF Desk
<1>2. desk' = [desk EXCEPT ![d] = x]
  BY DEF Goes, TypeOK
<1>3. PutDesk(d) /\ desk'[d] = x
  BY <1>1, <1>2, DeskPut
<1>4. QED
  BY <1>1, <1>3

LEMMA RetriesEffect ==
  ASSUME TypeOK, NEW d \in Desks, desk[d].tries + 1 < Attempts,
         desk' = [desk EXCEPT ![d].tries = @ + 1]
  PROVE  /\ PutDesk(d)
         /\ desk'[d].pc = desk[d].pc /\ desk'[d].batch = desk[d].batch
         /\ desk'[d].plan = desk[d].plan
         /\ desk'[d].on = desk[d].on /\ desk'[d].to = desk[d].to
        
<1>1. PICK n \in 0..Attempts - 1 : n = desk[d].tries + 1
  BY DeskType, BoundsAssumption DEF Desk
<1> DEFINE x == [desk[d] EXCEPT !.tries = n]
<1>2. /\ x \in Desk /\ x.pc = desk[d].pc /\ x.batch = desk[d].batch /\ x.plan = desk[d].plan
      /\ x.on = desk[d].on /\ x.to = desk[d].to /\ x.tries = n
  BY DeskType DEF Desk
<1>3. desk' = [desk EXCEPT ![d] = x]
  BY <1>1 DEF TypeOK
<1>4. PutDesk(d) /\ desk'[d] = x
  BY <1>2, <1>3, DeskPut
<1>5. QED
  BY <1>1, <1>2, <1>4

LEMMA NextEffect ==
  ASSUME TypeOK, NEW d \in Desks, desk' = [desk EXCEPT ![d] = NextContact(d)]
  PROVE  /\ PutDesk(d)
         /\ desk'[d].pc = "next" /\ desk'[d].batch = desk[d].batch
         /\ desk'[d].plan = desk[d].plan
<1> DEFINE x == NextContact(d)
<1>1. x \in Desk /\ x.pc = "next" /\ x.batch = desk[d].batch /\ x.plan = desk[d].plan
  <2>1. PICK n \in Nat, Q \in SUBSET (Contacts \X Owners) :
          n = desk[d].batch /\ Q = desk[d].plan
    BY DeskType DEF Desk
  <2>2. x = [NoDesk EXCEPT !.pc = "next", !.batch = n, !.plan = Q]
    BY <2>1 DEF NextContact
  <2>3. QED
    BY <2>1, <2>2, NoDeskType DEF NoDesk, Desk
<1> HIDE DEF x
<1>2. PutDesk(d) /\ desk'[d] = x
  BY <1>1, DeskPut DEF x
<1>3. QED
  BY <1>1, <1>2

LEMMA EndBatchEffect ==
  ASSUME TypeOK, NEW d \in Desks, EndBatch(d)
  PROVE  PutDesk(d) /\ desk'[d] = NoDesk
BY NoDeskType, DeskPut DEF EndBatch

-----------------------------------------------------------------------------
\* Types.

LEMMA CountTypes ==
  ASSUME TypeOK
  PROVE  /\ Fault => faults' \in Nat
         /\ Start => starts' \in Nat
BY DEF TypeOK, Fault, Start

LEMMA GoesType ==
  ASSUME TypeOK, NEW c \in Contacts, NEW to \in Owner, NEW mover, OwnerGoes(c, to, mover)
  PROVE  owner' \in [Contacts -> Owner] /\ overtaken' \subseteq (Passes \cup Desks) \X Contacts
BY DEF TypeOK, OwnerGoes

LEMMA ReadsType ==
  ASSUME TypeOK, NEW c \in Contacts, ReadsMessages(c)
  PROVE  overlapped' \subseteq Contacts /\ overlapped \subseteq overlapped'
BY DEF TypeOK, ReadsMessages

LEMMA CoalesceType ==
  ASSUME NEW a \in Facts, NEW b \in Facts
  PROVE  Coalesce(a, b) \in Facts
BY DEF Coalesce

LEMMA FlushType ==
  ASSUME TypeOK, NEW p \in Passes, NEW S \in SUBSET Contacts, NEW m \in BOOLEAN, flush(p, S, m)
  PROVE  /\ row' \in [Contacts -> [here : BOOLEAN, owner : Owner, facts : Facts, score : Facts]]
         /\ astray' \subseteq Contacts /\ overtaken' \subseteq (Passes \cup Desks) \X Contacts
<1>1. pass[p].seen \in [Contacts -> Owner] /\ pass[p].facts \in [Contacts -> Facts]
  BY PassType DEF Pass
<1> DEFINE w(c) == [here |-> TRUE, owner |-> pass[p].seen[c],
                    facts |-> Coalesce(pass[p].facts[c], row[c].facts),
                    score |-> IF m \/ ~row[c].here THEN pass[p].facts[c] ELSE row[c].score]
<1>2. ASSUME NEW c \in Contacts
      PROVE  w(c) \in [here : BOOLEAN, owner : Owner, facts : Facts, score : Facts]
  <2>1. PICK o \in Owner, f \in Facts, s \in Facts :
          /\ o = pass[p].seen[c] /\ f = Coalesce(pass[p].facts[c], row[c].facts)
          /\ s = IF m \/ ~row[c].here THEN pass[p].facts[c] ELSE row[c].score
    BY <1>1, <1>2, CoalesceType DEF TypeOK
  <2>2. w(c) = [here |-> TRUE, owner |-> o, facts |-> f, score |-> s]
    BY <2>1
  <2>3. QED
    BY <2>2
<1>3. row' = [c \in Contacts |-> IF c \notin S THEN row[c] ELSE w(c)]
  BY DEF flush
<1> HIDE DEF w
<1>4. row' \in [Contacts -> [here : BOOLEAN, owner : Owner, facts : Facts, score : Facts]]
  BY <1>2, <1>3 DEF TypeOK
<1>5. QED
  BY <1>4 DEF flush, StoresOwners, TypeOK

LEMMA DropsType ==
  ASSUME TypeOK, NEW p \in Passes, Drops(p)
  PROVE  overtaken' \subseteq (Passes \cup Desks) \X Contacts
BY DEF TypeOK, Drops

LEMMA RowRecord ==
  ASSUME TypeOK, NEW c \in Contacts, NEW n \in Facts, NEW s \in Facts
  PROVE  [row[c] EXCEPT !.facts = n, !.score = s]
           \in [here : BOOLEAN, owner : Owner, facts : Facts, score : Facts]
<1>1. row[c] \in [here : BOOLEAN, owner : Owner, facts : Facts, score : Facts]
  BY DEF TypeOK
<1>2. QED
  BY <1>1

LEMMA FollowRecord ==
  ASSUME NEW a \in BOOLEAN, NEW b \in BOOLEAN
  PROVE  [here |-> TRUE, contacted |-> a, waited |-> b]
           \in [here : BOOLEAN, contacted : BOOLEAN, waited : BOOLEAN]
OBVIOUS

\* A step of a pass.
LEMMA TypePass ==
  ASSUME TypeOK, NEW p \in Passes, PassStep(p)
  PROVE  TypeOK'
<1>1. CASE StartPass(p)
  BY <1>1, StartPassEffect, CountTypes
  DEF TypeOK, Put, StartPass, wati, store, ghosts
<1>2. CASE ListPage(p)
  BY <1>2, ListPageEffect
  DEF TypeOK, Put, ListPage, wati, store, ghosts, counts
<1>3. CASE Flush(p)
  <2>1. PICK S \in SUBSET Contacts, m \in BOOLEAN : flush(p, S, m)
    BY <1>3, PassType DEF Flush, Pass
  <2>2. Put(p)
    BY <2>1, WrittenIs DEF flush
  <2>3. /\ row' \in [Contacts -> [here : BOOLEAN, owner : Owner, facts : Facts, score : Facts]]
        /\ astray' \subseteq Contacts /\ overtaken' \subseteq (Passes \cup Desks) \X Contacts
    BY <2>1, FlushType
  <2>4. UNCHANGED <<wati, meta, follow, sentLog, stamps, reader, desk, batches, overlapped,
                    misread, carried, excused, doubled, counts>>
    BY <1>3 DEF Flush
  <2>5. QED
    BY <2>2, <2>3, <2>4 DEF TypeOK, Put, wati, counts
<1>4. CASE EndScan(p)
  BY <1>4, EndScanEffect
  DEF TypeOK, Put, EndScan, wati, store, ghosts, counts
<1>5. CASE ScanFails(p)
  BY <1>5, ScanFailsEffect, DropsType, CountTypes
  DEF TypeOK, Put, ScanFails, wati, store
<1>6. ASSUME NEW c \in Contacts, BuildRow(p, c) PROVE TypeOK'
  BY <1>6, BuildRowEffect, ReadsType
  DEF TypeOK, Put, BuildRow, wati, store, counts
<1>7. ASSUME NEW c \in Contacts, BuildRowMisread(p, c) PROVE TypeOK'
  BY <1>7, BuildRowEffect, ReadsType, CountTypes
  DEF TypeOK, Put, BuildRowMisread, wati, store
<1>8. CASE Gather(p)
  BY <1>8, GatherEffect
  DEF TypeOK, Put, Gather, wati, store, counts
<1>9. CASE Snapshot(p)
  <2>1. Put(p)
    BY <1>9, OffEffect DEF Snapshot
  <2>2. /\ follow' \in [Contacts -> [here : BOOLEAN, contacted : BOOLEAN, waited : BOOLEAN]]
        /\ stamps' \in [Contacts -> Nat]
    <3> DEFINE w(c) == [here |-> TRUE, contacted |-> c \in pass[p].contacted,
                        waited |-> IF follow[c].here THEN follow[c].waited
                                   ELSE c \notin pass[p].contacted]
    <3>1. ASSUME NEW c \in Contacts
          PROVE  w(c) \in [here : BOOLEAN, contacted : BOOLEAN, waited : BOOLEAN]
      <4>1. (c \in pass[p].contacted) \in BOOLEAN
        OBVIOUS
      <4>2. (IF follow[c].here THEN follow[c].waited ELSE c \notin pass[p].contacted) \in BOOLEAN
        BY <3>1 DEF TypeOK
      <4>3. QED
        BY <4>1, <4>2, FollowRecord, Zenon
    <3>2. follow' = [c \in Contacts |-> IF c \notin pass[p].leads THEN follow[c] ELSE w(c)]
      BY <1>9 DEF Snapshot
    <3> HIDE DEF w
    <3>3. follow' \in [Contacts -> [here : BOOLEAN, contacted : BOOLEAN, waited : BOOLEAN]]
      BY <3>1, <3>2 DEF TypeOK
    <3>4. stamps' \in [Contacts -> Nat]
      BY <1>9 DEF Snapshot, TypeOK
    <3>5. QED
      BY <3>3, <3>4
  <2>3. QED
    BY <1>9, <2>1, <2>2 DEF TypeOK, Put, Snapshot, wati, ghosts, counts
<1>10. CASE PassFails(p)
  BY <1>10, OffEffect, CountTypes
  DEF TypeOK, Put, PassFails, wati, store, ghosts
<1>11. QED
  BY <1>1, <1>2, <1>3, <1>4, <1>5, <1>6, <1>7, <1>8, <1>9, <1>10 DEF PassStep

\* A step of a call of syncOne.
LEMMA TypeReader ==
  ASSUME TypeOK, NEW r \in Readers, ReaderStep(r)
  PROVE  TypeOK'
<1>1. ASSUME NEW c \in Contacts, View(r, c) PROVE TypeOK'
  <2>1. Takes(r, c, FALSE)
    BY <1>1 DEF View
  <2>2. PutReader(r) /\ reader'[r].on = c
    BY <2>1, TakesEffect
  <2>3. \A q \in Readers : reader'[q].pc # "idle" => reader'[q].on \in Contacts
    BY <2>2 DEF TypeOK, PutReader
  <2>4. QED
    BY <1>1, <2>2, <2>3, CountTypes DEF TypeOK, PutReader, View, wati, store, ghosts
<1>2. ASSUME NEW c \in Contacts, Reread(r, c) PROVE TypeOK'
  <2>1. Takes(r, c, TRUE)
    BY <1>2 DEF Reread
  <2>2. PutReader(r) /\ reader'[r].on = c /\ Put(Board)
    BY <1>2, <2>1, TakesEffect, TakenEffect
  <2>3. \A q \in Readers : reader'[q].pc # "idle" => reader'[q].on \in Contacts
    BY <2>2 DEF TypeOK, PutReader
  <2>4. QED
    BY <1>2, <2>2, <2>3 DEF TypeOK, PutReader, Put, Reread, wati, store, ghosts, counts
<1>3. CASE Fetch(r) \/ FetchRateLimited(r)
  <2>1. /\ PutReader(r) /\ reader'[r].on \in Contacts /\ misread' \subseteq Contacts
    BY <1>3, FetchEffect, ReaderType DEF TypeOK
  <2>2. ReadsMessages(reader[r].on) /\ reader[r].on \in Contacts
    BY <1>3, ReaderType DEF Fetch, FetchRateLimited
  <2>3. overlapped' \subseteq Contacts
    BY <2>2, ReadsType
  <2>4. \A q \in Readers : reader'[q].pc # "idle" => reader'[q].on \in Contacts
    BY <2>1 DEF TypeOK, PutReader
  <2>5. faults' \in Nat
    BY <1>3, CountTypes DEF Fetch, FetchRateLimited, TypeOK, counts
  <2>6. QED
    BY <1>3, <2>1, <2>3, <2>4, <2>5
    DEF TypeOK, PutReader, Fetch, FetchRateLimited, wati, store, counts
<1>4. CASE SyncMeta(r)
  <2>1. reader[r].on \in Contacts /\ reader[r].len \in Facts
    BY <1>4, ReaderType DEF SyncMeta, Reader, Facts
  <2>2. QED
    BY <1>4, <2>1, SyncMetaEffect
    DEF TypeOK, PutReader, SyncMeta, wati, ghosts, counts
<1>5. CASE SyncRow(r)
  <2>1. reader[r].on \in Contacts /\ reader[r].len \in Facts /\ reader[r].pc # "idle"
    BY <1>5, ReaderType DEF SyncRow, Reader, Facts
  <2>2. row' \in [Contacts -> [here : BOOLEAN, owner : Owner, facts : Facts, score : Facts]]
    <3>1. PICK n \in Facts, c \in Contacts : n = reader[r].len /\ c = reader[r].on
      BY <2>1
    <3>2. row' = IF row[c].here
                 THEN [row EXCEPT ![c].facts = n, ![c].score = IF reader[r].saw THEN n ELSE @]
                 ELSE row
      BY <1>5, <3>1 DEF SyncRow
    <3>3. PICK s \in Facts : s = IF reader[r].saw THEN n ELSE row[c].score
      BY <3>1 DEF TypeOK
    <3> DEFINE z == [row[c] EXCEPT !.facts = n, !.score = s]
    <3>4. z \in [here : BOOLEAN, owner : Owner, facts : Facts, score : Facts]
      BY <3>3, RowRecord DEF TypeOK
    <3>5. row[c].here => row' = [row EXCEPT ![c] = z]
      BY <3>2, <3>3 DEF TypeOK
    <3> HIDE DEF z
    <3>6. QED
      BY <3>2, <3>4, <3>5 DEF TypeOK
  <2>3. Returns(r, TRUE)
    BY <1>5 DEF SyncRow
  <2>4. Put(Board) /\ PutReader(r) /\ reader'[r] = NoReader
    BY <2>1, <2>3, ReturnsEffect, ReturnedEffect
  <2>5. QED
    BY <1>5, <2>2, <2>4, NoReaderType DEF TypeOK, Put, PutReader, SyncRow, wati, ghosts, counts
<1>6. CASE SyncFails(r)
  <2>1. Returns(r, FALSE) /\ reader[r].pc # "idle"
    BY <1>6 DEF SyncFails
  <2>2. Put(Board) /\ PutReader(r) /\ reader'[r] = NoReader
    BY <2>1, ReturnsEffect, ReturnedEffect
  <2>3. QED
    BY <1>6, <2>2, NoReaderType, CountTypes
    DEF TypeOK, Put, PutReader, SyncFails, wati, store, ghosts
<1>7. QED
  BY <1>1, <1>2, <1>3, <1>4, <1>5, <1>6 DEF ReaderStep

\* A step of a batch.
LEMMA GivesUpEffect ==
  ASSUME TypeOK, NEW d \in Desks, GivesUp(d), desk[d].pc = "call"
  PROVE  /\ PutDesk(d) /\ desk'[d].pc = "next" /\ desk'[d].batch = desk[d].batch
         /\ desk'[d].plan = desk[d].plan
         /\ astray' \subseteq Contacts /\ excused' \subseteq Nat \X Contacts
<1>1. desk[d].on \in Contacts /\ desk[d].batch \in Nat
  BY DeskType DEF Desk
<1>2. desk' = [desk EXCEPT ![d] = NextContact(d)]
  BY DEF GivesUp
<1>3. astray' \subseteq Contacts /\ excused' \subseteq Nat \X Contacts
  BY <1>1 DEF GivesUp, TypeOK
<1>4. QED
  BY <1>2, <1>3, NextEffect

LEMMA CarriesOutType ==
  ASSUME TypeOK, NEW d \in Desks, CarriesOut(d), desk[d].pc = "call"
  PROVE  /\ owner' \in [Contacts -> Owner] /\ overtaken' \subseteq (Passes \cup Desks) \X Contacts
         /\ carried' \subseteq Nat \X Contacts
<1>1. desk[d].on \in Contacts /\ desk[d].batch \in Nat /\ desk[d].to \in Owner
  BY DeskType DEF Desk
<1>2. QED
  BY <1>1, GoesType DEF CarriesOut, TypeOK

\* The batches that stay as they are, in hand, and the row kept of an owner.
LEMMA TypeDeskPut ==
  ASSUME TypeOK, NEW d \in Desks, PutDesk(d),
         desk'[d].pc \in {"call", "update", "log"} =>
           desk'[d].on \in Contacts /\ desk'[d].to \in Owners
  PROVE  /\ desk' \in [Desks -> Desk]
         /\ \A e \in Desks : desk'[e].pc \in {"call", "update", "log"} =>
              desk'[e].on \in Contacts /\ desk'[e].to \in Owners
BY DEF TypeOK, PutDesk

LEMMA StepInHand ==
  ASSUME TypeOK, NEW d \in Desks, NEW pc \in {"call", "update", "log"}, Goes(d, pc),
         desk[d].pc \in {"call", "update", "log"}
  PROVE  /\ desk' \in [Desks -> Desk]
         /\ \A e \in Desks : desk'[e].pc \in {"call", "update", "log"} =>
              desk'[e].on \in Contacts /\ desk'[e].to \in Owners
BY GoesEffect, DeskType, TypeDeskPut

LEMMA OwnerRow ==
  ASSUME TypeOK, NEW c \in Contacts, NEW o \in Owner,
         row' = IF row[c].here THEN [row EXCEPT ![c].owner = o] ELSE row
  PROVE  /\ row' \in [Contacts -> [here : BOOLEAN, owner : Owner, facts : Facts, score : Facts]]
         /\ \A x \in Contacts :
              /\ row'[x].here = row[x].here /\ row'[x].facts = row[x].facts
              /\ row'[x].score = row[x].score
              /\ row'[x].owner = IF x = c /\ row[c].here THEN o ELSE row[x].owner
<1>1. row[c] \in [here : BOOLEAN, owner : Owner, facts : Facts, score : Facts]
  BY DEF TypeOK
<1> DEFINE z == [row[c] EXCEPT !.owner = o]
<1>2. /\ z \in [here : BOOLEAN, owner : Owner, facts : Facts, score : Facts]
      /\ z.here = row[c].here /\ z.facts = row[c].facts /\ z.score = row[c].score /\ z.owner = o
  BY <1>1
<1>3. row[c].here => row' = [row EXCEPT ![c] = z]
  BY DEF TypeOK
<1>4. ~row[c].here => row' = row
  OBVIOUS
<1> HIDE DEF z
<1>5. QED
  BY <1>2, <1>3, <1>4 DEF TypeOK

LEMMA TypeDesk ==
  ASSUME TypeOK, NEW d \in Desks, DeskStep(d)
  PROVE  TypeOK'
<1> USE DEF DeskUnchanged
<1>1. ASSUME NEW plan \in SUBSET (Contacts \X Owners), NewBatch(d, plan)
      PROVE  TypeOK'
  <2>1. PutDesk(d) /\ desk'[d].pc = "next"
    BY <1>1, NewBatchEffect
  <2>2. QED
    BY <1>1, <2>1, TypeDeskPut, CountTypes DEF TypeOK, NewBatch
<1>2. ASSUME NEW x \in desk[d].plan, PassOver(d, x) PROVE TypeOK'
  <2>1. PICK Q \in SUBSET (Contacts \X Owners) : Q = desk[d].plan \ {x}
    BY DeskType DEF Desk
  <2>2. Trims(d, Q) /\ desk[d].pc = "next"
    BY <1>2, <2>1 DEF PassOver, Trims
  <2>3. PutDesk(d) /\ desk'[d].pc = "next"
    BY <2>2, TrimsEffect
  <2>4. QED
    BY <1>2, <2>3, TypeDeskPut DEF TypeOK, PassOver, counts
<1>3. ASSUME NEW x \in desk[d].plan, Look(d, x) PROVE TypeOK'
  <2>1. /\ PutDesk(d) /\ desk'[d].on \in Contacts /\ desk'[d].to \in Owners
    BY <1>3, LookEffect
  <2>2. QED
    BY <1>3, <2>1, TypeDeskPut DEF TypeOK, Look, counts
<1>4. ASSUME NEW to \in Owners, LookFails(d, to) PROVE TypeOK'
  <2>1. PICK Q \in SUBSET (Contacts \X Owners) : Q = {x \in desk[d].plan : x[2] # to}
    BY DeskType DEF Desk
  <2>2. Trims(d, Q) /\ desk[d].pc = "next"
    BY <1>4, <2>1 DEF LookFails, Trims
  <2>3. PutDesk(d) /\ desk'[d].pc = "next"
    BY <2>2, TrimsEffect
  <2>4. QED
    BY <1>4, <2>3, TypeDeskPut, CountTypes DEF TypeOK, LookFails
<1>5. CASE Accepted(d)
  <2>1. Goes(d, "update") /\ desk[d].pc = "call" /\ CarriesOut(d)
    BY <1>5 DEF Accepted, Goes
  <2>2. QED
    BY <1>5, <2>1, StepInHand, CarriesOutType DEF TypeOK, Accepted, counts
<1>6. CASE Refused(d)
  <2>1. GivesUp(d) /\ desk[d].pc = "call"
    BY <1>6 DEF Refused
  <2>2. PutDesk(d) /\ desk'[d].pc = "next"
    BY <2>1, GivesUpEffect
  <2>3. QED
    BY <1>6, <2>1, <2>2, GivesUpEffect, TypeDeskPut DEF TypeOK, Refused, counts
<1>7. CASE Unanswered(d)
  <2>1. desk[d].pc = "call"
    BY <1>7 DEF Unanswered
  <2>2. /\ owner' \in [Contacts -> Owner] /\ overtaken' \subseteq (Passes \cup Desks) \X Contacts
        /\ carried' \subseteq Nat \X Contacts
    BY <1>7, <2>1, CarriesOutType DEF Unanswered, TypeOK
  <2>3. /\ desk' \in [Desks -> Desk]
        /\ \A e \in Desks : desk'[e].pc \in {"call", "update", "log"} =>
             desk'[e].on \in Contacts /\ desk'[e].to \in Owners
        /\ astray' \subseteq Contacts /\ excused' \subseteq Nat \X Contacts
    <3>1. CASE desk[d].tries + 1 < Attempts
      <4>1. desk' = [desk EXCEPT ![d].tries = @ + 1] /\ UNCHANGED <<astray, excused>>
        BY <1>7, <3>1 DEF Unanswered
      <4>2. /\ PutDesk(d) /\ desk'[d].on \in Contacts /\ desk'[d].to \in Owners
           
        BY <2>1, <3>1, <4>1, RetriesEffect, DeskType
      <4>3. QED
        BY <4>1, <4>2, TypeDeskPut DEF TypeOK
    <3>2. CASE GivesUp(d)
      BY <2>1, <3>2, GivesUpEffect, TypeDeskPut
    <3>3. QED
      BY <1>7, <3>1, <3>2 DEF Unanswered
  <2>4. QED
    BY <1>7, <2>2, <2>3, CountTypes DEF TypeOK, Unanswered
<1>8. CASE Update(d)
  <2>1. Goes(d, "log") /\ desk[d].pc = "update"
    BY <1>8 DEF Update, Goes
  <2>2. PICK c \in Contacts, o \in Owner : c = desk[d].on /\ o = desk[d].to
    BY <2>1, DeskType DEF Desk
  <2>3. row' \in [Contacts -> [here : BOOLEAN, owner : Owner, facts : Facts, score : Facts]]
    BY <1>8, <2>2, OwnerRow DEF Update
  <2>4. StoresOwners(d, {c})
    BY <1>8, <2>2 DEF Update
  <2>5. astray' \subseteq Contacts /\ overtaken' \subseteq (Passes \cup Desks) \X Contacts
    BY <2>4 DEF StoresOwners, TypeOK
  <2>6. QED
    BY <1>8, <2>1, <2>3, <2>5, StepInHand DEF TypeOK, Update, counts
<1>9. CASE UpdateFails(d)
  <2>1. Goes(d, "log") /\ desk[d].pc = "update"
    BY <1>9 DEF UpdateFails, Goes
  <2>2. desk[d].on \in Contacts
    BY <2>1, DeskType
  <2>3. QED
    BY <1>9, <2>1, <2>2, StepInHand, CountTypes DEF TypeOK, UpdateFails
<1>10. CASE logRow(d)
  <2>1. /\ PutDesk(d) /\ desk'[d].pc = "next"
    BY <1>10, NextEffect DEF logRow
  <2>2. [batch |-> desk[d].batch, on |-> desk[d].on, from |-> desk[d].from]
          \in [batch : Nat, on : Contacts, from : Owner]
    BY <1>10, DeskType DEF Desk, logRow
  <2>3. QED
    BY <1>10, <2>1, <2>2, TypeDeskPut DEF TypeOK, logRow, counts
<1>11. CASE logRowFails(d)
  <2>1. /\ PutDesk(d) /\ desk'[d].pc = "next"
    BY <1>11, NextEffect DEF logRowFails
  <2>2. <<desk[d].batch, desk[d].on>> \in Nat \X Contacts
    BY <1>11, DeskType DEF Desk, logRowFails
  <2>3. QED
    BY <1>11, <2>1, <2>2, TypeDeskPut, CountTypes DEF TypeOK, logRowFails
<1>12. CASE EndBatch(d)
  <2>1. /\ PutDesk(d) /\ desk'[d].pc = "idle"
    BY <1>12, EndBatchEffect, NoDeskType
  <2>2. QED
    BY <1>12, <2>1, TypeDeskPut DEF TypeOK, EndBatch, counts
<1>13. \A S \in SUBSET Contacts, to \in Owners : S \X {to} \in SUBSET (Contacts \X Owners)
  OBVIOUS
<1>14. \A b \in Nat : {<<l.on, l.from>> : l \in {x \in sentLog : x.batch = b /\ x.from # Nobody}}
                        \in SUBSET (Contacts \X Owners)
  BY DEF TypeOK, Owner
<1>15. ASSUME NEW S \in SUBSET Contacts, NEW to \in Owners, Assign(d, S, to) PROVE TypeOK'
  BY <1>15, <1>1, <1>13 DEF Assign
<1>16. ASSUME NEW b \in 1..batches, Undo(d, b) PROVE TypeOK'
  <2>1. b \in Nat
    BY DEF TypeOK
  <2>2. QED
    BY <1>16, <2>1, <1>1, <1>14 DEF Undo
<1>17. QED
  BY <1>2, <1>3, <1>4, <1>5, <1>6, <1>7, <1>8, <1>9, <1>10, <1>11, <1>12, <1>15, <1>16
  DEF DeskStep

LEMMA TypeCrash ==
  ASSUME TypeOK, Crash
  PROVE  TypeOK'
<1>1. /\ pass' \in [Passes -> Pass] /\ reader' \in [Readers -> Reader]
      /\ desk' \in [Desks -> Desk]
      /\ \A r \in Readers : reader'[r].pc = "idle"
      /\ \A d \in Desks : desk'[d].pc = "idle"
  BY NoPassType, NoReaderType, NoDeskType DEF Crash
<1>2. overtaken' = {} /\ astray' \subseteq Contacts /\ excused' \subseteq Nat \X Contacts
  BY DEF Crash, TypeOK
<1>3. QED
  BY <1>1, <1>2, CountTypes DEF TypeOK, Crash, wati, store

LEMMA TypeOthers ==
  ASSUME TypeOK, WatiStep \/ BoardStep
  PROVE  TypeOK'
<1>1. ASSUME NEW c \in Contacts, NewMessage(c) PROVE TypeOK'
  <2>1. thread' \in [Contacts -> Nat]
    BY <1>1 DEF NewMessage, TypeOK
  <2>2. QED
    BY <1>1, <2>1 DEF NewMessage, TypeOK, store, tasks, ghosts, counts
<1>2. ASSUME NEW c \in Contacts, NEW to \in Owners, WatiMoves(c, to) PROVE TypeOK'
  <2>1. to \in Owner /\ OwnerGoes(c, to, Nobody)
    BY <1>2 DEF Owner, WatiMoves
  <2>2. /\ owner' \in [Contacts -> Owner] /\ overtaken' \subseteq (Passes \cup Desks) \X Contacts
    BY <2>1, GoesType
  <2>3. QED
    BY <1>2, <2>2 DEF WatiMoves, TypeOK, store, tasks
<1>3. CASE SelectWindow
  BY <1>3, SelectEffect DEF SelectWindow, TypeOK, Put, wati, store, ghosts, counts
<1>4. CASE EndReread
  <2>1. Moves(Board, "gather") /\ Board \in Passes
    BY <1>4, NamesAssumption DEF EndReread, Moves
  <2>2. Put(Board)
    BY <2>1, MovesEffect
  <2>3. QED
    BY <1>4, <2>2 DEF EndReread, TypeOK, Put, wati, store, ghosts, counts
<1>5. QED
  BY <1>1, <1>2, <1>3, <1>4 DEF WatiStep, BoardStep

LEMMA TypeStutter ==
  ASSUME TypeOK, UNCHANGED vars
  PROVE  TypeOK'
BY DEF TypeOK, vars, wati, store, tasks, ghosts, counts

LEMMA TypeInit ==
  ASSUME Init
  PROVE  TypeOK
BY NoPassType, NoReaderType, NoDeskType DEF Init, TypeOK, Facts, Owner, NoRow, NoFollow, Unread

LEMMA TypeNext ==
  ASSUME TypeOK, [Next]_vars
  PROVE  TypeOK'
BY TypePass, TypeReader, TypeDesk, TypeCrash, TypeOthers, TypeStutter DEF Next

\* The variables hold what they are said to hold, for any number of contacts,
\* passes, re-reads and desks (every writer of the four tables).
THEOREM TypeCorrect == Spec => []TypeOK
<1>1. Init => TypeOK
  BY TypeInit
<1>2. TypeOK /\ [Next]_vars => TypeOK'
  BY TypeNext
<1>3. QED
  BY <1>1, <1>2, PTL DEF Spec

-----------------------------------------------------------------------------
(* Assignments on record *)

Busy(d) == desk[d].pc # "idle"

HasOne(d) == desk[d].pc \in {"call", "update", "log"}

\* No two batches share an id, and none runs ahead of the ids handed out.
BatchesApart ==
  /\ \A d \in Desks : Busy(d) => desk[d].batch \in 1..batches
  /\ \A d, e \in Desks : Busy(d) /\ Busy(e) /\ desk[d].batch = desk[e].batch => d = e

\* A plan has a contact once, and only contacts the batch has not reached yet.
PlansAhead ==
  \A d \in Desks : Busy(d) =>
    /\ \A x \in desk[d].plan : <<desk[d].batch, x[1]>> \notin carried
    /\ \A x, y \in desk[d].plan : x[1] = y[1] => x = y
    /\ HasOne(d) => \A x \in desk[d].plan : x[1] # desk[d].on

\* The log has one row for an assignment, after it was carried out and let go.
LogIsExact ==
  /\ \A x \in carried : x[1] \in 1..batches
  /\ \A l \in sentLog : <<l.batch, l.on>> \in carried
  /\ \A l, m \in sentLog : l.batch = m.batch /\ l.on = m.on => l = m
  /\ \A d \in Desks : HasOne(d) =>
       \A l \in sentLog : ~ (l.batch = desk[d].batch /\ l.on = desk[d].on)

\* Past the call, the assignment has been carried out.
PastTheCall ==
  \A d \in Desks : desk[d].pc \in {"update", "log"} => <<desk[d].batch, desk[d].on>> \in carried

Recorded(x) == (\E l \in sentLog : x = <<l.batch, l.on>>) \/ x \in excused

RecordedThen(x) == (\E l \in sentLog' : x = <<l.batch, l.on>>) \/ x \in excused'

AllRecorded ==
  \A x \in carried :
    Recorded(x) \/ \E d \in Desks : HasOne(d) /\ x = <<desk[d].batch, desk[d].on>>

DeskInv == BatchesApart /\ PlansAhead /\ LogIsExact /\ PastTheCall /\ AllRecorded

LEMMA DeskInvImplies ==
  ASSUME TypeOK, DeskInv
  PROVE  MovesAreOnRecord
BY DEF TypeOK, DeskInv, LogIsExact, AllRecorded, Recorded, HasOne, MovesAreOnRecord, InHand

LEMMA DeskInvInit ==
  ASSUME Init
  PROVE  DeskInv
<1>1. \A d \in Desks : desk[d].pc = "idle"
  BY DEF Init, NoDesk
<1>2. QED
  BY <1>1 DEF Init, DeskInv, BatchesApart, PlansAhead, LogIsExact, PastTheCall, AllRecorded,
              Busy, HasOne

LEMMA DeskInvFrame ==
  ASSUME DeskInv, UNCHANGED <<desk, batches, carried, sentLog, excused>>
  PROVE  DeskInv'
BY DEF DeskInv, BatchesApart, PlansAhead, LogIsExact, PastTheCall, AllRecorded, Recorded,
       Busy, HasOne

LEMMA NewBatchOnRecord ==
  ASSUME TypeOK, DeskInv, NEW d \in Desks, NEW plan \in SUBSET (Contacts \X Owners),
         \A x, y \in plan : x[1] = y[1] => x = y,
         NewBatch(d, plan)
  PROVE  DeskInv'
<1>1. /\ PutDesk(d) /\ desk[d].pc = "idle" /\ desk'[d].pc = "next"
      /\ desk'[d].batch = batches + 1 /\ desk'[d].plan = plan
  BY NewBatchEffect
<1>2. /\ UNCHANGED <<carried, sentLog, excused>> /\ batches' = batches + 1 /\ batches \in Nat
  BY DEF NewBatch, TypeOK
<1>3. BatchesApart'
  BY <1>1, <1>2 DEF DeskInv, BatchesApart, Busy, PutDesk
<1>4. PlansAhead'
  BY <1>1, <1>2 DEF DeskInv, PlansAhead, LogIsExact, Busy, HasOne, PutDesk
<1>5. LogIsExact'
  BY <1>1, <1>2 DEF DeskInv, LogIsExact, HasOne, PutDesk
<1>6. PastTheCall' /\ AllRecorded'
  BY <1>1, <1>2 DEF DeskInv, PastTheCall, AllRecorded, Recorded, HasOne, PutDesk
<1>7. QED
  BY <1>3, <1>4, <1>5, <1>6 DEF DeskInv

\* Contacts are taken off the plan of d, which has none in hand.
LEMMA TrimsOnRecord ==
  ASSUME TypeOK, DeskInv, NEW d \in Desks, PutDesk(d), desk[d].pc = "next",
         desk'[d].pc = "next", desk'[d].batch = desk[d].batch,
         desk'[d].plan \subseteq desk[d].plan,
         UNCHANGED <<batches, carried, sentLog, excused>>
  PROVE  DeskInv'
<1>1. BatchesApart' /\ PlansAhead'
  BY DEF DeskInv, BatchesApart, PlansAhead, Busy, HasOne, PutDesk
<1>2. LogIsExact' /\ PastTheCall' /\ AllRecorded'
  BY DEF DeskInv, LogIsExact, PastTheCall, AllRecorded, Recorded, HasOne, PutDesk
<1>3. QED
  BY <1>1, <1>2 DEF DeskInv

LEMMA LookOnRecord ==
  ASSUME TypeOK, DeskInv, NEW d \in Desks, NEW x \in desk[d].plan, Look(d, x)
  PROVE  DeskInv'
<1>1. /\ PutDesk(d) /\ desk[d].pc = "next" /\ desk'[d].pc = "call"
      /\ desk'[d].batch = desk[d].batch /\ desk'[d].plan = desk[d].plan \ {x}
      /\ desk'[d].on = x[1]
  BY LookEffect
<1>2. UNCHANGED <<batches, carried, sentLog, excused>>
  BY DEF Look
<1>3. <<desk[d].batch, x[1]>> \notin carried
  BY <1>1 DEF DeskInv, PlansAhead, Busy
<1>4. BatchesApart'
  BY <1>1, <1>2 DEF DeskInv, BatchesApart, Busy, PutDesk
<1>5. PlansAhead'
  BY <1>1, <1>2 DEF DeskInv, PlansAhead, Busy, HasOne, PutDesk
<1>6. LogIsExact'
  BY <1>1, <1>2, <1>3 DEF DeskInv, LogIsExact, HasOne, PutDesk
<1>7. PastTheCall' /\ AllRecorded'
  BY <1>1, <1>2 DEF DeskInv, PastTheCall, AllRecorded, Recorded, HasOne, PutDesk
<1>8. QED
  BY <1>4, <1>5, <1>6, <1>7 DEF DeskInv

\* d keeps the contact it has in hand; WATI may have carried the assignment out.
LEMMA InHandOnRecord ==
  ASSUME TypeOK, DeskInv, NEW d \in Desks, PutDesk(d), HasOne(d),
         desk'[d].pc \in {"call", "update", "log"}, desk'[d].batch = desk[d].batch,
         desk'[d].plan = desk[d].plan, desk'[d].on = desk[d].on,
         carried' \in {carried, carried \cup {<<desk[d].batch, desk[d].on>>}},
         desk'[d].pc \in {"update", "log"} => <<desk[d].batch, desk[d].on>> \in carried',
         UNCHANGED <<batches, sentLog, excused>>
  PROVE  DeskInv'
<1>1. BatchesApart'
  BY DEF DeskInv, BatchesApart, Busy, HasOne, PutDesk
<1>2. PlansAhead'
  BY DEF DeskInv, BatchesApart, PlansAhead, Busy, HasOne, PutDesk
<1>3. LogIsExact'
  BY DEF DeskInv, BatchesApart, LogIsExact, Busy, HasOne, PutDesk
<1>4. PastTheCall'
  BY DEF DeskInv, PastTheCall, PutDesk
<1>5. AllRecorded'
  BY DEF DeskInv, AllRecorded, Recorded, HasOne, PutDesk
<1>6. QED
  BY <1>1, <1>2, <1>3, <1>4, <1>5 DEF DeskInv

\* d lets go of the contact it has in hand: not carried out, logged or excused.
LEMMA LetGoOnRecord ==
  ASSUME TypeOK, DeskInv, NEW d \in Desks, PutDesk(d), HasOne(d),
         desk'[d].pc = "next", desk'[d].batch = desk[d].batch, desk'[d].plan = desk[d].plan,
         carried' \in {carried, carried \cup {<<desk[d].batch, desk[d].on>>}},
         excused \subseteq excused',
         \/ UNCHANGED sentLog
         \/ /\ <<desk[d].batch, desk[d].on>> \in carried
            /\ sentLog' = sentLog \cup
                 {[batch |-> desk[d].batch, on |-> desk[d].on, from |-> desk[d].from]},
         <<desk[d].batch, desk[d].on>> \in carried' => RecordedThen(<<desk[d].batch, desk[d].on>>),
         UNCHANGED batches
  PROVE  DeskInv'
<1>1. BatchesApart'
  BY DEF DeskInv, BatchesApart, Busy, HasOne, PutDesk
<1>2. PlansAhead'
  BY DEF DeskInv, BatchesApart, PlansAhead, Busy, HasOne, PutDesk
<1>3. LogIsExact'
  BY DEF DeskInv, BatchesApart, LogIsExact, Busy, HasOne, PutDesk
<1>4. PastTheCall'
  BY DEF DeskInv, PastTheCall, PutDesk
<1>5. AllRecorded'
  BY DEF DeskInv, AllRecorded, Recorded, RecordedThen, HasOne, PutDesk
<1>6. QED
  BY <1>1, <1>2, <1>3, <1>4, <1>5 DEF DeskInv

LEMMA UndoPlan ==
  ASSUME TypeOK, NEW b
  PROVE  {<<l.on, l.from>> : l \in {x \in sentLog : x.batch = b /\ x.from # Nobody}}
           \in SUBSET (Contacts \X Owners)
BY DEF TypeOK, Owner

LEMMA DeskInvDesk ==
  ASSUME TypeOK, DeskInv, NEW d \in Desks, DeskStep(d)
  PROVE  DeskInv'
<1> USE DEF DeskUnchanged
<1>1. ASSUME NEW x \in desk[d].plan, PassOver(d, x) PROVE DeskInv'
  <2>1. PICK Q \in SUBSET (Contacts \X Owners) : Q = desk[d].plan \ {x}
    BY DeskType DEF Desk
  <2>2. Trims(d, Q) /\ desk[d].pc = "next"
    BY <1>1, <2>1 DEF PassOver, Trims
  <2>3. /\ PutDesk(d) /\ desk'[d].pc = "next" /\ desk'[d].batch = desk[d].batch
        /\ desk'[d].plan \subseteq desk[d].plan
    BY <2>1, <2>2, TrimsEffect
  <2>4. QED
    BY <1>1, <2>2, <2>3, TrimsOnRecord DEF PassOver
<1>2. ASSUME NEW x \in desk[d].plan, Look(d, x) PROVE DeskInv'
  BY <1>2, LookOnRecord
<1>3. ASSUME NEW to \in Owners, LookFails(d, to) PROVE DeskInv'
  <2>1. PICK Q \in SUBSET (Contacts \X Owners) : Q = {x \in desk[d].plan : x[2] # to}
    BY DeskType DEF Desk
  <2>2. Trims(d, Q) /\ desk[d].pc = "next"
    BY <1>3, <2>1 DEF LookFails, Trims
  <2>3. /\ PutDesk(d) /\ desk'[d].pc = "next" /\ desk'[d].batch = desk[d].batch
        /\ desk'[d].plan \subseteq desk[d].plan
    BY <2>1, <2>2, TrimsEffect
  <2>4. QED
    BY <1>3, <2>2, <2>3, TrimsOnRecord DEF LookFails
<1>4. CASE Accepted(d)
  <2>1. Goes(d, "update") /\ HasOne(d)
    BY <1>4 DEF Accepted, Goes, HasOne
  <2>2. carried' = carried \cup {<<desk[d].batch, desk[d].on>>}
    BY <1>4 DEF Accepted, CarriesOut
  <2>3. QED
    BY <1>4, <2>1, <2>2, GoesEffect, InHandOnRecord DEF Accepted
<1>5. ASSUME desk[d].pc = "call", GivesUp(d), UNCHANGED <<sentLog, batches>>,
             carried' \in {carried, carried \cup {<<desk[d].batch, desk[d].on>>}}
      PROVE  DeskInv'
  <2>1. PutDesk(d) /\ desk'[d].pc = "next" /\ desk'[d].batch = desk[d].batch
        /\ desk'[d].plan = desk[d].plan /\ HasOne(d)
    BY <1>5, GivesUpEffect DEF HasOne
  <2>2. /\ excused \subseteq excused'
        /\ <<desk[d].batch, desk[d].on>> \in carried' => <<desk[d].batch, desk[d].on>> \in excused'
    BY <1>5 DEF GivesUp
  <2>3. <<desk[d].batch, desk[d].on>> \in carried' => RecordedThen(<<desk[d].batch, desk[d].on>>)
    BY <2>2 DEF RecordedThen
  <2>4. QED
    BY <1>5, <2>1, <2>2, <2>3, LetGoOnRecord
<1>6. CASE Refused(d)
  BY <1>5, <1>6 DEF Refused
<1>7. CASE Unanswered(d)
  <2>1. /\ desk[d].pc = "call" /\ UNCHANGED <<sentLog, batches>>
        /\ carried' \in {carried, carried \cup {<<desk[d].batch, desk[d].on>>}}
    BY <1>7 DEF Unanswered, CarriesOut
  <2>2. CASE desk[d].tries + 1 < Attempts
    <3>1. desk' = [desk EXCEPT ![d].tries = @ + 1] /\ UNCHANGED <<astray, excused>>
      BY <1>7, <2>2 DEF Unanswered
    <3>2. /\ PutDesk(d) /\ desk'[d].pc = "call" /\ desk'[d].batch = desk[d].batch
          /\ desk'[d].plan = desk[d].plan /\ desk'[d].on = desk[d].on /\ HasOne(d)
      BY <2>1, <2>2, <3>1, RetriesEffect DEF HasOne
    <3>3. QED
      BY <2>1, <3>1, <3>2, InHandOnRecord
  <2>3. CASE GivesUp(d)
    BY <1>5, <2>1, <2>3
  <2>4. QED
    BY <1>7, <2>2, <2>3 DEF Unanswered
<1>8. CASE Update(d) \/ UpdateFails(d)
  <2>1. Goes(d, "log") /\ HasOne(d) /\ desk[d].pc = "update"
    BY <1>8 DEF Update, UpdateFails, Goes, HasOne
  <2>2. UNCHANGED <<batches, carried, sentLog, excused>>
    BY <1>8 DEF Update, UpdateFails
  <2>3. <<desk[d].batch, desk[d].on>> \in carried'
    BY <2>1, <2>2 DEF DeskInv, PastTheCall
  <2>4. QED
    BY <2>1, <2>2, <2>3, GoesEffect, InHandOnRecord
<1>9. CASE logRow(d)
  <2>1. /\ PutDesk(d) /\ desk'[d].pc = "next" /\ desk'[d].batch = desk[d].batch
        /\ desk'[d].plan = desk[d].plan /\ HasOne(d)
    BY <1>9, NextEffect DEF logRow, HasOne
  <2>2. <<desk[d].batch, desk[d].on>> \in carried
    BY <1>9 DEF logRow, DeskInv, PastTheCall
  <2>3. /\ UNCHANGED <<batches, carried, excused>>
        /\ sentLog' = sentLog \cup
             {[batch |-> desk[d].batch, on |-> desk[d].on, from |-> desk[d].from]}
    BY <1>9 DEF logRow
  <2>4. RecordedThen(<<desk[d].batch, desk[d].on>>)
    <3> DEFINE l == [batch |-> desk[d].batch, on |-> desk[d].on, from |-> desk[d].from]
    <3>1. l.batch = desk[d].batch /\ l.on = desk[d].on
      OBVIOUS
    <3>2. l \in sentLog'
      BY <2>3
    <3> HIDE DEF l
    <3>3. QED
      BY <3>1, <3>2 DEF RecordedThen
  <2>5. QED
    BY <2>1, <2>2, <2>3, <2>4, LetGoOnRecord
<1>10. CASE logRowFails(d)
  <2>1. /\ PutDesk(d) /\ desk'[d].pc = "next" /\ desk'[d].batch = desk[d].batch
        /\ desk'[d].plan = desk[d].plan /\ HasOne(d)
    BY <1>10, NextEffect DEF logRowFails, HasOne
  <2>2. /\ UNCHANGED <<batches, carried, sentLog>>
        /\ excused' = excused \cup {<<desk[d].batch, desk[d].on>>}
    BY <1>10 DEF logRowFails
  <2>3. RecordedThen(<<desk[d].batch, desk[d].on>>)
    BY <2>2 DEF RecordedThen
  <2>4. QED
    BY <2>1, <2>2, <2>3, LetGoOnRecord
<1>11. CASE EndBatch(d)
  <2>1. PutDesk(d) /\ desk'[d].pc = "idle" /\ desk[d].pc = "next"
    BY <1>11, EndBatchEffect, NoDeskType DEF EndBatch
  <2>2. UNCHANGED <<batches, carried, sentLog, excused>>
    BY <1>11 DEF EndBatch
  <2>3. BatchesApart' /\ PlansAhead'
    BY <2>1, <2>2 DEF DeskInv, BatchesApart, PlansAhead, Busy, HasOne, PutDesk
  <2>4. LogIsExact' /\ PastTheCall' /\ AllRecorded'
    BY <2>1, <2>2 DEF DeskInv, LogIsExact, PastTheCall, AllRecorded, Recorded, HasOne, PutDesk
  <2>5. QED
    BY <2>3, <2>4 DEF DeskInv
<1>12. ASSUME NEW S \in SUBSET Contacts, NEW to \in Owners, Assign(d, S, to) PROVE DeskInv'
  <2>1. PICK Q \in SUBSET (Contacts \X Owners) : Q = S \X {to}
    OBVIOUS
  <2>2. \A x, y \in Q : x[1] = y[1] => x = y
    BY <2>1
  <2>3. QED
    BY <1>12, <2>1, <2>2, NewBatchOnRecord DEF Assign
<1>13. ASSUME NEW b \in 1..batches, Undo(d, b) PROVE DeskInv'
  <2>1. PICK Q \in SUBSET (Contacts \X Owners) :
          Q = {<<l.on, l.from>> : l \in {x \in sentLog : x.batch = b /\ x.from # Nobody}}
    BY UndoPlan
  <2>2. \A x, y \in Q : x[1] = y[1] => x = y
    BY <2>1 DEF DeskInv, LogIsExact
  <2>3. QED
    BY <1>13, <2>1, <2>2, NewBatchOnRecord DEF Undo
<1>14. QED
  BY <1>1, <1>2, <1>3, <1>4, <1>6, <1>7, <1>8, <1>9, <1>10, <1>11, <1>12, <1>13 DEF DeskStep

LEMMA DeskInvCrash ==
  ASSUME TypeOK, DeskInv, Crash
  PROVE  DeskInv'
<1>1. \A d \in Desks : desk'[d].pc = "idle"
  BY DEF Crash, NoDesk
<1>2. /\ UNCHANGED <<batches, carried, sentLog>>
      /\ excused' = excused \cup (carried \cap UNION {InHand(d) : d \in Desks})
  BY DEF Crash, store
<1>3. BatchesApart' /\ PlansAhead' /\ PastTheCall'
  BY <1>1 DEF BatchesApart, PlansAhead, PastTheCall, Busy
<1>4. LogIsExact'
  BY <1>1, <1>2 DEF DeskInv, LogIsExact, HasOne
<1>5. AllRecorded'
  BY <1>2 DEF DeskInv, AllRecorded, Recorded, HasOne, InHand
<1>6. QED
  BY <1>3, <1>4, <1>5 DEF DeskInv

LEMMA DeskInvNext ==
  ASSUME TypeOK, DeskInv, [Next]_vars
  PROVE  DeskInv'
<1>1. ASSUME NEW p \in Passes, PassStep(p) PROVE UNCHANGED <<desk, batches, carried, sentLog, excused>>
  BY <1>1 DEF PassStep, StartPass, ListPage, BuildRow, BuildRowMisread, Flush, EndScan,
       ScanFails, Gather, Snapshot, PassFails, store, ghosts
<1>2. ASSUME NEW r \in Readers, ReaderStep(r) PROVE UNCHANGED <<desk, batches, carried, sentLog, excused>>
  BY <1>2 DEF ReaderStep, View, Reread, Fetch, FetchRateLimited, SyncMeta, SyncRow, SyncFails, store, ghosts
<1>3. WatiStep \/ BoardStep => UNCHANGED <<desk, batches, carried, sentLog, excused>>
  BY DEF WatiStep, BoardStep, NewMessage, WatiMoves, SelectWindow, EndReread, store, ghosts, tasks
<1>4. UNCHANGED vars => UNCHANGED <<desk, batches, carried, sentLog, excused>>
  BY DEF vars, store, tasks, ghosts
<1>5. QED
  BY <1>1, <1>2, <1>3, <1>4, DeskInvFrame, DeskInvDesk, DeskInvCrash DEF Next

\* watiAssign.js:10-11: every assignment WATI carried out has its row in the log, and no
\* other has one, except for what a lost answer, a failed insert or a crash kept out.
THEOREM MovesOnRecord == Spec => []MovesAreOnRecord
<1>1. Init => TypeOK /\ DeskInv
  BY TypeInit, DeskInvInit
<1>2. TypeOK /\ DeskInv /\ [Next]_vars => TypeOK' /\ DeskInv'
  BY TypeNext, DeskInvNext
<1>3. TypeOK /\ DeskInv => MovesAreOnRecord
  BY DeskInvImplies
<1>4. QED
  BY <1>1, <1>2, <1>3, PTL DEF Spec

-----------------------------------------------------------------------------
(* The list of a pass *)

\* A contact is not on a page yet, or on this one, or in one of the two groups; and
\* message facts await their flush for those read with their messages alone.
ListedOnce ==
  \A p \in Passes :
    /\ pass[p].unlisted \cap (pass[p].todo \cup pass[p].full \cup pass[p].part) = {}
    /\ pass[p].todo \cap (pass[p].full \cup pass[p].part) = {}
    /\ pass[p].full \cap pass[p].part = {}
    /\ \A c \in Contacts : c \in pass[p].full <=> pass[p].facts[c] # Unread

\* The passes keep what they have in hand, or let go of it.
LEMMA ListedFrame ==
  ASSUME ListedOnce, NEW p \in Passes, Put(p), Keeps(p) \/ Empty(p)
  PROVE  ListedOnce'
BY DEF ListedOnce, Put, Keeps, Empty

LEMMA FlushSets ==
  ASSUME TypeOK, NEW p \in Passes, Flush(p)
  PROVE  \E S \in SUBSET Contacts, m \in BOOLEAN :
           flush(p, S, m) /\ S \in {pass[p].full, pass[p].part}
BY PassType DEF Flush, Pass

LEMMA ListedPass ==
  ASSUME TypeOK, ListedOnce, NEW p \in Passes, PassStep(p)
  PROVE  ListedOnce'
<1>1. CASE StartPass(p)
  <2>1. /\ Put(p) /\ pass'[p].todo = {} /\ pass'[p].full = {} /\ pass'[p].part = {}
        /\ pass'[p].facts = [c \in Contacts |-> Unread]
    BY <1>1, StartPassEffect
  <2>2. \A c \in Contacts : pass'[p].facts[c] = Unread
    BY <2>1
  <2>3. QED
    BY <2>1, <2>2 DEF ListedOnce, Put
<1>2. CASE ListPage(p)
  <2>1. pass[p].todo = {}
    BY <1>2 DEF ListPage
  <2>2. QED
    BY <1>2, <2>1, ListPageEffect DEF ListedOnce, Put
<1>3. CASE Flush(p)
  <2>1. PICK S \in SUBSET Contacts, m \in BOOLEAN :
          flush(p, S, m) /\ S \in {pass[p].full, pass[p].part}
    BY <1>3, FlushSets
  <2>2. /\ Put(p) /\ pass'[p].unlisted = pass[p].unlisted /\ pass'[p].todo = pass[p].todo
        /\ pass'[p].full = pass[p].full \ S /\ pass'[p].part = pass[p].part \ S
        /\ \A c \in Contacts :
             pass'[p].facts[c] = IF c \in S THEN Unread ELSE pass[p].facts[c]
    BY <2>1, WrittenIs DEF flush
  <2>3. QED
    BY <2>2 DEF ListedOnce, Put
<1>4. CASE EndScan(p)
  BY <1>4, EndScanEffect, ListedFrame
<1>5. CASE ScanFails(p)
  BY <1>5, ScanFailsEffect, ListedFrame
<1>6. ASSUME NEW c \in Contacts, BuildRow(p, c) \/ BuildRowMisread(p, c) PROVE ListedOnce'
  <2>1. c \in pass[p].todo /\ thread[c] # Unread /\ 0 # Unread
    BY <1>6 DEF BuildRow, BuildRowMisread, TypeOK, Unread
  <2>2. pass[p].facts \in [Contacts -> Facts]
    BY PassType DEF Pass
  <2>3. /\ Put(p) /\ pass'[p].unlisted = pass[p].unlisted /\ pass'[p].todo = pass[p].todo \ {c}
        /\ \/ /\ pass'[p].full = pass[p].full \cup {c} /\ pass'[p].part = pass[p].part
              /\ \E n \in {thread[c], 0} : pass'[p].facts = [pass[p].facts EXCEPT ![c] = n]
           \/ /\ pass'[p].full = pass[p].full /\ pass'[p].part = pass[p].part \cup {c}
              /\ pass'[p].facts = pass[p].facts
    BY <1>6, BuildRowEffect
  <2>4. \A x \in Contacts : x \in pass'[p].full <=> pass'[p].facts[x] # Unread
    BY <2>1, <2>2, <2>3 DEF ListedOnce
  <2>5. /\ pass'[p].unlisted \cap (pass'[p].todo \cup pass'[p].full \cup pass'[p].part) = {}
        /\ pass'[p].todo \cap (pass'[p].full \cup pass'[p].part) = {}
        /\ pass'[p].full \cap pass'[p].part = {}
    BY <2>1, <2>3 DEF ListedOnce
  <2>6. QED
    BY <2>3, <2>4, <2>5 DEF ListedOnce, Put
<1>7. CASE Gather(p)
  BY <1>7, GatherEffect, ListedFrame
<1>8. CASE Snapshot(p) \/ PassFails(p)
  BY <1>8, OffEffect, ListedFrame DEF Snapshot, PassFails
<1>9. QED
  BY <1>1, <1>2, <1>3, <1>4, <1>5, <1>6, <1>7, <1>8 DEF PassStep

\* What a step of syncOne, or of boardRefresh itself, makes of the passes.
LEMMA ReaderPasses ==
  ASSUME TypeOK, NEW r \in Readers, ReaderStep(r)
  PROVE  Put(Board) /\ Keeps(Board)
<1>1. CASE UNCHANGED pass
  BY <1>1 DEF TypeOK, Put, Keeps
<1>2. ASSUME NEW c \in Contacts, Reread(r, c) PROVE Put(Board) /\ Keeps(Board)
  BY <1>2, TakenEffect
<1>3. ASSUME NEW ok \in BOOLEAN, Returns(r, ok), reader[r].pc # "idle"
      PROVE  Put(Board) /\ Keeps(Board)
  BY <1>3, ReturnsEffect
<1>4. QED
  BY <1>1, <1>2, <1>3 DEF ReaderStep, View, Fetch, FetchRateLimited, SyncMeta, SyncRow, SyncFails

LEMMA BoardPasses ==
  ASSUME TypeOK, BoardStep
  PROVE  Put(Board) /\ Keeps(Board)
<1>1. EndReread => Moves(Board, "gather")
  BY DEF EndReread, Moves
<1>2. QED
  BY <1>1, SelectEffect, MovesEffect, NamesAssumption DEF BoardStep

LEMMA ListedNext ==
  ASSUME TypeOK, ListedOnce, [Next]_vars
  PROVE  ListedOnce'
<1>1. CASE UNCHANGED pass
  BY <1>1 DEF ListedOnce
<1>2. WatiStep => UNCHANGED pass
  BY DEF WatiStep, NewMessage, WatiMoves, tasks
<1>3. ASSUME NEW d \in Desks, DeskStep(d) PROVE UNCHANGED pass
  BY <1>3 DEF DeskStep, DeskUnchanged, Assign, Undo, NewBatch, PassOver, Look, LookFails, Accepted,
       Refused, Unanswered, Update, UpdateFails, logRow, logRowFails, EndBatch
<1>4. CASE Crash
  <2>1. pass' = [p \in Passes |-> NoPass]
    BY <1>4 DEF Crash
  <2>2. QED
    BY <2>1 DEF ListedOnce, NoPass
<1>5. ASSUME NEW r \in Readers, ReaderStep(r) PROVE ListedOnce'
  BY <1>5, ReaderPasses, ListedFrame, NamesAssumption
<1>6. CASE BoardStep
  BY <1>6, BoardPasses, ListedFrame, NamesAssumption
<1>7. UNCHANGED vars => UNCHANGED pass
  BY DEF vars, tasks
<1>8. QED
  BY <1>1, <1>2, <1>3, <1>4, <1>5, <1>6, <1>7, ListedPass DEF Next

LEMMA ListedInit ==
  ASSUME Init
  PROVE  ListedOnce
BY DEF Init, NoPass, ListedOnce

-----------------------------------------------------------------------------
(* Owners *)

PassHolds(p, c) == c \in pass[p].todo \cup pass[p].full \cup pass[p].part

DeskHolds(d, c) ==
  desk[d].on = c /\ <<desk[d].batch, c>> \in carried /\ desk[d].pc \in {"call", "update"}

\* What a pass or a batch is about to store of an owner is right until it is overtaken.
PassesSee ==
  \A p \in Passes, c \in Contacts :
    PassHolds(p, c) /\ <<p, c>> \notin overtaken => pass[p].seen[c] = owner[c]

DesksSee ==
  \A d \in Desks, c \in Contacts :
    DeskHolds(d, c) /\ <<d, c>> \notin overtaken => desk[d].to = owner[c]

RowsAgree ==
  \A c \in Contacts \ astray :
    row[c].here /\ (\A d \in Desks : ~ DeskHolds(d, c)) => row[c].owner = owner[c]

OwnerInv == PassesSee /\ DesksSee /\ RowsAgree

LEMMA HoldsIs ==
  /\ \A p \in Passes, c \in Contacts : HoldsOwner(p, c) <=> PassHolds(p, c)
  /\ \A d \in Desks, c \in Contacts : HoldsOwner(d, c) <=> DeskHolds(d, c)
BY NamesAssumption DEF HoldsOwner, PassHolds, DeskHolds

LEMMA OwnerInvImplies ==
  ASSUME OwnerInv
  PROVE  OwnerAgrees
BY HoldsIs DEF OwnerInv, RowsAgree, OwnerAgrees

LEMMA OwnerInvInit ==
  ASSUME Init
  PROVE  OwnerInv
<1>1. /\ \A p \in Passes : pass[p].todo = {} /\ pass[p].full = {} /\ pass[p].part = {}
      /\ \A d \in Desks : desk[d].pc = "idle"
      /\ \A c \in Contacts : ~row[c].here
  BY DEF Init, NoPass, NoDesk, NoRow
<1>2. QED
  BY <1>1 DEF OwnerInv, PassesSee, DesksSee, RowsAgree, PassHolds, DeskHolds

\* Rows keep their owner.
SameOwners ==
  \A c \in Contacts : row'[c].here = row[c].here /\ row'[c].owner = row[c].owner

\* A pass takes owners from WATI and lets owners go.
LEMMA PassSees ==
  ASSUME OwnerInv, NEW p \in Passes, Put(p), SameOwners,
         UNCHANGED <<owner, desk, carried, astray>>,
         \A x \in overtaken : x[1] # p => x \in overtaken',
         \A c \in Contacts : PassHolds(p, c)' =>
           \/ pass'[p].seen[c] = owner[c]
           \/ /\ PassHolds(p, c) /\ pass'[p].seen[c] = pass[p].seen[c]
              /\ overtaken' = overtaken
  PROVE  OwnerInv'
<1>1. PassesSee'
  <2>1. SUFFICES ASSUME NEW q \in Passes, NEW c \in Contacts,
                        PassHolds(q, c)', <<q, c>> \notin overtaken'
                 PROVE  pass'[q].seen[c] = owner[c]
    BY DEF PassesSee
  <2>2. CASE q = p
    BY <2>1, <2>2 DEF OwnerInv, PassesSee
  <2>3. CASE q # p
    <3>1. PassHolds(q, c) /\ pass'[q] = pass[q]
      BY <2>1, <2>3 DEF Put, PassHolds
    <3>2. <<q, c>> \notin overtaken
      BY <2>1, <2>3
    <3>3. QED
      BY <3>1, <3>2 DEF OwnerInv, PassesSee
  <2>4. QED
    BY <2>2, <2>3
<1>2. DesksSee'
  <2>1. SUFFICES ASSUME NEW d \in Desks, NEW c \in Contacts,
                        DeskHolds(d, c)', <<d, c>> \notin overtaken'
                 PROVE  desk'[d].to = owner'[c]
    BY DEF DesksSee
  <2>2. DeskHolds(d, c) /\ d # p
    BY <2>1, NamesAssumption DEF DeskHolds
  <2>3. <<d, c>> \notin overtaken
    BY <2>1, <2>2
  <2>4. QED
    BY <2>2, <2>3 DEF OwnerInv, DesksSee
<1>3. RowsAgree'
  BY DEF OwnerInv, RowsAgree, DeskHolds, SameOwners
<1>4. QED
  BY <1>1, <1>2, <1>3 DEF OwnerInv

\* Nothing an owner depends on has changed.
LEMMA OwnerFrame ==
  ASSUME OwnerInv, SameOwners, NEW p \in Passes, Put(p), Keeps(p),
         UNCHANGED <<owner, desk, carried, astray, overtaken>>
  PROVE  OwnerInv'
BY PassSees DEF Keeps, PassHolds

LEMMA OwnerFlush ==
  ASSUME TypeOK, ListedOnce, OwnerInv, NEW p \in Passes, NEW S \in SUBSET Contacts,
         S \subseteq pass[p].full \cup pass[p].part,
         NEW m \in BOOLEAN, flush(p, S, m),
         UNCHANGED <<owner, desk, carried>>
  PROVE  OwnerInv'
<1>1. /\ Put(p) /\ pass'[p].todo = pass[p].todo
      /\ pass'[p].full = pass[p].full \ S /\ pass'[p].part = pass[p].part \ S
      /\ \A c \in Contacts \ S : pass'[p].seen[c] = pass[p].seen[c]
  BY WrittenIs DEF flush
<1>2. /\ overtaken' = overtaken \ ({p} \X S)
      /\ astray' = (astray \ S) \cup {c \in S : <<p, c>> \in overtaken}
  BY DEF flush, StoresOwners
<1>3. /\ \A c \in S : row'[c].here /\ row'[c].owner = pass[p].seen[c]
      /\ \A c \in Contacts \ S : row'[c] = row[c]
  BY DEF flush
<1>4. PassesSee'
  <2>1. SUFFICES ASSUME NEW q \in Passes, NEW c \in Contacts,
                        PassHolds(q, c)', <<q, c>> \notin overtaken'
                 PROVE  pass'[q].seen[c] = owner[c]
    BY DEF PassesSee
  <2>2. CASE q = p
    <3>1. CASE c \in S
      BY <1>1, <2>1, <2>2, <3>1 DEF PassHolds, ListedOnce
    <3>2. CASE c \notin S
      BY <1>1, <1>2, <2>1, <2>2, <3>2 DEF PassHolds, OwnerInv, PassesSee
    <3>3. QED
      BY <3>1, <3>2
  <2>3. CASE q # p
    BY <1>1, <1>2, <2>1, <2>3 DEF Put, PassHolds, OwnerInv, PassesSee
  <2>4. QED
    BY <2>2, <2>3
<1>5. DesksSee'
  BY <1>2, NamesAssumption DEF OwnerInv, DesksSee, DeskHolds
<1>6. RowsAgree'
  <2>1. SUFFICES ASSUME NEW c \in Contacts, c \notin astray', row'[c].here,
                        \A d \in Desks : ~ DeskHolds(d, c)'
                 PROVE  row'[c].owner = owner[c]
    BY DEF RowsAgree
  <2>2. CASE c \in S
    <3>1. PassHolds(p, c) /\ <<p, c>> \notin overtaken
      BY <1>2, <2>1, <2>2 DEF PassHolds
    <3>2. QED
      BY <1>3, <2>2, <3>1 DEF OwnerInv, PassesSee
  <2>3. CASE c \notin S
    BY <1>2, <1>3, <2>1, <2>3 DEF OwnerInv, RowsAgree, DeskHolds
  <2>4. QED
    BY <2>2, <2>3
<1>7. QED
  BY <1>4, <1>5, <1>6 DEF OwnerInv

LEMMA OwnerPass ==
  ASSUME TypeOK, ListedOnce, OwnerInv, NEW p \in Passes, PassStep(p)
  PROVE  OwnerInv'
<1>1. CASE Flush(p)
  <2>1. PICK S \in SUBSET Contacts, m \in BOOLEAN :
          flush(p, S, m) /\ S \in {pass[p].full, pass[p].part}
    BY <1>1, FlushSets
  <2>2. UNCHANGED <<owner, desk, carried>>
    BY <1>1 DEF Flush, wati
  <2>3. QED
    BY <2>1, <2>2, OwnerFlush
<1>2. CASE ~Flush(p)
  <2>1. UNCHANGED <<owner, row, desk, carried, astray>>
    BY <1>2 DEF PassStep, StartPass, ListPage, BuildRow, BuildRowMisread, EndScan, ScanFails, Gather,
         Snapshot, PassFails, wati, store, ghosts
  <2>2. /\ Put(p)
        /\ \A x \in overtaken : x[1] # p => x \in overtaken'
        /\ \A c \in Contacts : PassHolds(p, c)' =>
             \/ pass'[p].seen[c] = owner[c]
             \/ /\ PassHolds(p, c) /\ pass'[p].seen[c] = pass[p].seen[c]
                /\ overtaken' = overtaken
    <3>1. ASSUME overtaken' = overtaken, Put(p), Keeps(p) \/ Empty(p) PROVE <2>2!:
      BY <3>1 DEF Keeps, Empty, PassHolds
    <3>2. CASE StartPass(p)
      BY <3>2, StartPassEffect DEF PassHolds, StartPass, ghosts
    <3>3. CASE ListPage(p)
      <4>1. pass[p].todo = {} /\ overtaken' = overtaken
        BY <3>3 DEF ListPage, ghosts
      <4>2. QED
        BY <3>3, <4>1, ListPageEffect DEF PassHolds
    <3>4. CASE EndScan(p)
      BY <3>1, <3>4, EndScanEffect DEF EndScan, ghosts
    <3>5. CASE ScanFails(p)
      BY <3>5, ScanFailsEffect DEF PassHolds, Empty, ScanFails, Drops
    <3>6. ASSUME NEW c \in Contacts, BuildRow(p, c) \/ BuildRowMisread(p, c) PROVE <2>2!:
      <4>1. c \in pass[p].todo /\ overtaken' = overtaken
        BY <3>6 DEF BuildRow, BuildRowMisread
      <4>2. /\ Put(p) /\ pass'[p].seen = pass[p].seen /\ pass'[p].todo \subseteq pass[p].todo
            /\ pass'[p].full \subseteq pass[p].full \cup {c}
            /\ pass'[p].part \subseteq pass[p].part \cup {c}
        BY <3>6, BuildRowEffect
      <4>3. QED
        BY <4>1, <4>2 DEF PassHolds
    <3>7. CASE Gather(p)
      BY <3>1, <3>7, GatherEffect DEF Gather
    <3>8. CASE Snapshot(p) \/ PassFails(p)
      BY <3>1, <3>8, OffEffect DEF Snapshot, PassFails, ghosts
    <3>9. QED
      BY <1>2, <3>2, <3>3, <3>4, <3>5, <3>6, <3>7, <3>8 DEF PassStep
  <2>3. SameOwners
    BY <2>1 DEF SameOwners
  <2>4. QED
    BY <2>1, <2>2, <2>3, PassSees
<1>3. QED
  BY <1>1, <1>2

LEMMA OwnerReader ==
  ASSUME TypeOK, OwnerInv, NEW r \in Readers, ReaderStep(r)
  PROVE  OwnerInv'
<1>1. UNCHANGED <<owner, desk, carried, astray, overtaken>>
  BY DEF ReaderStep, View, Reread, Fetch, FetchRateLimited, SyncMeta, SyncRow, SyncFails, wati, ghosts
<1>2. SameOwners
  <2>1. CASE SyncRow(r)
    <3>1. PICK c \in Contacts : c = reader[r].on
      BY <2>1, ReaderType DEF SyncRow
    <3>2. PICK s : row' = IF row[c].here
                          THEN [row EXCEPT ![c].facts = reader[r].len, ![c].score = s] ELSE row
      BY <2>1, <3>1 DEF SyncRow
    <3>3. row[c] \in [here : BOOLEAN, owner : Owner, facts : Facts, score : Facts]
      BY DEF TypeOK
    <3>4. \A x \in Contacts : row'[x].here = row[x].here /\ row'[x].owner = row[x].owner
      BY <3>2, <3>3 DEF TypeOK
    <3>5. QED
      BY <3>4 DEF SameOwners
  <2>2. CASE UNCHANGED row
    BY <2>2 DEF SameOwners
  <2>3. QED
    BY <2>1, <2>2 DEF ReaderStep, View, Reread, Fetch, FetchRateLimited, SyncMeta, SyncRow, SyncFails, store
<1>3. QED
  BY <1>1, <1>2, ReaderPasses, OwnerFrame, NamesAssumption

\* WATI moves an owner, at the request of d or by its own users.
LEMMA OwnerMoved ==
  ASSUME TypeOK, OwnerInv, NEW c \in Contacts, NEW to, NEW mover, OwnerGoes(c, to, mover)
  PROVE  /\ \A x \in Contacts \ {c} : owner'[x] = owner[x]
         /\ owner'[c] = to
         /\ \A h \in Passes \cup Desks, x \in Contacts :
              h # mover /\ <<h, x>> \notin overtaken' =>
                <<h, x>> \notin overtaken /\ (x = c => ~HoldsOwner(h, c))
BY DEF OwnerGoes, TypeOK

LEMMA OwnerWati ==
  ASSUME TypeOK, OwnerInv, NEW c \in Contacts, NEW to \in Owners, WatiMoves(c, to)
  PROVE  OwnerInv'
<1>1. OwnerGoes(c, to, Nobody) /\ astray' = astray \cup {c} /\ UNCHANGED <<row, pass, desk, carried>>
  BY DEF WatiMoves, store, tasks
<1>2. \A h \in Passes \cup Desks : h # Nobody
  BY NamesAssumption
<1>3. /\ \A x \in Contacts \ {c} : owner'[x] = owner[x]
      /\ \A h \in Passes \cup Desks, x \in Contacts :
           <<h, x>> \notin overtaken' =>
             <<h, x>> \notin overtaken /\ (x = c => ~HoldsOwner(h, c))
  BY <1>1, <1>2, OwnerMoved
<1>4. PassesSee'
  BY <1>1, <1>3, HoldsIs DEF OwnerInv, PassesSee, PassHolds
<1>5. DesksSee'
  BY <1>1, <1>3, HoldsIs DEF OwnerInv, DesksSee, DeskHolds
<1>6. RowsAgree'
  BY <1>1, <1>3 DEF OwnerInv, RowsAgree, DeskHolds
<1>7. QED
  BY <1>4, <1>5, <1>6 DEF OwnerInv

LEMMA OwnerCrash ==
  ASSUME TypeOK, OwnerInv, Crash
  PROVE  OwnerInv'
<1>1. /\ \A p \in Passes : pass'[p].todo = {} /\ pass'[p].full = {} /\ pass'[p].part = {}
      /\ \A d \in Desks : desk'[d].pc = "idle"
  BY DEF Crash, NoPass, NoDesk
<1>2. UNCHANGED <<owner, row>> /\ astray' = astray \cup {c \in Contacts : \E d \in Desks : HoldsOwner(d, c)}
  BY DEF Crash, wati, store
<1>3. PassesSee' /\ DesksSee'
  BY <1>1 DEF PassesSee, DesksSee, PassHolds, DeskHolds
<1>4. RowsAgree'
  BY <1>2, HoldsIs DEF OwnerInv, RowsAgree
<1>5. QED
  BY <1>3, <1>4 DEF OwnerInv

\* d holds what it held, or holds nothing; no owner moves at WATI.
LEMMA DeskQuiet ==
  ASSUME TypeOK, OwnerInv, NEW d \in Desks, PutDesk(d),
         UNCHANGED <<pass, owner, row, carried, overtaken, astray>>,
         \A c \in Contacts : DeskHolds(d, c)' <=> DeskHolds(d, c),
         \A c \in Contacts : DeskHolds(d, c)' => desk'[d].to = desk[d].to
  PROVE  OwnerInv'
<1>1. \A e \in Desks \ {d}, c \in Contacts : DeskHolds(e, c)' <=> DeskHolds(e, c)
  BY DEF PutDesk, DeskHolds
<1>2. PassesSee'
  BY DEF OwnerInv, PassesSee, PassHolds
<1>3. DesksSee'
  BY <1>1 DEF OwnerInv, DesksSee, PutDesk
<1>4. RowsAgree'
  BY <1>1 DEF OwnerInv, RowsAgree
<1>5. QED
  BY <1>2, <1>3, <1>4 DEF OwnerInv

\* WATI carries the assignment of d out, and d keeps it in hand or lets it go astray.
LEMMA DeskCarries ==
  ASSUME TypeOK, DeskInv, OwnerInv, NEW d \in Desks, PutDesk(d), desk[d].pc = "call",
         CarriesOut(d), UNCHANGED <<pass, row>>,
         astray \subseteq astray',
         \/ /\ desk'[d].pc \in {"call", "update"} /\ desk'[d].batch = desk[d].batch
            /\ desk'[d].on = desk[d].on /\ desk'[d].to = desk[d].to
         \/ desk'[d].pc = "next" /\ desk[d].on \in astray'
  PROVE  OwnerInv'
<1>1. PICK c \in Contacts, to \in Owner : c = desk[d].on /\ to = desk[d].to
  BY DeskType DEF Desk
<1>2. OwnerGoes(c, to, d) /\ carried' = carried \cup {<<desk[d].batch, c>>}
  BY <1>1 DEF CarriesOut
<1>3. /\ \A x \in Contacts \ {c} : owner'[x] = owner[x]
      /\ owner'[c] = to
      /\ \A h \in Passes \cup Desks, x \in Contacts :
           h # d /\ <<h, x>> \notin overtaken' =>
             <<h, x>> \notin overtaken /\ (x = c => ~HoldsOwner(h, c))
  BY <1>2, OwnerMoved
<1>4. \A e \in Desks \ {d}, x \in Contacts : DeskHolds(e, x)' <=> DeskHolds(e, x)
  BY <1>2 DEF PutDesk, DeskHolds, DeskInv, BatchesApart, Busy
<1>5. \A x \in Contacts : DeskHolds(d, x) => x = c
  BY <1>1 DEF DeskHolds
<1>6. c \in astray' \/ DeskHolds(d, c)'
  BY <1>1, <1>2 DEF DeskHolds
<1>7. PassesSee'
  BY <1>3, HoldsIs, NamesAssumption DEF OwnerInv, PassesSee, PassHolds
<1>8. DesksSee'
  <2>1. SUFFICES ASSUME NEW e \in Desks, NEW x \in Contacts,
                        DeskHolds(e, x)', <<e, x>> \notin overtaken'
                 PROVE  desk'[e].to = owner'[x]
    BY DEF DesksSee
  <2>2. CASE e = d
    BY <1>1, <1>3, <2>1, <2>2 DEF DeskHolds
  <2>3. CASE e # d
    <3>1. DeskHolds(e, x) /\ <<e, x>> \notin overtaken /\ x # c
      BY <1>3, <1>4, <2>1, <2>3, HoldsIs
    <3>2. QED
      BY <1>3, <2>3, <3>1 DEF PutDesk, OwnerInv, DesksSee
  <2>4. QED
    BY <2>2, <2>3
<1>9. RowsAgree'
  <2>1. SUFFICES ASSUME NEW x \in Contacts, x \notin astray', row[x].here,
                        \A e \in Desks : ~ DeskHolds(e, x)'
                 PROVE  row[x].owner = owner'[x]
    BY DEF RowsAgree
  <2>2. x # c
    BY <1>6, <2>1
  <2>3. \A e \in Desks : ~ DeskHolds(e, x)
    BY <1>4, <1>5, <2>1, <2>2
  <2>4. QED
    BY <1>3, <2>1, <2>2, <2>3 DEF OwnerInv, RowsAgree
<1>10. QED
  BY <1>7, <1>8, <1>9 DEF OwnerInv

\* d lets go of its contact, and no owner moves: what was carried out is stored or astray.
LEMMA DeskStores ==
  ASSUME TypeOK, OwnerInv, NEW d \in Desks, PutDesk(d),
         desk[d].pc \in {"call", "update"}, desk'[d].pc \in {"next", "log"},
         UNCHANGED <<pass, owner, carried>>,
         \A x \in overtaken : x # <<d, desk[d].on>> => x \in overtaken',
         \A x \in astray : x # desk[d].on => x \in astray',
         \A x \in Contacts :
           /\ row'[x].here = row[x].here
           /\ x # desk[d].on => row'[x].owner = row[x].owner,
         DeskHolds(d, desk[d].on) =>
           \/ desk[d].on \in astray'
           \/ /\ <<d, desk[d].on>> \notin overtaken
              /\ row[desk[d].on].here => row'[desk[d].on].owner = desk[d].to,
         ~DeskHolds(d, desk[d].on) => UNCHANGED <<row, astray>>
  PROVE  OwnerInv'
<1>1. PICK c \in Contacts : c = desk[d].on
  BY DeskType
<1>2. /\ \A e \in Desks \ {d}, x \in Contacts : DeskHolds(e, x)' <=> DeskHolds(e, x)
      /\ \A x \in Contacts : ~DeskHolds(d, x)'
      /\ \A x \in Contacts : DeskHolds(d, x) => x = c
  BY <1>1 DEF PutDesk, DeskHolds
<1>3. PassesSee'
  <2>1. \A p \in Passes, x \in Contacts : <<p, x>> \notin overtaken' => <<p, x>> \notin overtaken
    BY NamesAssumption
  <2>2. QED
    BY <2>1 DEF OwnerInv, PassesSee, PassHolds
<1>4. DesksSee'
  BY <1>2 DEF OwnerInv, DesksSee, PutDesk
<1>5. RowsAgree'
  <2>1. SUFFICES ASSUME NEW x \in Contacts, x \notin astray', row'[x].here,
                        \A e \in Desks : ~ DeskHolds(e, x)'
                 PROVE  row'[x].owner = owner[x]
    BY DEF RowsAgree
  <2>2. CASE x # c
    <3>1. \A e \in Desks : ~ DeskHolds(e, x)
      BY <1>2, <2>1, <2>2
    <3>2. QED
      BY <1>1, <2>1, <2>2, <3>1 DEF OwnerInv, RowsAgree
  <2>3. CASE x = c /\ DeskHolds(d, c)
    BY <1>1, <2>1, <2>3 DEF OwnerInv, DesksSee
  <2>4. CASE x = c /\ ~DeskHolds(d, c)
    <3>1. \A e \in Desks : ~ DeskHolds(e, c)
      BY <1>2, <2>1, <2>4
    <3>2. QED
      BY <1>1, <2>1, <2>4, <3>1 DEF OwnerInv, RowsAgree
  <2>5. QED
    BY <2>2, <2>3, <2>4
<1>6. QED
  BY <1>3, <1>4, <1>5 DEF OwnerInv

LEMMA OwnerDesk ==
  ASSUME TypeOK, DeskInv, OwnerInv, NEW d \in Desks, DeskStep(d)
  PROVE  OwnerInv'
<1> USE DEF DeskUnchanged
<1>1. ASSUME PutDesk(d), desk[d].pc \notin {"call", "update"}, desk'[d].pc \notin {"call", "update"},
             UNCHANGED <<pass, owner, row, carried, overtaken, astray>>
      PROVE  OwnerInv'
  <2>1. \A c \in Contacts : ~DeskHolds(d, c) /\ ~DeskHolds(d, c)'
    BY <1>1 DEF DeskHolds
  <2>2. QED
    BY <1>1, <2>1, DeskQuiet
<1>2. ASSUME NEW plan \in SUBSET (Contacts \X Owners), NewBatch(d, plan) PROVE OwnerInv'
  <2>1. PutDesk(d) /\ desk[d].pc = "idle" /\ desk'[d].pc = "next"
    BY <1>2, NewBatchEffect
  <2>2. QED
    BY <1>1, <1>2, <2>1 DEF NewBatch
<1>3. ASSUME NEW x \in desk[d].plan, PassOver(d, x) PROVE OwnerInv'
  <2>1. PICK Q \in SUBSET (Contacts \X Owners) : Q = desk[d].plan \ {x}
    BY DeskType DEF Desk
  <2>2. Trims(d, Q) /\ desk[d].pc = "next"
    BY <1>3, <2>1 DEF PassOver, Trims
  <2>3. PutDesk(d) /\ desk'[d].pc = "next"
    BY <2>2, TrimsEffect
  <2>4. QED
    BY <1>1, <1>3, <2>2, <2>3 DEF PassOver
<1>4. ASSUME NEW to \in Owners, LookFails(d, to) PROVE OwnerInv'
  <2>1. PICK Q \in SUBSET (Contacts \X Owners) : Q = {x \in desk[d].plan : x[2] # to}
    BY DeskType DEF Desk
  <2>2. Trims(d, Q) /\ desk[d].pc = "next"
    BY <1>4, <2>1 DEF LookFails, Trims
  <2>3. PutDesk(d) /\ desk'[d].pc = "next"
    BY <2>2, TrimsEffect
  <2>4. QED
    BY <1>1, <1>4, <2>2, <2>3 DEF LookFails
<1>5. ASSUME NEW x \in desk[d].plan, Look(d, x) PROVE OwnerInv'
  <2>1. /\ PutDesk(d) /\ desk[d].pc = "next" /\ desk'[d].batch = desk[d].batch
        /\ desk'[d].on = x[1]
    BY <1>5, LookEffect
  <2>2. UNCHANGED <<pass, owner, row, carried, overtaken, astray>>
    BY <1>5 DEF Look
  <2>3. <<desk[d].batch, x[1]>> \notin carried
    BY <2>1 DEF DeskInv, PlansAhead, Busy
  <2>4. \A c \in Contacts : ~DeskHolds(d, c) /\ ~DeskHolds(d, c)'
    BY <2>1, <2>2, <2>3 DEF DeskHolds
  <2>5. QED
    BY <2>1, <2>2, <2>4, DeskQuiet
<1>6. CASE Accepted(d)
  <2>1. Goes(d, "update") /\ desk[d].pc = "call"
    BY <1>6 DEF Accepted, Goes
  <2>2. CarriesOut(d) /\ UNCHANGED <<pass, row, astray>>
    BY <1>6 DEF Accepted
  <2>3. QED
    BY <2>1, <2>2, GoesEffect, DeskCarries
<1>7. ASSUME desk[d].pc = "call", GivesUp(d), UNCHANGED <<pass, owner, carried, row>>,
             \A x \in overtaken : x # <<d, desk[d].on>> => x \in overtaken'
      PROVE  OwnerInv'
  <2>1. PutDesk(d) /\ desk'[d].pc = "next"
    BY <1>7, GivesUpEffect
  <2>2. /\ \A x \in astray : x \in astray'
        /\ DeskHolds(d, desk[d].on) => desk[d].on \in astray'
        /\ ~DeskHolds(d, desk[d].on) => astray' = astray
    BY <1>7 DEF GivesUp, DeskHolds
  <2>3. QED
    BY <1>7, <2>1, <2>2, DeskStores
<1>8. CASE Refused(d)
  <2>1. /\ desk[d].pc = "call" /\ GivesUp(d) /\ UNCHANGED <<pass, owner, carried, row>>
        /\ overtaken' = overtaken \ {<<d, desk[d].on>>}
    BY <1>8 DEF Refused
  <2>2. QED
    BY <1>7, <2>1
<1>9. CASE Unanswered(d)
  <2>1. /\ desk[d].pc = "call" /\ UNCHANGED <<pass, row>>
        /\ CarriesOut(d) \/ UNCHANGED <<owner, carried, overtaken>>
    BY <1>9 DEF Unanswered
  <2>2. CASE desk[d].tries + 1 < Attempts
    <3>1. desk' = [desk EXCEPT ![d].tries = @ + 1] /\ UNCHANGED <<astray, excused>>
      BY <1>9, <2>2 DEF Unanswered
    <3>2. /\ PutDesk(d) /\ desk'[d].pc = "call" /\ desk'[d].batch = desk[d].batch
          /\ desk'[d].on = desk[d].on /\ desk'[d].to = desk[d].to
      BY <2>1, <2>2, <3>1, RetriesEffect
    <3>3. CASE CarriesOut(d)
      BY <2>1, <3>1, <3>2, <3>3, DeskCarries
    <3>4. CASE UNCHANGED <<owner, carried, overtaken>>
      <4>1. \A c \in Contacts : DeskHolds(d, c)' <=> DeskHolds(d, c)
        BY <2>1, <3>2, <3>4 DEF DeskHolds
      <4>2. QED
        BY <2>1, <3>1, <3>2, <3>4, <4>1, DeskQuiet
    <3>5. QED
      BY <2>1, <3>3, <3>4
  <2>3. CASE GivesUp(d)
    <3>1. CASE CarriesOut(d)
      <4>1. desk[d].on \in astray' /\ astray \subseteq astray'
        BY <2>3, <3>1 DEF GivesUp, CarriesOut
      <4>2. PutDesk(d) /\ desk'[d].pc = "next"
        BY <2>1, <2>3, GivesUpEffect
      <4>3. QED
        BY <2>1, <3>1, <4>1, <4>2, DeskCarries
    <3>2. CASE UNCHANGED <<owner, carried, overtaken>>
      BY <1>7, <2>1, <2>3, <3>2
    <3>3. QED
      BY <2>1, <3>1, <3>2
  <2>4. QED
    BY <1>9, <2>2, <2>3 DEF Unanswered
<1>10. CASE Update(d)
  <2>1. Goes(d, "log") /\ desk[d].pc = "update"
    BY <1>10 DEF Update, Goes
  <2>2. PutDesk(d) /\ desk'[d].pc = "log"
    BY <2>1, GoesEffect
  <2>3. PICK c \in Contacts, o \in Owner : c = desk[d].on /\ o = desk[d].to
    BY <2>1, DeskType DEF Desk
  <2>4. /\ \A x \in Contacts : row'[x].here = row[x].here
        /\ \A x \in Contacts : row'[x].owner = IF x = c /\ row[c].here THEN o ELSE row[x].owner
    BY <1>10, <2>3, OwnerRow DEF Update
  <2>5. /\ astray' = (astray \ {c}) \cup {x \in {c} : <<d, x>> \in overtaken}
        /\ overtaken' = overtaken \ ({d} \X {c})
        /\ UNCHANGED <<pass, owner, carried>>
    BY <1>10, <2>3 DEF Update, StoresOwners
  <2>6. DeskHolds(d, c)
    BY <2>1, <2>3 DEF DeskHolds, DeskInv, PastTheCall
  <2>7. \A x \in overtaken : x # <<d, c>> => x \in overtaken'
    BY <2>5
  <2>8. \A x \in astray : x # c => x \in astray'
    BY <2>5
  <2>9. \/ c \in astray'
        \/ <<d, c>> \notin overtaken /\ (row[c].here => row'[c].owner = o)
    BY <2>4, <2>5
  <2>10. QED
    BY <2>1, <2>2, <2>3, <2>4, <2>5, <2>6, <2>7, <2>8, <2>9, DeskStores
<1>11. CASE UpdateFails(d)
  <2>1. Goes(d, "log") /\ desk[d].pc = "update"
    BY <1>11 DEF UpdateFails, Goes
  <2>2. PutDesk(d) /\ desk'[d].pc = "log"
    BY <2>1, GoesEffect
  <2>3. DeskHolds(d, desk[d].on)
    BY <2>1 DEF DeskHolds, DeskInv, PastTheCall
  <2>4. /\ astray' = astray \cup {desk[d].on} /\ overtaken' = overtaken \ {<<d, desk[d].on>>}
        /\ UNCHANGED <<pass, owner, carried, row>>
    BY <1>11 DEF UpdateFails
  <2>5. QED
    BY <2>1, <2>2, <2>3, <2>4, DeskStores
<1>12. CASE logRow(d) \/ logRowFails(d)
  <2>1. PutDesk(d) /\ desk'[d].pc = "next" /\ desk[d].pc = "log"
    BY <1>12, NextEffect DEF logRow, logRowFails
  <2>2. QED
    BY <1>1, <1>12, <2>1 DEF logRow, logRowFails
<1>13. CASE EndBatch(d)
  <2>1. PutDesk(d) /\ desk'[d].pc = "idle" /\ desk[d].pc = "next"
    BY <1>13, EndBatchEffect, NoDeskType DEF EndBatch
  <2>2. QED
    BY <1>1, <1>13, <2>1 DEF EndBatch
<1>14. ASSUME NEW S \in SUBSET Contacts, NEW to \in Owners, Assign(d, S, to) PROVE OwnerInv'
  <2>1. PICK Q \in SUBSET (Contacts \X Owners) : Q = S \X {to}
    OBVIOUS
  <2>2. QED
    BY <1>2, <1>14, <2>1 DEF Assign
<1>15. ASSUME NEW b \in 1..batches, Undo(d, b) PROVE OwnerInv'
  <2>1. PICK Q \in SUBSET (Contacts \X Owners) :
          Q = {<<l.on, l.from>> : l \in {x \in sentLog : x.batch = b /\ x.from # Nobody}}
    BY UndoPlan
  <2>2. QED
    BY <1>2, <1>15, <2>1 DEF Undo
<1>16. QED
  BY <1>3, <1>4, <1>5, <1>6, <1>8, <1>9, <1>10, <1>11, <1>12, <1>13, <1>14, <1>15 DEF DeskStep

LEMMA OwnerNext ==
  ASSUME TypeOK, DeskInv, ListedOnce, OwnerInv, [Next]_vars
  PROVE  OwnerInv'
<1>1. ASSUME UNCHANGED <<row, pass, owner, desk, carried, astray, overtaken>> PROVE OwnerInv'
  BY <1>1 DEF OwnerInv, PassesSee, DesksSee, RowsAgree, PassHolds, DeskHolds
<1>2. ASSUME NEW c \in Contacts, NewMessage(c) PROVE OwnerInv'
  BY <1>1, <1>2 DEF NewMessage, store, tasks, ghosts
<1>3. CASE BoardStep
  <2>1. UNCHANGED <<owner, row, desk, carried, astray, overtaken>>
    BY <1>3 DEF BoardStep, SelectWindow, EndReread, wati, store, ghosts
  <2>2. QED
    BY <1>3, <2>1, BoardPasses, OwnerFrame, NamesAssumption DEF SameOwners
<1>4. UNCHANGED vars => OwnerInv'
  BY <1>1 DEF vars, wati, store, tasks, ghosts
<1>5. QED
  BY <1>2, <1>3, <1>4, OwnerPass, OwnerReader, OwnerDesk, OwnerWati, OwnerCrash
  DEF Next, WatiStep

\* watiAssign.js:104: where nobody moved an owner behind the program's back, and no answer or
\* statement was lost, the owner in our table is the owner at WATI when no assignment of the
\* contact is under way, however passes over the list and assignments interleave.
THEOREM OwnersAgree == Spec => []OwnerAgrees
<1>1. Init => TypeOK /\ DeskInv /\ ListedOnce /\ OwnerInv
  BY TypeInit, DeskInvInit, ListedInit, OwnerInvInit
<1>2. TypeOK /\ DeskInv /\ ListedOnce /\ OwnerInv /\ [Next]_vars
        => TypeOK' /\ DeskInv' /\ ListedOnce' /\ OwnerInv'
  BY TypeNext, DeskInvNext, ListedNext, OwnerNext
<1>3. OwnerInv => OwnerAgrees
  BY OwnerInvImplies
<1>4. QED
  BY <1>1, <1>2, <1>3, PTL DEF Spec

-----------------------------------------------------------------------------
(* Message facts *)

PassOn(p, c) == c \in pass[p].full \cup pass[p].part

ReaderOn(r, c) == reader[r].on = c /\ reader[r].pc \in {"meta", "row"}

\* Of a contact that no two writers overlapped on, one at most is about to write.
OneWriter ==
  \A c \in Contacts \ overlapped :
    /\ \A p, q \in Passes : PassOn(p, c) /\ PassOn(q, c) => p = q
    /\ \A r, s \in Readers : ReaderOn(r, c) /\ ReaderOn(s, c) => r = s
    /\ \A p \in Passes, r \in Readers : ~ (PassOn(p, c) /\ ReaderOn(r, c))

\* Whatever has been read of a conversation, WATI has as much or more.
BehindWati ==
  \A c \in Contacts :
    /\ row[c].facts <= thread[c] /\ meta[c] <= thread[c]
    /\ \A p \in Passes : pass[p].facts[c] <= thread[c]
    /\ \A r \in Readers : ReaderOn(r, c) => reader[r].len <= thread[c]

RowsSound ==
  \A c \in Contacts :
    /\ ~row[c].here => row[c].facts = Unread /\ row[c].score = Unread
    /\ c \notin overlapped => row[c].score = row[c].facts

\* What is about to be written is no less than what is stored.
PassesAhead ==
  \A p \in Passes, c \in Contacts \ (overlapped \cup misread) :
    PassOn(p, c) => pass[p].facts[c] = Unread \/ pass[p].facts[c] >= row[c].facts

ReadersAhead ==
  \A r \in Readers, c \in Contacts \ overlapped :
    /\ ReaderOn(r, c) /\ c \notin misread =>
         /\ reader[r].len >= meta[c]
         /\ reader[r].len >= row[c].facts
    /\ reader[r].on = c /\ reader[r].pc = "row" /\ row[c].here => reader[r].saw

MsgInv == OneWriter /\ BehindWati /\ RowsSound /\ PassesAhead /\ ReadersAhead

Kept ==
  \A c \in Contacts :
    c \notin overlapped' \cup misread' => row'[c].facts >= row[c].facts /\ meta'[c] >= meta[c]

LEMMA MsgTypes ==
  ASSUME TypeOK
  PROVE  /\ \A c \in Contacts :
              /\ thread[c] \in Nat /\ meta[c] \in Int /\ row[c].facts \in Int
              /\ row[c].score \in Int /\ Unread = -1
              /\ meta[c] >= Unread /\ row[c].facts >= Unread
              /\ row[c].here \in BOOLEAN
         /\ \A p \in Passes, c \in Contacts :
              pass[p].facts[c] \in Int /\ pass[p].facts[c] >= Unread
         /\ \A r \in Readers : reader[r].len \in Nat
<1>1. \A p \in Passes : pass[p].facts \in [Contacts -> Facts]
  BY PassType DEF Pass
<1>2. \A r \in Readers : reader[r].len \in Nat
  BY ReaderType DEF Reader
<1>3. \A c \in Contacts : row[c] \in [here : BOOLEAN, owner : Owner, facts : Facts, score : Facts]
  BY DEF TypeOK
<1>4. QED
  BY <1>1, <1>2, <1>3 DEF TypeOK, Facts, Unread

LEMMA MsgInit ==
  ASSUME Init
  PROVE  MsgInv
<1>1. /\ \A p \in Passes : pass[p].full = {} /\ pass[p].part = {}
      /\ \A p \in Passes, c \in Contacts : pass[p].facts[c] = Unread
      /\ \A r \in Readers : reader[r].pc = "idle"
      /\ \A c \in Contacts : ~row[c].here /\ row[c].facts = Unread /\ row[c].score = Unread
      /\ \A c \in Contacts : meta[c] = Unread /\ thread[c] = 0
  BY DEF Init, NoPass, NoReader, NoRow
<1>2. Unread <= 0
  BY DEF Unread
<1>3. QED
  BY <1>1, <1>2 DEF MsgInv, OneWriter, BehindWati, RowsSound, PassesAhead, ReadersAhead, PassOn,
                    ReaderOn

SameRows ==
  \A c \in Contacts : /\ row'[c].here = row[c].here /\ row'[c].facts = row[c].facts
                      /\ row'[c].score = row[c].score

SameGroups(p) ==
  pass'[p].full = pass[p].full /\ pass'[p].part = pass[p].part /\ pass'[p].facts = pass[p].facts

NoGroups(p) ==
  pass'[p].full = {} /\ pass'[p].part = {} /\ pass'[p].facts = [c \in Contacts |-> Unread]

\* Writers stay where they are, or are gone; nothing is written.
LEMMA MsgFrame ==
  ASSUME TypeOK, MsgInv, SameRows, UNCHANGED <<meta, overlapped, misread>>,
         \A c \in Contacts : thread'[c] \in Nat /\ thread'[c] >= thread[c],
         \A p \in Passes : SameGroups(p) \/ NoGroups(p),
         \A r \in Readers : reader'[r] = reader[r] \/ reader'[r].pc \notin {"meta", "row"}
  PROVE  MsgInv' /\ Kept
<1>1. /\ \A p \in Passes, c \in Contacts : PassOn(p, c)' => PassOn(p, c) /\ SameGroups(p)
      /\ \A r \in Readers, c \in Contacts : ReaderOn(r, c)' => ReaderOn(r, c) /\ reader'[r] = reader[r]
  BY DEF PassOn, ReaderOn, SameGroups, NoGroups
<1>2. OneWriter'
  BY <1>1 DEF MsgInv, OneWriter
<1>3. BehindWati'
  <2>1. ASSUME NEW c \in Contacts, NEW p \in Passes PROVE pass'[p].facts[c] <= thread'[c]
    <3>1. pass'[p].facts[c] \in {pass[p].facts[c], Unread}
      BY <2>1 DEF SameGroups, NoGroups
    <3>2. QED
      BY <2>1, <3>1, MsgTypes DEF MsgInv, BehindWati
  <2>2. ASSUME NEW c \in Contacts, NEW r \in Readers, ReaderOn(r, c)' PROVE reader'[r].len <= thread'[c]
    BY <1>1, <2>2, MsgTypes DEF MsgInv, BehindWati
  <2>3. \A c \in Contacts : row'[c].facts <= thread'[c] /\ meta'[c] <= thread'[c]
    BY MsgTypes DEF MsgInv, BehindWati, SameRows
  <2>4. QED
    BY <2>1, <2>2, <2>3 DEF BehindWati
<1>4. RowsSound'
  BY DEF MsgInv, RowsSound, SameRows
<1>5. PassesAhead'
  BY <1>1 DEF MsgInv, PassesAhead, SameRows, SameGroups
<1>6. ReadersAhead'
  BY <1>1 DEF MsgInv, ReadersAhead, SameRows, ReaderOn
<1>7. Kept
  BY MsgTypes DEF Kept, SameRows
<1>8. QED
  BY <1>2, <1>3, <1>4, <1>5, <1>6, <1>7 DEF MsgInv

\* c is free, or two writers overlap on it from now on.
LEMMA ReadsAlone ==
  ASSUME TypeOK, NEW c \in Contacts, ReadsMessages(c)
  PROVE  /\ overlapped \subseteq overlapped'
         /\ \A x \in Contacts \ {c} : x \in overlapped' <=> x \in overlapped
         /\ c \notin overlapped' =>
              /\ c \notin overlapped
              /\ \A p \in Passes : ~PassOn(p, c)
              /\ \A r \in Readers : ~ReaderOn(r, c)
BY DEF ReadsMessages, OnMessages, PassOn, ReaderOn

LEMMA MsgBuild ==
  ASSUME TypeOK, ListedOnce, MsgInv, NEW p \in Passes, NEW c \in Contacts,
         BuildRow(p, c) \/ BuildRowMisread(p, c)
  PROVE  MsgInv' /\ Kept
<1>1. /\ UNCHANGED <<thread, row, meta, reader>> /\ ReadsMessages(c)
      /\ misread \subseteq misread' /\ \A x \in Contacts \ {c} : x \in misread' <=> x \in misread
      /\ c \notin misread' => BuildRow(p, c) \/ pass'[p].facts[c] = Unread
  BY DEF BuildRow, BuildRowMisread, wati, store
<1>2. PICK n \in Nat :
        /\ Put(p)
        /\ pass'[p].full \cup pass'[p].part = pass[p].full \cup pass[p].part \cup {c}
        /\ \A x \in Contacts \ {c} : pass'[p].facts[x] = pass[p].facts[x]
        /\ pass'[p].facts[c] = n \/ pass'[p].facts[c] = pass[p].facts[c]
        /\ n <= thread[c]
        /\ pass'[p].facts[c] # thread[c] /\ pass'[p].facts[c] # Unread => c \in misread'
  <2>1. /\ thread[c] \in Nat /\ pass[p].facts \in [Contacts -> Facts]
        /\ BuildRowMisread(p, c) => c \in misread'
        /\ c \in pass[p].todo
    BY PassType DEF TypeOK, Pass, BuildRowMisread, BuildRow
  <2>2. pass[p].facts[c] = Unread
    BY <2>1 DEF ListedOnce
  <2>3. /\ Put(p)
        /\ pass'[p].full \cup pass'[p].part = pass[p].full \cup pass[p].part \cup {c}
        /\ \/ BuildRow(p, c) /\ pass'[p].facts = [pass[p].facts EXCEPT ![c] = thread[c]]
           \/ BuildRowMisread(p, c) /\ pass'[p].facts = [pass[p].facts EXCEPT ![c] = 0]
           \/ pass'[p].facts = pass[p].facts
    BY BuildRowEffect
  <2>4. CASE pass'[p].facts = [pass[p].facts EXCEPT ![c] = thread[c]]
    BY <2>1, <2>3, <2>4
  <2>5. CASE BuildRowMisread(p, c) /\ pass'[p].facts = [pass[p].facts EXCEPT ![c] = 0]
    BY <2>1, <2>3, <2>5
  <2>6. CASE pass'[p].facts = pass[p].facts
    BY <2>1, <2>2, <2>3, <2>6
  <2>7. QED
    BY <2>3, <2>4, <2>5, <2>6
<1>3. /\ overlapped \subseteq overlapped'
      /\ \A x \in Contacts \ {c} : x \in overlapped' <=> x \in overlapped
      /\ c \notin overlapped' =>
           /\ c \notin overlapped
           /\ \A q \in Passes : ~PassOn(q, c)
           /\ \A r \in Readers : ~ReaderOn(r, c)
  BY <1>1, ReadsAlone
<1>4. /\ \A q \in Passes, x \in Contacts : PassOn(q, x)' <=> PassOn(q, x) \/ (q = p /\ x = c)
      /\ \A r \in Readers, x \in Contacts : ReaderOn(r, x)' <=> ReaderOn(r, x)
  BY <1>1, <1>2 DEF Put, PassOn, ReaderOn
<1>5. OneWriter'
  <2>1. SUFFICES ASSUME NEW x \in Contacts, x \notin overlapped'
                 PROVE  /\ \A q, s \in Passes : PassOn(q, x)' /\ PassOn(s, x)' => q = s
                        /\ \A r, s \in Readers : ReaderOn(r, x)' /\ ReaderOn(s, x)' => r = s
                        /\ \A q \in Passes, r \in Readers : ~ (PassOn(q, x)' /\ ReaderOn(r, x)')
    BY DEF OneWriter
  <2>2. CASE x = c
    BY <1>3, <1>4, <2>1, <2>2
  <2>3. CASE x # c
    BY <1>3, <1>4, <2>1, <2>3 DEF MsgInv, OneWriter
  <2>4. QED
    BY <2>2, <2>3
<1>6. BehindWati'
  <2>1. \A x \in Contacts, q \in Passes : pass'[q].facts[x] <= thread[x]
    BY <1>2, MsgTypes DEF Put, MsgInv, BehindWati
  <2>2. QED
    BY <1>1, <1>4, <2>1 DEF MsgInv, BehindWati
<1>7. RowsSound'
  BY <1>1, <1>3 DEF MsgInv, RowsSound
<1>8. PassesAhead'
  <2>1. SUFFICES ASSUME NEW q \in Passes, NEW x \in Contacts, x \notin overlapped', x \notin misread',
                        PassOn(q, x)'
                 PROVE  pass'[q].facts[x] = Unread \/ pass'[q].facts[x] >= row[x].facts
    BY <1>1 DEF PassesAhead
  <2>2. CASE q = p /\ x = c
    <3>1. pass'[p].facts[c] = thread[c] \/ pass'[p].facts[c] = Unread
      BY <1>2, <2>1, <2>2
    <3>2. QED
      BY <2>1, <2>2, <3>1, MsgTypes DEF MsgInv, BehindWati
  <2>3. CASE ~(q = p /\ x = c)
    <3>1. PassOn(q, x) /\ pass'[q].facts[x] = pass[q].facts[x]
      BY <1>2, <1>4, <2>1, <2>3 DEF Put
    <3>2. x \notin overlapped /\ x \notin misread
      BY <1>1, <1>3, <2>1
    <3>3. QED
      BY <3>1, <3>2 DEF MsgInv, PassesAhead
  <2>4. QED
    BY <2>2, <2>3
<1>9. ReadersAhead'
  BY <1>1, <1>3, <1>4 DEF MsgInv, ReadersAhead
<1>10. Kept
  BY <1>1, MsgTypes DEF Kept
<1>11. QED
  BY <1>5, <1>6, <1>7, <1>8, <1>9, <1>10 DEF MsgInv

\* The rows of S are written from the facts of p; the score is made of the same.
Wrote(p, S) ==
  /\ \A c \in Contacts \ S : row'[c] = row[c]
  /\ \A c \in S :
       /\ row'[c].here
       /\ row'[c].facts = Coalesce(pass[p].facts[c], row[c].facts)
       /\ \/ pass[p].facts[c] # Unread /\ row'[c].score = pass[p].facts[c]
          \/ /\ pass[p].facts[c] = Unread
             /\ row'[c].score = IF row[c].here THEN row[c].score ELSE Unread

LEMMA FlushWrote ==
  ASSUME TypeOK, ListedOnce, NEW p \in Passes, Flush(p)
  PROVE  \E S \in SUBSET Contacts :
           /\ Wrote(p, S) /\ S \subseteq pass[p].full \cup pass[p].part
           /\ Put(p) /\ pass'[p].full = pass[p].full \ S /\ pass'[p].part = pass[p].part \ S
           /\ \A c \in Contacts :
                pass'[p].facts[c] = IF c \in S THEN Unread ELSE pass[p].facts[c]
<1>1. pass[p].full \in SUBSET Contacts /\ pass[p].part \in SUBSET Contacts
  BY PassType DEF Pass
<1>2. CASE flush(p, pass[p].full, TRUE)
  <2>1. PICK S \in SUBSET Contacts : S = pass[p].full
    BY <1>1
  <2>2. \A c \in S : pass[p].facts[c] # Unread
    BY <2>1 DEF ListedOnce
  <2>3. Wrote(p, S)
    BY <1>2, <2>1, <2>2 DEF flush, Wrote
  <2>4. QED
    BY <1>2, <2>1, <2>3, WrittenIs DEF flush
<1>3. CASE flush(p, pass[p].part, FALSE)
  <2>1. PICK S \in SUBSET Contacts : S = pass[p].part
    BY <1>1
  <2>2. \A c \in S : pass[p].facts[c] = Unread
    BY <2>1 DEF ListedOnce
  <2>3. Wrote(p, S)
    BY <1>3, <2>1, <2>2 DEF flush, Wrote
  <2>4. QED
    BY <1>3, <2>1, <2>3, WrittenIs DEF flush
<1>4. QED
  BY <1>2, <1>3 DEF Flush

LEMMA MsgFlush ==
  ASSUME TypeOK, ListedOnce, MsgInv, NEW p \in Passes, Flush(p)
  PROVE  MsgInv' /\ Kept
<1>1. PICK S \in SUBSET Contacts :
        /\ Wrote(p, S) /\ S \subseteq pass[p].full \cup pass[p].part
        /\ Put(p) /\ pass'[p].full = pass[p].full \ S /\ pass'[p].part = pass[p].part \ S
        /\ \A c \in Contacts : pass'[p].facts[c] = IF c \in S THEN Unread ELSE pass[p].facts[c]
  BY FlushWrote
<1>2. UNCHANGED <<thread, meta, reader, overlapped, misread>>
  BY DEF Flush, wati
<1>3. /\ \A q \in Passes, x \in Contacts : PassOn(q, x)' => PassOn(q, x) /\ ~(q = p /\ x \in S)
      /\ \A r \in Readers, x \in Contacts : ReaderOn(r, x)' <=> ReaderOn(r, x)
      /\ \A x \in S : PassOn(p, x)
  BY <1>1, <1>2 DEF Put, PassOn, ReaderOn
<1>4. \A q \in Passes, x \in Contacts :
        /\ pass'[q].facts[x] \in {pass[q].facts[x], Unread}
        /\ ~(q = p /\ x \in S) => pass'[q].facts[x] = pass[q].facts[x]
  BY <1>1 DEF Put
<1>5. \A x \in S \ overlapped :
        /\ \A q \in Passes : ~PassOn(q, x)'
        /\ \A r \in Readers : ~ReaderOn(r, x)'
  BY <1>3 DEF MsgInv, OneWriter
<1>6. OneWriter'
  BY <1>2, <1>3 DEF MsgInv, OneWriter
<1>7. BehindWati'
  <2>1. \A x \in Contacts, q \in Passes : pass'[q].facts[x] <= thread[x]
    BY <1>4, MsgTypes DEF MsgInv, BehindWati
  <2>2. \A x \in Contacts : row'[x].facts <= thread[x]
    BY <1>1 DEF Wrote, Coalesce, MsgInv, BehindWati
  <2>3. QED
    BY <1>2, <1>3, <2>1, <2>2 DEF MsgInv, BehindWati
<1>8. RowsSound'
  BY <1>1, <1>2 DEF Wrote, Coalesce, MsgInv, RowsSound
<1>9. PassesAhead'
  BY <1>1, <1>2, <1>3, <1>4, <1>5 DEF Wrote, MsgInv, PassesAhead
<1>10. ReadersAhead'
  <2>1. SUFFICES ASSUME NEW r \in Readers, NEW x \in Contacts, x \notin overlapped, ReaderOn(r, x)'
                 PROVE  /\ x \notin misread => /\ reader[r].len >= meta[x]
                                               /\ reader[r].len >= row'[x].facts
                        /\ reader[r].pc = "row" /\ row'[x].here => reader[r].saw
    BY <1>2 DEF ReadersAhead, ReaderOn
  <2>2. x \notin S
    BY <1>5, <2>1
  <2>3. row'[x] = row[x] /\ ReaderOn(r, x)
    BY <1>1, <1>3, <2>1, <2>2 DEF Wrote
  <2>4. QED
    BY <2>1, <2>3 DEF MsgInv, ReadersAhead, ReaderOn
<1>11. Kept
  <2>1. SUFFICES ASSUME NEW x \in Contacts, x \notin overlapped, x \notin misread
                 PROVE  row'[x].facts >= row[x].facts /\ meta[x] >= meta[x]
    BY <1>2 DEF Kept
  <2>2. meta[x] >= meta[x] /\ row[x].facts >= row[x].facts
    BY MsgTypes
  <2>3. CASE x \in S
    BY <1>1, <1>3, <2>1, <2>2, <2>3 DEF Wrote, Coalesce, MsgInv, PassesAhead
  <2>4. CASE x \notin S
    BY <1>1, <2>2, <2>4 DEF Wrote
  <2>5. QED
    BY <2>2, <2>3, <2>4
<1>12. QED
  BY <1>6, <1>7, <1>8, <1>9, <1>10, <1>11 DEF MsgInv

LEMMA MsgFetch ==
  ASSUME TypeOK, MsgInv, NEW r \in Readers, Fetch(r) \/ FetchRateLimited(r)
  PROVE  MsgInv' /\ Kept
<1>1. PICK c \in Contacts : c = reader[r].on
  BY ReaderType DEF Fetch, FetchRateLimited
<1>2. /\ PutReader(r) /\ reader'[r].pc = "meta" /\ reader'[r].on = c
      /\ reader'[r].len \in Nat /\ reader'[r].len <= thread[c]
      /\ misread \subseteq misread' /\ \A x \in Contacts \ {c} : x \in misread' <=> x \in misread
      /\ c \notin misread' => reader'[r].len = thread[c]
  BY <1>1, FetchEffect
<1>3. UNCHANGED <<thread, row, meta, pass>> /\ ReadsMessages(c)
  BY <1>1 DEF Fetch, FetchRateLimited, wati, store
<1>4. /\ overlapped \subseteq overlapped'
      /\ \A x \in Contacts \ {c} : x \in overlapped' <=> x \in overlapped
      /\ c \notin overlapped' =>
           /\ c \notin overlapped
           /\ \A p \in Passes : ~PassOn(p, c)
           /\ \A q \in Readers : ~ReaderOn(q, c)
  BY <1>3, ReadsAlone
<1>5. /\ \A p \in Passes, x \in Contacts : PassOn(p, x)' <=> PassOn(p, x)
      /\ \A q \in Readers \ {r}, x \in Contacts : ReaderOn(q, x)' <=> ReaderOn(q, x)
      /\ \A x \in Contacts : ReaderOn(r, x)' => x = c
  BY <1>2, <1>3 DEF PutReader, PassOn, ReaderOn
<1>6. OneWriter'
  <2>1. SUFFICES ASSUME NEW x \in Contacts, x \notin overlapped'
                 PROVE  /\ \A p, q \in Passes : PassOn(p, x)' /\ PassOn(q, x)' => p = q
                        /\ \A q, s \in Readers : ReaderOn(q, x)' /\ ReaderOn(s, x)' => q = s
                        /\ \A p \in Passes, q \in Readers : ~ (PassOn(p, x)' /\ ReaderOn(q, x)')
    BY DEF OneWriter
  <2>2. CASE x = c
    BY <1>4, <1>5, <2>1, <2>2
  <2>3. CASE x # c
    <3>1. \A q \in Readers : ReaderOn(q, x)' <=> ReaderOn(q, x) /\ q # r
      BY <1>2, <1>5, <2>3 DEF ReaderOn
    <3>2. QED
      BY <1>4, <1>5, <2>1, <2>3, <3>1 DEF MsgInv, OneWriter
  <2>4. QED
    BY <2>2, <2>3
<1>7. BehindWati'
  <2>1. \A q \in Readers, x \in Contacts : ReaderOn(q, x)' => reader'[q].len <= thread[x]
    BY <1>2, <1>5, MsgTypes DEF PutReader, MsgInv, BehindWati
  <2>2. QED
    BY <1>3, <2>1 DEF MsgInv, BehindWati
<1>8. RowsSound' /\ PassesAhead'
  BY <1>2, <1>3, <1>4, <1>5 DEF MsgInv, RowsSound, PassesAhead
<1>9. ReadersAhead'
  <2>1. SUFFICES ASSUME NEW q \in Readers, NEW x \in Contacts, x \notin overlapped', ReaderOn(q, x)'
                 PROVE  /\ x \notin misread' => /\ reader'[q].len >= meta[x]
                                                /\ reader'[q].len >= row[x].facts
                        /\ reader'[q].pc = "row" /\ row[x].here => reader'[q].saw
    BY <1>3 DEF ReadersAhead, ReaderOn
  <2>2. CASE q = r
    BY <1>2, <1>3, <1>5, <2>1, <2>2, MsgTypes DEF MsgInv, BehindWati
  <2>3. CASE q # r
    BY <1>2, <1>4, <1>5, <2>1, <2>3 DEF PutReader, MsgInv, ReadersAhead, ReaderOn
  <2>4. QED
    BY <2>2, <2>3
<1>10. Kept
  BY <1>3, MsgTypes DEF Kept
<1>11. QED
  BY <1>6, <1>7, <1>8, <1>9, <1>10 DEF MsgInv

LEMMA MsgSyncMeta ==
  ASSUME TypeOK, MsgInv, NEW r \in Readers, SyncMeta(r)
  PROVE  MsgInv' /\ Kept
<1>1. PICK c \in Contacts : c = reader[r].on
  BY ReaderType DEF SyncMeta
<1>2. /\ PutReader(r) /\ reader'[r].pc = "row" /\ reader'[r].on = c /\ reader'[r].len = reader[r].len
      /\ reader'[r].saw = row[c].here /\ reader[r].pc = "meta"
  BY <1>1, SyncMetaEffect
<1>3. /\ UNCHANGED <<thread, row, pass, overlapped, misread>>
      /\ meta'[c] = reader[r].len /\ \A x \in Contacts \ {c} : meta'[x] = meta[x]
  BY <1>1 DEF SyncMeta, wati, ghosts, TypeOK
<1>4. /\ \A p \in Passes, x \in Contacts : PassOn(p, x)' <=> PassOn(p, x)
      /\ \A q \in Readers, x \in Contacts : ReaderOn(q, x)' <=> ReaderOn(q, x)
      /\ ReaderOn(r, c)
      /\ \A q \in Readers : reader'[q].len = reader[q].len
  BY <1>1, <1>2, <1>3 DEF PutReader, PassOn, ReaderOn
<1>5. OneWriter'
  BY <1>3, <1>4 DEF MsgInv, OneWriter
<1>6. BehindWati'
  <2>1. \A x \in Contacts : meta'[x] <= thread[x]
    BY <1>3, <1>4 DEF MsgInv, BehindWati
  <2>2. QED
    BY <1>3, <1>4, <2>1 DEF MsgInv, BehindWati
<1>7. RowsSound' /\ PassesAhead'
  BY <1>3, <1>4 DEF MsgInv, RowsSound, PassesAhead
<1>8. ReadersAhead'
  <2>1. SUFFICES ASSUME NEW q \in Readers, NEW x \in Contacts, x \notin overlapped, ReaderOn(q, x)'
                 PROVE  /\ x \notin misread => /\ reader'[q].len >= meta'[x]
                                               /\ reader'[q].len >= row[x].facts
                        /\ reader'[q].pc = "row" /\ row[x].here => reader'[q].saw
    BY <1>3 DEF ReadersAhead, ReaderOn
  <2>2. CASE x = c
    <3>1. q = r
      BY <1>4, <2>1, <2>2 DEF MsgInv, OneWriter
    <3>2. QED
      BY <1>2, <1>3, <1>4, <2>1, <2>2, <3>1, MsgTypes DEF MsgInv, ReadersAhead
  <2>3. CASE x # c
    <3>1. q # r
      BY <1>1, <1>4, <2>1, <2>3 DEF ReaderOn
    <3>2. QED
      BY <1>2, <1>3, <1>4, <2>1, <2>3, <3>1 DEF PutReader, MsgInv, ReadersAhead, ReaderOn
  <2>4. QED
    BY <2>2, <2>3
<1>9. Kept
  BY <1>3, <1>4, MsgTypes DEF Kept, MsgInv, ReadersAhead
<1>10. QED
  BY <1>5, <1>6, <1>7, <1>8, <1>9 DEF MsgInv

LEMMA MsgSyncRow ==
  ASSUME TypeOK, MsgInv, NEW r \in Readers, SyncRow(r)
  PROVE  MsgInv' /\ Kept
<1>1. PICK c \in Contacts : c = reader[r].on
  BY ReaderType DEF SyncRow
<1>2. /\ UNCHANGED <<thread, meta, overlapped, misread>> /\ Returns(r, TRUE) /\ reader[r].pc = "row"
  BY DEF SyncRow, wati, ghosts
<1>3. PutReader(r) /\ reader'[r].pc = "idle"
  BY <1>2, ReturnedEffect, NoReaderType
<1>4. \A p \in Passes : SameGroups(p)
  BY <1>2, ReturnsEffect DEF Put, Keeps, SameGroups
<1>5. /\ \A x \in Contacts \ {c} : row'[x] = row[x]
      /\ row'[c].here = row[c].here
      /\ row[c].here => /\ row'[c].facts = reader[r].len
                        /\ row'[c].score = IF reader[r].saw THEN reader[r].len ELSE row[c].score
      /\ ~row[c].here => row'[c] = row[c]
  <2>1. row[c] \in [here : BOOLEAN, owner : Owner, facts : Facts, score : Facts]
    BY DEF TypeOK
  <2>2. PICK n, s : n = reader[r].len /\ s = IF reader[r].saw THEN reader[r].len ELSE row[c].score
    OBVIOUS
  <2>3. row' = IF row[c].here THEN [row EXCEPT ![c].facts = n, ![c].score = s] ELSE row
    BY <1>1, <2>2, <2>1 DEF SyncRow, TypeOK
  <2>4. QED
    BY <2>1, <2>2, <2>3 DEF TypeOK
<1>6. /\ \A p \in Passes, x \in Contacts : PassOn(p, x)' <=> PassOn(p, x)
      /\ \A q \in Readers, x \in Contacts : ReaderOn(q, x)' <=> q # r /\ ReaderOn(q, x)
      /\ ReaderOn(r, c)
  BY <1>1, <1>2, <1>3, <1>4 DEF PutReader, PassOn, ReaderOn, SameGroups
<1>7. c \notin overlapped =>
        /\ \A p \in Passes : ~PassOn(p, c)
        /\ \A q \in Readers : ~ReaderOn(q, c)'
  BY <1>6 DEF MsgInv, OneWriter
<1>8. OneWriter'
  BY <1>2, <1>6 DEF MsgInv, OneWriter
<1>9. BehindWati'
  <2>1. \A x \in Contacts : row'[x].facts <= thread[x]
    BY <1>5, <1>6 DEF MsgInv, BehindWati
  <2>2. \A p \in Passes : pass'[p].facts = pass[p].facts
    BY <1>4 DEF SameGroups
  <2>3. \A q \in Readers \ {r} : reader'[q] = reader[q]
    BY <1>3 DEF PutReader
  <2>4. QED
    BY <1>2, <1>6, <2>1, <2>2, <2>3 DEF MsgInv, BehindWati
<1>10. RowsSound'
  BY <1>1, <1>2, <1>5 DEF MsgInv, RowsSound, ReadersAhead
<1>11. PassesAhead'
  BY <1>2, <1>4, <1>5, <1>6, <1>7 DEF MsgInv, PassesAhead, SameGroups
<1>12. ReadersAhead'
  <2>1. SUFFICES ASSUME NEW q \in Readers, NEW x \in Contacts, x \notin overlapped, ReaderOn(q, x)'
                 PROVE  /\ x \notin misread => /\ reader'[q].len >= meta[x]
                                               /\ reader'[q].len >= row'[x].facts
                        /\ reader'[q].pc = "row" /\ row'[x].here => reader'[q].saw
    BY <1>2 DEF ReadersAhead, ReaderOn
  <2>2. x # c /\ q # r
    BY <1>6, <1>7, <2>1
  <2>3. row'[x] = row[x] /\ reader'[q] = reader[q] /\ ReaderOn(q, x)
    BY <1>3, <1>5, <1>6, <2>1, <2>2 DEF PutReader
  <2>4. QED
    BY <2>1, <2>3 DEF MsgInv, ReadersAhead, ReaderOn
<1>13. Kept
  <2>1. row[c].here /\ c \notin overlapped /\ c \notin misread => row'[c].facts >= row[c].facts
    BY <1>5, <1>6 DEF MsgInv, ReadersAhead
  <2>2. QED
    BY <1>2, <1>5, <2>1, MsgTypes DEF Kept
<1>14. QED
  BY <1>8, <1>9, <1>10, <1>11, <1>12, <1>13 DEF MsgInv

LEMMA MsgPass ==
  ASSUME TypeOK, ListedOnce, MsgInv, NEW p \in Passes, PassStep(p)
  PROVE  MsgInv' /\ Kept
<1>1. ASSUME Put(p), SameGroups(p) \/ NoGroups(p),
             UNCHANGED <<thread, row, meta, reader, overlapped, misread>>
      PROVE  MsgInv' /\ Kept
  <2>1. \A q \in Passes : SameGroups(q) \/ NoGroups(q)
    BY <1>1 DEF Put, SameGroups
  <2>2. \A c \in Contacts : thread'[c] \in Nat /\ thread'[c] >= thread[c]
    BY <1>1, MsgTypes
  <2>3. QED
    BY <1>1, <2>1, <2>2, MsgFrame DEF SameRows
<1>2. ASSUME Put(p), Keeps(p) \/ Empty(p),
             UNCHANGED <<thread, row, meta, reader, overlapped, misread>>
      PROVE  MsgInv' /\ Kept
  BY <1>1, <1>2 DEF Keeps, Empty, SameGroups, NoGroups
<1>3. CASE StartPass(p)
  <2>1. Put(p) /\ NoGroups(p)
    BY <1>3, StartPassEffect DEF NoGroups
  <2>2. QED
    BY <1>1, <1>3, <2>1 DEF StartPass, wati, store, ghosts
<1>4. CASE ListPage(p)
  <2>1. Put(p) /\ SameGroups(p)
    BY <1>4, ListPageEffect DEF SameGroups
  <2>2. QED
    BY <1>1, <1>4, <2>1 DEF ListPage, wati, store, ghosts
<1>5. CASE EndScan(p)
  BY <1>2, <1>5, EndScanEffect DEF EndScan, wati, store, ghosts
<1>6. CASE ScanFails(p)
  BY <1>2, <1>6, ScanFailsEffect DEF ScanFails, wati, store
<1>7. CASE Gather(p)
  BY <1>2, <1>7, GatherEffect DEF Gather, wati, store
<1>8. CASE Snapshot(p) \/ PassFails(p)
  BY <1>2, <1>8, OffEffect DEF Snapshot, PassFails, wati, store, ghosts
<1>9. QED
  BY <1>3, <1>4, <1>5, <1>6, <1>7, <1>8, MsgBuild, MsgFlush DEF PassStep

\* Nothing of a conversation is written; readers end, or have not read yet.
LEMMA MsgQuiet ==
  ASSUME TypeOK, MsgInv, Put(Board), Keeps(Board), SameRows,
         UNCHANGED <<thread, meta, overlapped, misread>>,
         \A q \in Readers : reader'[q] = reader[q] \/ reader'[q].pc \notin {"meta", "row"}
  PROVE  MsgInv' /\ Kept
<1>1. \A q \in Passes : SameGroups(q) \/ NoGroups(q)
  BY DEF Put, Keeps, SameGroups
<1>2. \A c \in Contacts : thread'[c] \in Nat /\ thread'[c] >= thread[c]
  BY MsgTypes
<1>3. QED
  BY <1>1, <1>2, MsgFrame

LEMMA MsgReader ==
  ASSUME TypeOK, MsgInv, NEW r \in Readers, ReaderStep(r)
  PROVE  MsgInv' /\ Kept
<1>1. Put(Board) /\ Keeps(Board)
  BY ReaderPasses
<1>2. ASSUME NEW c \in Contacts, View(r, c) \/ Reread(r, c) PROVE MsgInv' /\ Kept
  <2>1. \E b \in BOOLEAN : Takes(r, c, b)
    BY <1>2 DEF View, Reread
  <2>2. PutReader(r) /\ reader'[r].pc = "fetch"
    BY <2>1, TakesEffect
  <2>3. UNCHANGED <<thread, row, meta, overlapped, misread>>
    BY <1>2 DEF View, Reread, wati, store, ghosts
  <2>4. QED
    BY <1>1, <2>2, <2>3, MsgQuiet DEF PutReader, SameRows
<1>3. CASE SyncFails(r)
  <2>1. PutReader(r) /\ reader'[r].pc = "idle"
    BY <1>3, ReturnedEffect, NoReaderType DEF SyncFails
  <2>2. UNCHANGED <<thread, row, meta, overlapped, misread>>
    BY <1>3 DEF SyncFails, wati, store, ghosts
  <2>3. QED
    BY <1>1, <2>1, <2>2, MsgQuiet DEF PutReader, SameRows
<1>4. QED
  BY <1>2, <1>3, MsgFetch, MsgSyncMeta, MsgSyncRow DEF ReaderStep

\* A step of a batch touches no more of a row than its owner.
LEMMA DeskRows ==
  ASSUME TypeOK, NEW d \in Desks, DeskStep(d)
  PROVE  SameRows /\ UNCHANGED <<thread, meta, pass, reader, overlapped, misread>>
<1>1. UNCHANGED <<thread, meta, pass, reader, overlapped, misread>>
  BY DEF DeskStep, DeskUnchanged, Assign, Undo, NewBatch, PassOver, Look, LookFails, Accepted,
       Refused, Unanswered, Update, UpdateFails, logRow, logRowFails, EndBatch
<1>2. CASE Update(d)
  <2>1. PICK c \in Contacts, o \in Owner : c = desk[d].on /\ o = desk[d].to
    BY <1>2, DeskType DEF Desk, Update
  <2>2. QED
    BY <1>1, <1>2, <2>1, OwnerRow DEF Update, SameRows
<1>3. CASE ~Update(d)
  <2>1. UNCHANGED row
    BY <1>3 DEF DeskStep, DeskUnchanged, Assign, Undo, NewBatch, PassOver, Look, LookFails, Accepted,
         Refused, Unanswered, UpdateFails, logRow, logRowFails, EndBatch
  <2>2. QED
    BY <1>1, <2>1 DEF SameRows
<1>4. QED
  BY <1>2, <1>3

LEMMA MsgNext ==
  ASSUME TypeOK, ListedOnce, MsgInv, [Next]_vars
  PROVE  MsgInv' /\ Kept
<1>1. ASSUME SameRows, UNCHANGED <<meta, pass, reader, overlapped, misread>>,
             \A c \in Contacts : thread'[c] \in Nat /\ thread'[c] >= thread[c]
      PROVE  MsgInv' /\ Kept
  <2>1. \A q \in Passes : SameGroups(q) \/ NoGroups(q)
    BY <1>1 DEF SameGroups
  <2>2. \A q \in Readers : reader'[q] = reader[q]
    BY <1>1
  <2>3. QED
    BY <1>1, <2>1, <2>2, MsgFrame
<1>2. ASSUME SameRows, UNCHANGED <<thread, meta, pass, reader, overlapped, misread>>
      PROVE  MsgInv' /\ Kept
  BY <1>1, <1>2, MsgTypes
<1>3. ASSUME NEW d \in Desks, DeskStep(d) PROVE MsgInv' /\ Kept
  BY <1>2, <1>3, DeskRows
<1>4. ASSUME NEW c \in Contacts, NewMessage(c) PROVE MsgInv' /\ Kept
  <2>1. UNCHANGED <<row, meta, pass, reader, overlapped, misread>>
    BY <1>4 DEF NewMessage, store, tasks, ghosts
  <2>2. \A x \in Contacts : thread'[x] \in Nat /\ thread'[x] >= thread[x]
    BY <1>4 DEF NewMessage, TypeOK
  <2>3. QED
    BY <1>1, <2>1, <2>2 DEF SameRows
<1>5. ASSUME NEW c \in Contacts, NEW to \in Owners, WatiMoves(c, to) PROVE MsgInv' /\ Kept
  BY <1>2, <1>5 DEF WatiMoves, store, tasks, SameRows
<1>6. CASE UNCHANGED vars
  BY <1>2, <1>6 DEF vars, wati, store, tasks, ghosts, SameRows
<1>7. CASE BoardStep
  <2>1. UNCHANGED <<thread, row, meta, reader, overlapped, misread>>
    BY <1>7 DEF BoardStep, SelectWindow, EndReread, wati, store, ghosts
  <2>2. QED
    BY <1>7, <2>1, BoardPasses, MsgQuiet DEF SameRows
<1>8. CASE Crash
  <2>1. UNCHANGED <<thread, row, meta, overlapped, misread>>
    BY <1>8 DEF Crash, wati, store
  <2>2. \A p \in Passes : NoGroups(p)
    BY <1>8 DEF Crash, NoPass, NoGroups
  <2>3. \A r \in Readers : reader'[r].pc = "idle"
    BY <1>8 DEF Crash, NoReader
  <2>4. \A c \in Contacts : thread'[c] \in Nat /\ thread'[c] >= thread[c]
    BY <2>1, MsgTypes
  <2>5. QED
    BY <2>1, <2>2, <2>3, <2>4, MsgFrame DEF SameRows
<1>9. QED
  BY <1>3, <1>4, <1>5, <1>6, <1>7, <1>8, MsgPass, MsgReader DEF Next, WatiStep

Held == TypeOK /\ ListedOnce /\ MsgInv

LEMMA HeldInit ==
  ASSUME Init
  PROVE  Held
BY TypeInit, ListedInit, MsgInit DEF Held

LEMMA HeldNext ==
  ASSUME Held, [Next]_vars
  PROVE  Held' /\ Kept
BY TypeNext, ListedNext, MsgNext DEF Held

LEMMA AlwaysHeld == Spec => []Held
<1>1. Init => Held
  BY HeldInit
<1>2. Held /\ [Next]_vars => Held'
  BY HeldNext
<1>3. QED
  BY <1>1, <1>2, PTL DEF Spec

\* ingestWati.js:18-21, conversationMeta.js:59-62: the facts of a conversation are not erased by
\* a pass that did not read its messages and never shrink, however passes, page views and the
\* re-reads of a refresh interleave, unless two writers overlapped on the conversation or a failed
\* read of it passed for an empty one.
THEOREM FactsOnlyGrow == Spec => FactsAreKept
<1>1. Held /\ [Next]_vars =>
        [\A c \in Contacts :
           c \notin overlapped' \cup misread' =>
             row'[c].facts >= row[c].facts /\ meta'[c] >= meta[c]]_vars
  BY HeldNext DEF Kept
<1>2. QED
  BY <1>1, AlwaysHeld, PTL DEF Spec, FactsAreKept

\* ingestWati.js:27-33: the score in our table is the one made of the facts in our table.
THEOREM ScoresFollow == Spec => []ScoreFollowsFacts
<1>1. Held => ScoreFollowsFacts
  BY DEF Held, MsgInv, RowsSound, ScoreFollowsFacts
<1>2. QED
  BY <1>1, AlwaysHeld, PTL

-----------------------------------------------------------------------------
(* The refresh of the board *)

Good(c) == c \notin misread \cup overlapped

Due(c) == pass[Board].due[c]

\* A call of syncOne that re-reads for the board has read, and then stored, no less than was due.
Covers(r) ==
  reader[r].board => \A c \in Contacts : reader[r].on = c /\ Good(c) =>
    /\ reader[r].pc = "meta" => reader[r].len >= Due(c)
    /\ reader[r].pc = "row" => meta[c] >= Due(c)

\* What was due is still there to be selected, then waits, is being re-read or has been.
Selected ==
  /\ pass[Board].pc \in {"scan", "select"} /\ pass[Board].clean =>
       \A c \in Contacts : Due(c) # Unread /\ Good(c) => row[c].facts > 0
  /\ pass[Board].pc = "reread" /\ pass[Board].clean =>
       \A c \in Contacts : Due(c) # Unread /\ Good(c) =>
         \/ c \in pass[Board].reread \cup pass[Board].ids
         \/ \E r \in Readers : reader[r].board /\ reader[r].on = c
  /\ pass[Board].pc \in {"gather", "snapshot"} /\ pass[Board].clean =>
       \A c \in Contacts : Due(c) # Unread /\ Good(c) => c \in pass[Board].reread

\* Nothing due is ahead of WATI, and whatever counts as re-read is stored.
Fresh ==
  /\ \A c \in Contacts : Due(c) <= thread[c]
  /\ \A c \in Contacts : c \in pass[Board].reread /\ Good(c) => meta[c] >= Due(c)
  /\ \A r \in Readers : Covers(r)

\* Only a board in the midst of its re-read has calls of syncOne under way.
BoardReads ==
  \A r \in Readers : reader[r].board => reader[r].pc # "idle" /\ pass[Board].pc = "reread"

RefreshInv == Selected /\ Fresh /\ BoardReads

LEMMA RefreshInit ==
  ASSUME Init
  PROVE  RefreshInv
<1>1. /\ pass[Board] = NoPass /\ \A r \in Readers : reader[r] = NoReader
      /\ \A c \in Contacts : thread[c] = 0
  BY NamesAssumption DEF Init
<1>2. QED
  BY <1>1 DEF RefreshInv, Selected, Fresh, Covers, BoardReads, Due, NoPass, NoReader, Unread

LEMMA GoodBefore ==
  ASSUME TypeOK, [Next]_vars
  PROVE  overlapped \subseteq overlapped' /\ misread \subseteq misread'
<1>1. ASSUME NEW c PROVE ReadsMessages(c) => overlapped \subseteq overlapped'
  BY DEF ReadsMessages
<1>2. ASSUME NEW p \in Passes, PassStep(p) PROVE overlapped \subseteq overlapped' /\ misread \subseteq misread'
  BY <1>1, <1>2 DEF PassStep, StartPass, ListPage, BuildRow, BuildRowMisread, Flush, EndScan, ScanFails,
       Gather, Snapshot, PassFails, ghosts
<1>3. ASSUME NEW r \in Readers, ReaderStep(r) PROVE overlapped \subseteq overlapped' /\ misread \subseteq misread'
  BY <1>1, <1>3 DEF ReaderStep, View, Reread, Fetch, FetchRateLimited, SyncMeta, SyncRow, SyncFails, ghosts
<1>4. ASSUME NEW d \in Desks, DeskStep(d) PROVE overlapped \subseteq overlapped' /\ misread \subseteq misread'
  BY <1>4, DeskRows
<1>5. WatiStep \/ BoardStep \/ Crash \/ UNCHANGED vars => UNCHANGED <<overlapped, misread>>
  BY DEF WatiStep, NewMessage, WatiMoves, BoardStep, SelectWindow, EndReread, Crash, vars, ghosts
<1>6. QED
  BY <1>2, <1>3, <1>4, <1>5 DEF Next

\* WATI only appends.
LEMMA ThreadGrows ==
  ASSUME TypeOK, [Next]_vars
  PROVE  \A c \in Contacts : thread'[c] >= thread[c]
<1>1. ASSUME NEW p \in Passes, PassStep(p) PROVE UNCHANGED thread
  BY <1>1 DEF PassStep, StartPass, ListPage, BuildRow, BuildRowMisread, Flush, EndScan, ScanFails,
       Gather, Snapshot, PassFails, wati
<1>2. ASSUME NEW r \in Readers, ReaderStep(r) PROVE UNCHANGED thread
  BY <1>2 DEF ReaderStep, View, Reread, Fetch, FetchRateLimited, SyncMeta, SyncRow, SyncFails, wati
<1>3. ASSUME NEW d \in Desks, DeskStep(d) PROVE UNCHANGED thread
  BY <1>3, DeskRows
<1>4. BoardStep \/ Crash \/ UNCHANGED vars => UNCHANGED thread
  BY DEF BoardStep, SelectWindow, EndReread, Crash, vars, wati
<1>5. \A c \in Contacts : thread[c] \in Nat
  BY DEF TypeOK
<1>6. ASSUME UNCHANGED thread PROVE \A c \in Contacts : thread'[c] >= thread[c]
  BY <1>5, <1>6
<1>7. ASSUME NEW c \in Contacts, NewMessage(c) PROVE \A x \in Contacts : thread'[x] >= thread[x]
  BY <1>5, <1>7 DEF NewMessage, TypeOK
<1>8. ASSUME NEW c \in Contacts, NEW to \in Owners, WatiMoves(c, to) PROVE UNCHANGED thread
  BY <1>8 DEF WatiMoves
<1>9. QED
  BY <1>1, <1>2, <1>3, <1>4, <1>6, <1>7, <1>8 DEF Next, WatiStep

\* A row that has facts keeps them, and the number of messages stored only grows.
LEMMA FactsStay ==
  ASSUME Held, [Next]_vars, NEW c \in Contacts, c \notin misread' \cup overlapped'
  PROVE  /\ Good(c)
         /\ row[c].facts > 0 => row'[c].facts > 0
         /\ meta'[c] >= meta[c] /\ meta'[c] \in Int /\ meta[c] \in Int
<1>1. /\ row'[c].facts >= row[c].facts /\ meta'[c] >= meta[c]
      /\ c \notin misread \cup overlapped
  BY HeldNext, GoodBefore DEF Kept, Held
<1>2. TypeOK'
  BY HeldNext DEF Held
<1>3. row'[c].facts \in Int /\ meta'[c] \in Int
  BY <1>2 DEF TypeOK, Facts, Unread
<1>4. row[c].facts \in Int /\ meta[c] \in Int
  BY MsgTypes DEF Held
<1>5. QED
  BY <1>1, <1>3, <1>4 DEF Good

LEMMA DueType ==
  ASSUME TypeOK
  PROVE  /\ pass[Board].due \in [Contacts -> Facts]
         /\ \A c \in Contacts : Due(c) \in Int /\ Due(c) >= Unread
BY PassType, NamesAssumption DEF Pass, Due, Facts, Unread

\* Whoever re-reads for the board still does, or has stored what it read, and the board
\* is where it was.
LEMMA RefreshFrame ==
  ASSUME Held, [Next]_vars, RefreshInv,
         pass'[Board].pc = pass[Board].pc, pass'[Board].due = pass[Board].due,
         pass'[Board].clean => pass[Board].clean,
         pass[Board].reread \subseteq pass'[Board].reread,
         pass[Board].pc = "reread" => pass'[Board].ids = pass[Board].ids,
         \A c \in pass'[Board].reread :
           \/ c \in pass[Board].reread
           \/ \E r \in Readers : reader[r].board /\ reader[r].pc = "row" /\ reader[r].on = c,
         \A r \in Readers :
           /\ reader[r].board => \/ reader'[r].board /\ reader'[r].on = reader[r].on
                                 \/ reader[r].on \in pass'[Board].reread
                                 \/ ~pass'[Board].clean
           /\ reader'[r].board => reader[r].board /\ reader'[r].pc # "idle"
           /\ reader'[r] = reader[r] \/ Covers(r)'
  PROVE  RefreshInv'
<1>1. \A c \in Contacts :
        /\ Due(c)' = Due(c)
        /\ Good(c)' => /\ Good(c) /\ (row[c].facts > 0 => row'[c].facts > 0)
                       /\ meta'[c] >= meta[c] /\ meta'[c] \in Int /\ meta[c] \in Int
  BY FactsStay DEF Good, Due
<1>2. \A c \in Contacts : Due(c) \in Int /\ thread[c] \in Nat /\ thread'[c] \in Nat
  <2>1. TypeOK /\ TypeOK'
    BY HeldNext DEF Held
  <2>2. QED
    BY <2>1, DueType DEF TypeOK
<1>3. Selected'
  BY <1>1 DEF RefreshInv, Selected
<1>4. \A c \in Contacts : Due(c)' <= thread'[c]
  BY <1>1, <1>2, ThreadGrows DEF RefreshInv, Fresh, Held
<1>5. ASSUME NEW c \in Contacts, c \in pass'[Board].reread, Good(c)'
      PROVE  meta'[c] >= Due(c)'
  <2>1. meta[c] >= Due(c)
    <3>1. CASE c \in pass[Board].reread
      BY <1>1, <1>5, <3>1 DEF RefreshInv, Fresh
    <3>2. CASE \E r \in Readers : reader[r].board /\ reader[r].pc = "row" /\ reader[r].on = c
      BY <1>1, <1>5, <3>2 DEF RefreshInv, Fresh, Covers
    <3>3. QED
      BY <1>5, <3>1, <3>2
  <2>2. QED
    BY <1>1, <1>2, <1>5, <2>1
<1>6. ASSUME NEW r \in Readers PROVE Covers(r)'
  <2>1. CASE reader'[r] = reader[r]
    <3>1. Covers(r)
      BY DEF RefreshInv, Fresh
    <3>2. SUFFICES ASSUME NEW c \in Contacts, reader'[r].board, reader'[r].on = c, Good(c)'
                   PROVE  /\ reader'[r].pc = "meta" => reader'[r].len >= Due(c)'
                          /\ reader'[r].pc = "row" => meta'[c] >= Due(c)'
      BY DEF Covers
    <3>3. /\ reader[r].pc = "meta" => reader[r].len >= Due(c)
          /\ reader[r].pc = "row" => meta[c] >= Due(c)
      BY <1>1, <2>1, <3>1, <3>2 DEF Covers
    <3>4. QED
      BY <1>1, <1>2, <2>1, <3>2, <3>3
  <2>2. QED
    BY <2>1
<1>7. BoardReads'
  BY DEF RefreshInv, BoardReads
<1>8. QED
  BY <1>3, <1>4, <1>5, <1>6, <1>7 DEF RefreshInv, Fresh

\* No reader changes hands, and the board is not touched.
LEMMA RefreshOther ==
  ASSUME Held, [Next]_vars, RefreshInv, pass'[Board] = pass[Board], UNCHANGED reader
  PROVE  RefreshInv'
BY RefreshFrame DEF RefreshInv, BoardReads

\* No call of syncOne re-reads for the board, now or next, and nothing it re-read is kept.
LEMMA RefreshBegins ==
  ASSUME Held, [Next]_vars, RefreshInv, UNCHANGED reader, pass[Board].pc # "reread",
         pass'[Board].reread = {},
         \A c \in Contacts : Due(c)' <= thread'[c],
         pass'[Board].pc \in {"scan", "select"} /\ pass'[Board].clean =>
           \A c \in Contacts : Due(c)' # Unread /\ Good(c)' => row'[c].facts > 0,
         pass'[Board].pc \notin {"scan", "select", "off"} => pass'[Board].clean = FALSE
  PROVE  RefreshInv'
<1>1. \A r \in Readers : ~reader'[r].board
  BY DEF RefreshInv, BoardReads
<1>2. Selected'
  BY DEF Selected
<1>3. Fresh'
  BY <1>1 DEF Fresh, Covers
<1>4. QED
  BY <1>1, <1>2, <1>3 DEF RefreshInv, BoardReads

\* The board goes on to its next stage with all it has.
LEMMA RefreshMoves ==
  ASSUME Held, [Next]_vars, RefreshInv, UNCHANGED <<reader, meta, overlapped, misread>>,
         \A r \in Readers : ~reader[r].board,
         pass'[Board].reread = pass[Board].reread, pass'[Board].due = pass[Board].due,
         Selected'
  PROVE  RefreshInv'
<1>1. \A c \in Contacts : Due(c)' = Due(c) /\ (Good(c)' <=> Good(c))
  BY DEF Due, Good
<1>2. \A c \in Contacts : Due(c) \in Int /\ thread[c] \in Nat /\ thread'[c] \in Nat
  <2>1. TypeOK /\ TypeOK'
    BY HeldNext DEF Held
  <2>2. QED
    BY <2>1, DueType DEF TypeOK
<1>3. \A c \in Contacts : Due(c)' <= thread'[c]
  BY <1>1, <1>2, ThreadGrows DEF RefreshInv, Fresh, Held
<1>4. Fresh' /\ BoardReads'
  BY <1>1, <1>3 DEF RefreshInv, Fresh, Covers, BoardReads
<1>5. QED
  BY <1>4 DEF RefreshInv

LEMMA RefreshPass ==
  ASSUME Held, [Next]_vars, RefreshInv, NEW p \in Passes, PassStep(p)
  PROVE  RefreshInv'
<1> USE DEF Held
<1>1. UNCHANGED reader
  BY DEF PassStep, StartPass, ListPage, BuildRow, BuildRowMisread, Flush, EndScan, ScanFails,
       Gather, Snapshot, PassFails
<1>2. Put(p)
  <2>1. Flush(p) => Put(p)
    BY FlushWrote
  <2>2. QED
    BY <2>1, StartPassEffect, ListPageEffect, BuildRowEffect, EndScanEffect, ScanFailsEffect,
       GatherEffect, OffEffect DEF PassStep, Snapshot, PassFails
<1>3. CASE p # Board
  BY <1>1, <1>2, <1>3, RefreshOther, NamesAssumption DEF Put
<1>4. ASSUME p = Board,
             pass'[Board].pc = pass[Board].pc, pass'[Board].due = pass[Board].due,
             pass'[Board].clean = pass[Board].clean,
             pass'[Board].reread = pass[Board].reread,
             pass[Board].pc = "reread" => pass'[Board].ids = pass[Board].ids
      PROVE  RefreshInv'
  BY <1>1, <1>4, RefreshFrame DEF RefreshInv, BoardReads
<1>5. /\ \A r \in Readers : pass[Board].pc # "reread" => ~reader[r].board
      /\ \A c \in Contacts : thread[c] \in Nat /\ Unread <= thread[c] /\ Due(c) <= thread[c]
  BY MsgTypes DEF RefreshInv, BoardReads, Fresh, Unread
<1>6. ASSUME p = Board, StartPass(p) PROVE RefreshInv'
  <2>1. /\ pass'[p].pc = "scan" /\ pass'[p].due = DueNow(p) /\ pass'[p].reread = {}
        /\ pass[p].pc = "off"
    BY <1>6, StartPassEffect DEF StartPass
  <2>2. UNCHANGED <<row, thread>>
    BY <1>6 DEF StartPass, store, wati
  <2>3. \A c \in Contacts : Due(c)' = IF row[c].facts > 0 THEN thread[c] ELSE Unread
    BY <1>6, <2>1 DEF Due, DueNow
  <2>4. QED
    BY <1>1, <1>5, <1>6, <2>1, <2>2, <2>3, RefreshBegins
<1>7. ASSUME p = Board, ListPage(p) PROVE RefreshInv'
  <2>1. pass[p].pc = "scan"
    BY <1>7 DEF ListPage
  <2>2. QED
    BY <1>4, <1>7, <2>1, ListPageEffect
<1>8. ASSUME p = Board, Flush(p) PROVE RefreshInv'
  <2>1. PICK S \in SUBSET Contacts, m \in BOOLEAN :
          flush(p, S, m) /\ S \in {pass[p].full, pass[p].part}
    BY <1>8, FlushSets
  <2>2. pass' = Written(p, S)
    BY <2>1 DEF flush
  <2>3. QED
    BY <1>4, <1>8, <2>2, WrittenIs DEF Later
<1>9. ASSUME p = Board, EndScan(p) PROVE RefreshInv'
  <2>1. /\ pass'[p].pc = "select" /\ pass'[p].due = pass[p].due /\ pass'[p].clean = pass[p].clean
        /\ pass[p].pc = "scan" /\ pass'[p].reread = pass[p].reread
    BY <1>9, EndScanEffect DEF EndScan, Listed
  <2>2. UNCHANGED <<row, meta, misread, overlapped>>
    BY <1>9 DEF EndScan, store, ghosts
  <2>3. Selected'
    BY <1>9, <2>1, <2>2 DEF RefreshInv, Selected, Good, Due
  <2>4. QED
    BY <1>1, <1>5, <1>9, <2>1, <2>2, <2>3, RefreshMoves
<1>10. ASSUME p = Board, ScanFails(p) PROVE RefreshInv'
  <2>1. /\ pass'[p].pc = "select" /\ pass'[p].clean = FALSE /\ pass'[p].due = pass[p].due
        /\ pass'[p].reread = {} /\ pass[p].pc = "scan" /\ UNCHANGED thread
    BY <1>10, ScanFailsEffect DEF ScanFails, wati
  <2>2. \A c \in Contacts : Due(c)' = Due(c)
    BY <1>10, <2>1 DEF Due
  <2>3. QED
    BY <1>1, <1>5, <1>10, <2>1, <2>2, RefreshBegins
<1>11. ASSUME p = Board, NEW c \in Contacts, BuildRow(p, c) \/ BuildRowMisread(p, c) PROVE RefreshInv'
  BY <1>4, <1>11, BuildRowEffect DEF Later
<1>12. ASSUME p = Board, Gather(p) PROVE RefreshInv'
  <2>1. /\ pass'[p].pc = "snapshot" /\ pass[p].pc = "gather" /\ pass'[p].due = pass[p].due
        /\ pass'[p].clean = pass[p].clean /\ pass'[p].reread = pass[p].reread
    BY <1>12, GatherEffect DEF Gather
  <2>2. UNCHANGED <<meta, misread, overlapped>>
    BY <1>12 DEF Gather, store
  <2>3. Selected'
    BY <1>12, <2>1, <2>2 DEF RefreshInv, Selected, Good, Due
  <2>4. QED
    BY <1>1, <1>5, <1>12, <2>1, <2>2, <2>3, RefreshMoves
<1>13. ASSUME p = Board, Snapshot(p) \/ PassFails(p) PROVE RefreshInv'
  <2>1. /\ pass'[p].pc = "off" /\ pass'[p].reread = {}
        /\ pass'[p].due = [c \in Contacts |-> Unread]
    BY <1>13, OffEffect DEF Snapshot, PassFails
  <2>2. pass[p].pc # "reread" /\ UNCHANGED thread
    BY <1>13 DEF Snapshot, PassFails, wati
  <2>3. \A c \in Contacts : Due(c)' = Unread
    BY <1>13, <2>1 DEF Due
  <2>4. QED
    BY <1>1, <1>5, <1>13, <2>1, <2>2, <2>3, RefreshBegins
<1>14. QED
  BY <1>3, <1>6, <1>7, <1>8, <1>9, <1>10, <1>11, <1>12, <1>13 DEF PassStep

\* A board's call of syncOne has read what WATI has, and hands it on.
LEMMA ReaderCovers ==
  ASSUME Held, [Next]_vars, RefreshInv, NEW r \in Readers, UNCHANGED <<pass, thread>>,
         Fetch(r) \/ FetchRateLimited(r) \/ SyncMeta(r)
  PROVE  Covers(r)'
<1> USE DEF Held
<1>1. SUFFICES ASSUME NEW c \in Contacts, reader'[r].board, reader'[r].on = c, Good(c)'
               PROVE  /\ reader'[r].pc = "meta" => reader'[r].len >= Due(c)'
                      /\ reader'[r].pc = "row" => meta'[c] >= Due(c)'
  BY DEF Covers
<1>2. Due(c)' = Due(c) /\ Due(c) \in Int /\ thread[c] \in Nat /\ Due(c) <= thread[c]
  BY DueType DEF Due, TypeOK, RefreshInv, Fresh
<1>3. CASE Fetch(r) \/ FetchRateLimited(r)
  <2>1. /\ reader'[r].pc = "meta" /\ reader'[r].on = reader[r].on
        /\ reader[r].on \notin misread' => reader'[r].len = thread[reader[r].on]
    BY <1>3, FetchEffect
  <2>2. QED
    BY <1>1, <1>2, <2>1 DEF Good
<1>4. CASE SyncMeta(r)
  <2>1. /\ reader[r].pc = "meta" /\ reader'[r].pc = "row" /\ reader'[r].on = reader[r].on
        /\ reader'[r].board = reader[r].board
    BY <1>4, SyncMetaEffect
  <2>2. UNCHANGED <<misread, overlapped>>
    BY <1>4 DEF SyncMeta, ghosts
  <2>3. reader[r].len >= Due(c)
    BY <1>1, <2>1, <2>2 DEF RefreshInv, Fresh, Covers, Good
  <2>4. meta'[c] = reader[r].len
    BY <1>1, <1>4, <2>1 DEF SyncMeta, TypeOK
  <2>5. QED
    BY <1>2, <2>1, <2>3, <2>4
<1>5. QED
  BY <1>3, <1>4

LEMMA RefreshReader ==
  ASSUME Held, [Next]_vars, RefreshInv, NEW r \in Readers, ReaderStep(r)
  PROVE  RefreshInv'
<1> USE DEF Held
<1>1. ASSUME NEW c \in Contacts, View(r, c) PROVE RefreshInv'
  <2>1. Takes(r, c, FALSE)
    BY <1>1 DEF View
  <2>2. PutReader(r) /\ reader[r].pc = "idle" /\ reader'[r].pc = "fetch" /\ ~reader'[r].board
    BY <2>1, TakesEffect
  <2>3. \A q \in Readers : reader[q].board => q # r /\ reader[q].pc # "idle"
    BY <2>2 DEF RefreshInv, BoardReads
  <2>4. UNCHANGED pass
    BY <1>1 DEF View
  <2>5. Covers(r)'
    BY <2>2 DEF Covers
  <2>6. QED
    BY <2>2, <2>3, <2>4, <2>5, RefreshFrame DEF PutReader
<1>2. ASSUME NEW c \in Contacts, Reread(r, c) PROVE RefreshInv'
  <2>1. /\ Takes(r, c, TRUE) /\ UNCHANGED <<thread, row, meta, misread, overlapped>>
        /\ pass[Board].pc = "reread"
    BY <1>2 DEF Reread, store, wati, ghosts
  <2>2. /\ PutReader(r) /\ reader[r].pc = "idle" /\ reader'[r].pc = "fetch"
        /\ reader'[r].on = c /\ reader'[r].board
    BY <2>1, TakesEffect
  <2>3. /\ pass'[Board].pc = "reread" /\ pass'[Board].ids = pass[Board].ids \ {c}
        /\ pass'[Board].reread = pass[Board].reread
        /\ pass'[Board].due = pass[Board].due /\ pass'[Board].clean = pass[Board].clean
    BY <1>2, TakenEffect
  <2>4. \A q \in Readers : reader[q].board => q # r
    BY <2>2 DEF RefreshInv, BoardReads
  <2>5. \A x : (\E q \in Readers : reader[q].board /\ reader[q].on = x) \/ x = c
               => \E q \in Readers : reader'[q].board /\ reader'[q].on = x
    BY <2>2, <2>4 DEF PutReader
  <2>6. BoardReads'
    BY <2>2, <2>3 DEF RefreshInv, BoardReads, PutReader
  <2>7. Selected'
    BY <2>1, <2>3, <2>5 DEF RefreshInv, Selected, Good, Due
  <2>8. \A q \in Readers : Covers(q)'
    <3>1. \A q \in Readers \ {r} : Covers(q)'
      BY <2>1, <2>2, <2>3 DEF RefreshInv, Fresh, Covers, Good, Due, PutReader
    <3>2. Covers(r)'
      BY <2>2 DEF Covers
    <3>3. QED
      BY <3>1, <3>2
  <2>9. Fresh'
    BY <2>1, <2>3, <2>8 DEF RefreshInv, Fresh, Good, Due
  <2>10. QED
    BY <2>6, <2>7, <2>9 DEF RefreshInv
<1>3. ASSUME PutReader(r), reader'[r].on = reader[r].on, reader'[r].board = reader[r].board,
             reader'[r].pc # "idle", UNCHANGED pass, Covers(r)'
      PROVE  RefreshInv'
  BY <1>3, RefreshFrame DEF PutReader, RefreshInv, BoardReads
<1>4. CASE Fetch(r) \/ FetchRateLimited(r)
  <2>1. UNCHANGED <<pass, thread>>
    BY <1>4 DEF Fetch, FetchRateLimited, wati
  <2>2. QED
    BY <1>3, <1>4, <2>1, FetchEffect, ReaderCovers
<1>5. CASE SyncMeta(r)
  <2>1. UNCHANGED <<pass, thread>>
    BY <1>5 DEF SyncMeta, wati
  <2>2. QED
    BY <1>3, <1>5, <2>1, SyncMetaEffect, ReaderCovers
<1>6. ASSUME NEW ok \in BOOLEAN, Returns(r, ok), reader[r].pc # "idle",
             ok => reader[r].pc = "row"
      PROVE  RefreshInv'
  <2>1. PutReader(r) /\ reader'[r].pc = "idle" /\ ~reader'[r].board
    BY <1>6, ReturnedEffect DEF NoReader
  <2>2. /\ pass'[Board].pc = pass[Board].pc /\ pass'[Board].ids = pass[Board].ids
        /\ pass'[Board].due = pass[Board].due
        /\ pass[Board].reread \subseteq pass'[Board].reread
        /\ pass'[Board].reread \subseteq
             pass[Board].reread \cup (IF ok /\ reader[r].board THEN {reader[r].on} ELSE {})
        /\ reader[r].board => reader[r].on \in pass'[Board].reread \/ ~pass'[Board].clean
        /\ pass'[Board].clean => pass[Board].clean
    BY <1>6, ReturnsEffect
  <2>3. \A c \in pass'[Board].reread :
          \/ c \in pass[Board].reread
          \/ \E q \in Readers : reader[q].board /\ reader[q].pc = "row" /\ reader[q].on = c
    BY <1>6, <2>2
  <2>4. Covers(r)'
    BY <2>1 DEF Covers
  <2>5. \A q \in Readers :
          /\ reader[q].board => \/ reader'[q].board /\ reader'[q].on = reader[q].on
                                \/ reader[q].on \in pass'[Board].reread
                                \/ ~pass'[Board].clean
          /\ reader'[q].board => reader[q].board /\ reader'[q].pc # "idle"
          /\ reader'[q] = reader[q] \/ Covers(q)'
    BY <2>1, <2>2, <2>4 DEF PutReader, RefreshInv, BoardReads
  <2>6. QED
    BY <2>2, <2>3, <2>5, RefreshFrame
<1>7. CASE SyncRow(r) \/ SyncFails(r)
  BY <1>6, <1>7 DEF SyncRow, SyncFails
<1>8. QED
  BY <1>1, <1>2, <1>4, <1>5, <1>7 DEF ReaderStep

LEMMA RefreshBoard ==
  ASSUME Held, [Next]_vars, RefreshInv, BoardStep
  PROVE  RefreshInv'
<1> USE DEF Held
<1>1. UNCHANGED <<row, meta, reader, misread, overlapped>>
  BY DEF BoardStep, SelectWindow, EndReread, store, ghosts
<1>2. CASE SelectWindow
  <2>1. /\ pass[Board].pc = "select" /\ pass'[Board].pc = "reread"
        /\ pass'[Board].ids = {c \in Contacts : row[c].here /\ row[c].facts > 0}
        /\ pass'[Board].due = pass[Board].due /\ pass'[Board].clean = pass[Board].clean
        /\ pass'[Board].reread = pass[Board].reread
    BY <1>2, SelectEffect DEF SelectWindow
  <2>2. \A r \in Readers : ~reader[r].board
    BY <2>1 DEF RefreshInv, BoardReads
  <2>3. \A c \in Contacts : row[c].facts > 0 => row[c].here
    BY MsgTypes DEF MsgInv, RowsSound
  <2>4. Selected'
    BY <1>1, <2>1, <2>3 DEF RefreshInv, Selected, Good, Due
  <2>5. QED
    BY <1>1, <2>1, <2>2, <2>4, RefreshMoves
<1>3. CASE EndReread
  <2>1. /\ pass[Board].pc = "reread" /\ pass[Board].ids = {} /\ ~ \E r \in Readers : reader[r].board
        /\ Moves(Board, "gather") /\ Board \in Passes
    BY <1>3, NamesAssumption DEF EndReread, Moves
  <2>2. /\ pass'[Board].pc = "gather" /\ pass'[Board].reread = pass[Board].reread
        /\ pass'[Board].due = pass[Board].due /\ pass'[Board].clean = pass[Board].clean
    BY <2>1, MovesEffect
  <2>3. Selected'
    BY <1>1, <2>1, <2>2 DEF RefreshInv, Selected, Good, Due
  <2>4. QED
    BY <1>1, <2>1, <2>2, <2>3, RefreshMoves
<1>4. QED
  BY <1>2, <1>3 DEF BoardStep

LEMMA RefreshNext ==
  ASSUME Held, RefreshInv, [Next]_vars
  PROVE  RefreshInv'
<1>1. CASE UNCHANGED <<pass, reader>>
  BY <1>1, RefreshOther
<1>2. WatiStep \/ UNCHANGED vars => UNCHANGED <<pass, reader>>
  BY DEF WatiStep, NewMessage, WatiMoves, vars, tasks
<1>3. ASSUME NEW d \in Desks, DeskStep(d) PROVE UNCHANGED <<pass, reader>>
  BY <1>3, DeskRows DEF Held
<1>4. CASE Crash
  <2>1. pass'[Board] = NoPass /\ (\A r \in Readers : reader'[r] = NoReader) /\ UNCHANGED thread
    BY <1>4, NamesAssumption DEF Crash, wati
  <2>2. \A c \in Contacts : Due(c)' <= thread'[c]
    BY <2>1, MsgTypes DEF Due, NoPass, Held, Unread
  <2>3. QED
    BY <2>1, <2>2 DEF RefreshInv, Selected, Fresh, Covers, BoardReads, NoPass, NoReader
<1>5. QED
  BY <1>1, <1>2, <1>3, <1>4, RefreshPass, RefreshReader, RefreshBoard DEF Next

\* boardRefresh.js:8-14: a refresh that reports no failure has re-read every conversation its
\* table had messages of when it began, and what is stored of it is no older than the refresh,
\* whatever else wrote the table meanwhile, unless a failed read passed for an empty one.
THEOREM RefreshesComplete == Spec => []RefreshIsComplete
<1>1. Init => Held /\ RefreshInv
  BY HeldInit, RefreshInit
<1>2. Held /\ RefreshInv /\ [Next]_vars => Held' /\ RefreshInv'
  BY HeldNext, RefreshNext
<1>3. Held /\ RefreshInv => RefreshIsComplete
  <2>1. SUFFICES ASSUME Held, RefreshInv, pass[Board].pc \in {"gather", "snapshot"},
                        pass[Board].clean, NEW c \in Contacts \ (misread \cup overlapped)
                 PROVE  /\ Due(c) # Unread => c \in pass[Board].reread
                        /\ meta[c] >= Due(c)
    BY DEF RefreshIsComplete, Due
  <2>2. Due(c) # Unread => c \in pass[Board].reread
    BY <2>1 DEF RefreshInv, Selected, Good
  <2>3. CASE Due(c) = Unread
    BY <2>1, <2>2, <2>3, MsgTypes DEF Held
  <2>4. CASE Due(c) # Unread
    BY <2>1, <2>2, <2>4 DEF RefreshInv, Fresh, Good
  <2>5. QED
    BY <2>2, <2>3, <2>4
<1>4. QED
  BY <1>1, <1>2, <1>3, PTL DEF Spec

-----------------------------------------------------------------------------
(* The first contact *)

Snaps(p) == pass[p].pc = "snapshot"

\* What a snapshot gathered is not behind what the table says, nor ahead of the meta rows.
FirstInv ==
  /\ ~doubled => \A p, q \in Passes : Snaps(p) /\ Snaps(q) => p = q
  /\ \A c \in Contacts : Good(c) =>
       /\ follow[c].contacted => Contacted(meta[c])
       /\ \A p \in Passes : Snaps(p) /\ c \in pass[p].contacted => Contacted(meta[c])
       /\ ~doubled =>
            /\ \A p \in Passes :
                 Snaps(p) /\ follow[c].contacted /\ c \in pass[p].leads => c \in pass[p].contacted
            /\ follow[c].here /\ ~follow[c].contacted => follow[c].waited
            /\ stamps[c] = IF follow[c].waited /\ follow[c].contacted THEN 1 ELSE 0
       /\ ~follow[c].here => ~follow[c].contacted /\ ~follow[c].waited /\ stamps[c] = 0

LEMMA FirstInit ==
  ASSUME Init
  PROVE  FirstInv
BY DEF Init, FirstInv, Snaps, NoPass, NoFollow

\* No count of messages shrinks, unless two writers overlapped or a failed read was stored.
LEMMA MetaGrows ==
  ASSUME Held, [Next]_vars
  PROVE  \A c \in Contacts : Good(c)' => Good(c) /\ (Contacted(meta[c]) => Contacted(meta'[c]))
<1>1. SUFFICES ASSUME NEW c \in Contacts, c \notin misread' \cup overlapped'
               PROVE  Good(c) /\ (Contacted(meta[c]) => Contacted(meta'[c]))
  BY DEF Good
<1>2. Good(c) /\ meta'[c] >= meta[c] /\ meta'[c] \in Int /\ meta[c] \in Int
  BY <1>1, FactsStay
<1>3. QED
  BY <1>2, BoundsAssumption DEF Contacted

\* Who is in a snapshot was in it, with what it gathered.
SameSnaps ==
  \A p \in Passes : Snaps(p)' =>
    Snaps(p) /\ pass'[p].leads = pass[p].leads /\ pass'[p].contacted = pass[p].contacted

LEMMA FirstFrame ==
  ASSUME Held, [Next]_vars, FirstInv, UNCHANGED <<follow, stamps, doubled>>, SameSnaps
  PROVE  FirstInv'
<1>1. \A c \in Contacts : Good(c)' => Good(c) /\ (Contacted(meta[c]) => Contacted(meta'[c]))
  BY MetaGrows
<1>2. (~doubled => \A p, q \in Passes : Snaps(p) /\ Snaps(q) => p = q)'
  BY DEF FirstInv, SameSnaps
<1>3. ASSUME NEW c \in Contacts, Good(c)'
      PROVE  /\ follow'[c].contacted => Contacted(meta'[c])
             /\ \A p \in Passes : Snaps(p)' /\ c \in pass'[p].contacted => Contacted(meta'[c])
             /\ ~doubled' =>
                  \A p \in Passes :
                    Snaps(p)' /\ follow'[c].contacted /\ c \in pass'[p].leads => c \in pass'[p].contacted
  BY <1>1, <1>3 DEF FirstInv, SameSnaps
<1>4. ASSUME NEW c \in Contacts, Good(c)'
      PROVE  /\ ~doubled' =>
                  /\ follow'[c].here /\ ~follow'[c].contacted => follow'[c].waited
                  /\ stamps'[c] = IF follow'[c].waited /\ follow'[c].contacted THEN 1 ELSE 0
             /\ ~follow'[c].here => ~follow'[c].contacted /\ ~follow'[c].waited /\ stamps'[c] = 0
  BY <1>1, <1>4 DEF FirstInv
<1>5. QED
  BY <1>2, <1>3, <1>4 DEF FirstInv, Contacted

LEMMA FirstGather ==
  ASSUME Held, [Next]_vars, FirstInv, NEW p \in Passes, Gather(p)
  PROVE  FirstInv'
<1> USE DEF Held
<1>1. /\ Put(p) /\ Snaps(p)' /\ pass'[p].leads = {c \in Contacts : row[c].here}
      /\ pass'[p].contacted = {c \in Contacts : row[c].here /\ Contacted(meta[c])}
  BY GatherEffect DEF Snaps
<1>2. UNCHANGED <<follow, stamps, meta>> /\ \A c : Good(c)' <=> Good(c)
  BY DEF Gather, store, Good
<1>3. ~doubled' => ~doubled /\ \A q \in Passes : ~Snaps(q)
  BY DEF Gather, Snaps
<1>4. \A q \in Passes \ {p} : Snaps(q)' => Snaps(q) /\ pass'[q] = pass[q]
  BY <1>1 DEF Put, Snaps
<1>5. (~doubled => \A a, q \in Passes : Snaps(a) /\ Snaps(q) => a = q)'
  BY <1>3, <1>4 DEF FirstInv
<1>6. ASSUME NEW c \in Contacts, Good(c)', NEW q \in Passes, Snaps(q)'
      PROVE  /\ c \in pass'[q].contacted => Contacted(meta'[c])
             /\ ~doubled' => (follow'[c].contacted /\ c \in pass'[q].leads => c \in pass'[q].contacted)
  <2>1. CASE q = p
    BY <1>1, <1>2, <1>6, <2>1 DEF FirstInv
  <2>2. CASE q # p
    BY <1>2, <1>3, <1>4, <1>6, <2>2 DEF FirstInv
  <2>3. QED
    BY <2>1, <2>2
<1>7. ASSUME NEW c \in Contacts, Good(c)'
      PROVE  /\ follow'[c].contacted => Contacted(meta'[c])
             /\ ~doubled' =>
                  /\ follow'[c].here /\ ~follow'[c].contacted => follow'[c].waited
                  /\ stamps'[c] = IF follow'[c].waited /\ follow'[c].contacted THEN 1 ELSE 0
             /\ ~follow'[c].here => ~follow'[c].contacted /\ ~follow'[c].waited /\ stamps'[c] = 0
  BY <1>2, <1>3, <1>7 DEF FirstInv
<1>8. QED
  BY <1>5, <1>6, <1>7 DEF FirstInv, Contacted

LEMMA FirstSnapshot ==
  ASSUME Held, [Next]_vars, FirstInv, NEW p \in Passes, Snapshot(p)
  PROVE  FirstInv'
<1> USE DEF Held
<1>1. Put(p) /\ ~Snaps(p)' /\ Snaps(p)
  BY OffEffect DEF Snapshot, Snaps
<1>2. UNCHANGED <<meta, doubled>> /\ \A c : Good(c)' <=> Good(c)
  BY DEF Snapshot, ghosts, Good
<1>3. \A q \in Passes : Snaps(q)' => q # p /\ Snaps(q) /\ pass'[q] = pass[q]
  BY <1>1 DEF Put, Snaps
<1>4. \A c \in Contacts \ pass[p].leads : follow'[c] = follow[c] /\ stamps'[c] = stamps[c]
  BY DEF Snapshot
<1>5. ASSUME NEW c \in Contacts, c \in pass[p].leads
      PROVE  /\ follow'[c].here
             /\ follow'[c].contacted <=> c \in pass[p].contacted
             /\ follow'[c].waited <=> IF follow[c].here THEN follow[c].waited
                                                       ELSE c \notin pass[p].contacted
             /\ stamps'[c] = IF follow[c].here /\ ~follow[c].contacted /\ c \in pass[p].contacted
                             THEN stamps[c] + 1 ELSE stamps[c]
  BY <1>5 DEF Snapshot, Stamp
<1>6. (~doubled => \A a, q \in Passes : Snaps(a) /\ Snaps(q) => a = q)'
  BY <1>2, <1>3 DEF FirstInv
<1>7. ASSUME NEW c \in Contacts, Good(c), c \notin pass[p].leads
      PROVE  /\ follow'[c].contacted => Contacted(meta'[c])
             /\ ~doubled =>
                  /\ follow'[c].here /\ ~follow'[c].contacted => follow'[c].waited
                  /\ stamps'[c] = IF follow'[c].waited /\ follow'[c].contacted THEN 1 ELSE 0
             /\ ~follow'[c].here => ~follow'[c].contacted /\ ~follow'[c].waited /\ stamps'[c] = 0
  BY <1>2, <1>4, <1>7 DEF FirstInv
<1>8. ASSUME NEW c \in Contacts, Good(c), c \in pass[p].leads
      PROVE  /\ follow'[c].contacted => Contacted(meta'[c])
             /\ ~doubled =>
                  /\ follow'[c].here /\ ~follow'[c].contacted => follow'[c].waited
                  /\ stamps'[c] = IF follow'[c].waited /\ follow'[c].contacted THEN 1 ELSE 0
             /\ follow'[c].here
  <2>1. follow'[c].contacted => Contacted(meta'[c])
    BY <1>1, <1>2, <1>5, <1>8 DEF FirstInv
  <2>2. /\ ~follow[c].here => ~follow[c].contacted /\ ~follow[c].waited /\ stamps[c] = 0
        /\ ~doubled =>
             /\ follow[c].contacted => c \in pass[p].contacted
             /\ follow[c].here /\ ~follow[c].contacted => follow[c].waited
             /\ stamps[c] = IF follow[c].waited /\ follow[c].contacted THEN 1 ELSE 0
    BY <1>1, <1>8 DEF FirstInv
  <2>3. ASSUME ~doubled
        PROVE  /\ follow'[c].here /\ ~follow'[c].contacted => follow'[c].waited
               /\ stamps'[c] = IF follow'[c].waited /\ follow'[c].contacted THEN 1 ELSE 0
    BY <1>5, <1>8, <2>2, <2>3
  <2>4. QED
    BY <1>5, <1>8, <2>1, <2>3
<1>9. ASSUME NEW c \in Contacts, Good(c), NEW q \in Passes, Snaps(q)'
      PROVE  /\ c \in pass'[q].contacted => Contacted(meta'[c])
             /\ doubled
  BY <1>1, <1>2, <1>3, <1>9 DEF FirstInv
<1>10. QED
  BY <1>2, <1>6, <1>7, <1>8, <1>9 DEF FirstInv, Contacted

LEMMA FirstPass ==
  ASSUME Held, [Next]_vars, FirstInv, NEW p \in Passes, PassStep(p)
  PROVE  FirstInv'
<1> USE DEF Held
<1>1. ASSUME UNCHANGED <<follow, stamps, doubled>>, Put(p),
             pass'[p].pc # "snapshot" \/ (pass'[p].pc = pass[p].pc /\ Later(p))
      PROVE  FirstInv'
  BY <1>1, FirstFrame DEF SameSnaps, Snaps, Put, Later
<1>2. ~Gather(p) /\ ~Snapshot(p) => UNCHANGED <<follow, stamps, doubled>>
  BY DEF PassStep, StartPass, ListPage, BuildRow, BuildRowMisread, Flush, EndScan, ScanFails,
       PassFails, store, ghosts
<1>3. CASE StartPass(p)
  BY <1>1, <1>2, <1>3, StartPassEffect DEF StartPass, store, ghosts
<1>4. CASE ListPage(p)
  <2>1. pass[p].pc = "scan" /\ UNCHANGED <<follow, stamps, doubled>>
    BY <1>4 DEF ListPage, store, ghosts
  <2>2. QED
    BY <1>1, <1>4, <2>1, ListPageEffect
<1>5. CASE Flush(p)
  <2>1. PICK S \in SUBSET Contacts, m \in BOOLEAN :
          flush(p, S, m) /\ S \in {pass[p].full, pass[p].part}
    BY <1>5, FlushSets
  <2>2. pass' = Written(p, S)
    BY <2>1 DEF flush
  <2>3. UNCHANGED <<follow, stamps, doubled>>
    BY <1>5 DEF Flush
  <2>4. QED
    BY <1>1, <2>2, <2>3, WrittenIs
<1>6. CASE EndScan(p)
  <2>1. UNCHANGED <<follow, stamps, doubled>>
    BY <1>6 DEF EndScan, store, ghosts
  <2>2. QED
    BY <1>1, <1>6, <2>1, EndScanEffect
<1>7. CASE ScanFails(p)
  <2>1. UNCHANGED <<follow, stamps, doubled>>
    BY <1>7 DEF ScanFails, store
  <2>2. QED
    BY <1>1, <1>7, <2>1, ScanFailsEffect
<1>8. ASSUME NEW c \in Contacts, BuildRow(p, c) \/ BuildRowMisread(p, c) PROVE FirstInv'
  <2>1. UNCHANGED <<follow, stamps, doubled>>
    BY <1>8 DEF BuildRow, BuildRowMisread, store
  <2>2. QED
    BY <1>1, <1>8, <2>1, BuildRowEffect
<1>9. CASE PassFails(p)
  <2>1. UNCHANGED <<follow, stamps, doubled>>
    BY <1>9 DEF PassFails, store, ghosts
  <2>2. QED
    BY <1>1, <1>9, <2>1, OffEffect DEF PassFails
<1>10. QED
  BY <1>3, <1>4, <1>5, <1>6, <1>7, <1>8, <1>9, FirstGather, FirstSnapshot DEF PassStep

LEMMA FirstReader ==
  ASSUME Held, [Next]_vars, FirstInv, NEW r \in Readers, ReaderStep(r)
  PROVE  FirstInv'
<1> USE DEF Held
<1>1. UNCHANGED <<follow, stamps, doubled>>
  BY DEF ReaderStep, View, Reread, Fetch, FetchRateLimited, SyncMeta, SyncRow, SyncFails, store, ghosts
<1>2. ASSUME UNCHANGED pass PROVE FirstInv'
  BY <1>1, <1>2, FirstFrame DEF SameSnaps, Snaps
<1>3. ASSUME NEW c \in Contacts, Reread(r, c) PROVE FirstInv'
  BY <1>1, <1>3, TakenEffect, FirstFrame DEF SameSnaps, Snaps, Put
<1>4. ASSUME NEW ok \in BOOLEAN, Returns(r, ok), reader[r].pc # "idle" PROVE FirstInv'
  <2>1. Put(Board) /\ Later(Board) /\ pass'[Board].pc = pass[Board].pc
    BY <1>4, ReturnsEffect
  <2>2. SameSnaps
    BY <2>1 DEF SameSnaps, Snaps, Put, Later
  <2>3. QED
    BY <1>1, <2>2, FirstFrame
<1>5. QED
  BY <1>2, <1>3, <1>4 DEF ReaderStep, View, Fetch, FetchRateLimited, SyncMeta, SyncRow, SyncFails

LEMMA FirstNext ==
  ASSUME Held, FirstInv, [Next]_vars
  PROVE  FirstInv'
<1> USE DEF Held
<1>1. ASSUME UNCHANGED <<follow, stamps, doubled, pass>> PROVE FirstInv'
  BY <1>1, FirstFrame DEF SameSnaps, Snaps
<1>2. WatiStep \/ UNCHANGED vars => UNCHANGED <<follow, stamps, doubled, pass>>
  BY DEF WatiStep, NewMessage, WatiMoves, vars, tasks, store, ghosts
<1>3. ASSUME NEW d \in Desks, DeskStep(d) PROVE UNCHANGED <<follow, stamps, doubled, pass>>
  BY <1>3 DEF DeskStep, DeskUnchanged, Assign, Undo, NewBatch, PassOver, Look, LookFails, Accepted,
       Refused, Unanswered, Update, UpdateFails, logRow, logRowFails, EndBatch
<1>4. CASE BoardStep
  <2>1. UNCHANGED <<follow, stamps, doubled>>
    BY <1>4 DEF BoardStep, SelectWindow, EndReread, store, ghosts
  <2>2. Put(Board) /\ pass'[Board].pc # "snapshot"
    <3>1. EndReread => Moves(Board, "gather")
      BY DEF EndReread, Moves
    <3>2. QED
      BY <1>4, <3>1, SelectEffect, MovesEffect, NamesAssumption DEF BoardStep
  <2>3. QED
    BY <2>1, <2>2, FirstFrame DEF SameSnaps, Snaps, Put
<1>5. CASE Crash
  <2>1. UNCHANGED <<follow, stamps, doubled>> /\ \A p \in Passes : pass'[p].pc = "off"
    BY <1>5 DEF Crash, store, NoPass
  <2>2. QED
    BY <2>1, FirstFrame DEF SameSnaps, Snaps
<1>6. QED
  BY <1>1, <1>2, <1>3, <1>4, <1>5, FirstPass, FirstReader DEF Next

\* contactStatus.js:178-180, 199: contacted_at is stamped once, on the first change from not
\* contacted to contacted, however often the lead is seen, as long as no two snapshots are
\* under way at one time, no two writers overlapped on the lead and no failed read of it passed
\* for an empty one.
THEOREM FirstContactStamped == Spec => []FirstContactStands
<1>1. Init => Held /\ FirstInv
  BY HeldInit, FirstInit
<1>2. Held /\ FirstInv /\ [Next]_vars => Held' /\ FirstInv'
  BY HeldNext, FirstNext
<1>3. FirstInv => FirstContactStands
  BY DEF FirstInv, FirstContactStands, Good
<1>4. QED
  BY <1>1, <1>2, <1>3, PTL DEF Spec
=============================================================================
