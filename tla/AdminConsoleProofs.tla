-------------------------- MODULE AdminConsoleProofs --------------------------
(***************************************************************************)
(* Proofs about AdminConsole, for every set of names, payloads, CSV files  *)
(* and requests: what the console keeps of its administrators, and that    *)
(* the table it works on implements AccountTable.                          *)
(***************************************************************************)
EXTENDS AdminConsole, FiniteSetTheorems, SequenceTheorems, TLAPS

RequestType == [pc : {"idle", "insert", "upRead", "upWrite", "upReread",
                      "delRead", "delRow", "import"},
                name : Names \cup {NoName},
                set : Payloads \cup {NoPayload}, row : Row \cup {NoAccount},
                lines : Lines \cup {<<>>}]

\* The id of the configured administrator when the process started.
AdminId == FirstIds[AdminUser]

\* Every row in the table is in the history, and ids are given out in order, each
\* to one name.
PastKnown ==
  /\ \A n \in Names : accounts[n] # NoAccount => accounts[n] \in past
  /\ \A m, n \in Names :
        (accounts[m] # NoAccount /\ accounts[n] # NoAccount /\ accounts[m].id = accounts[n].id)
          => m = n
  /\ \A row \in past : row.id <= lastUid
  /\ Cardinality(Names) <= lastUid

\* A handler knows what it is about to do; a row it has read was once in the table;
\* and the name whose row it may delete has that row's account still, or none, or
\* one that is younger than the process.
HandlerKnows(q, table, rows) ==
  /\ q.pc \in {"insert", "upRead", "upWrite"} => q.set \in Payloads
  /\ q.pc \notin {"idle", "import"} => q.name \in Names
  /\ q.pc = "upWrite" => q.row \in rows /\ ValidUpdate(q.set)
  /\ q.pc = "delRow" =>
       /\ q.row \in rows /\ q.row.set.role # "admin"
       /\ table[q.name] # NoAccount =>
            table[q.name].id = q.row.id \/ table[q.name].id > Cardinality(Names)

\* Nobody but the configured administrator was ever one, he has not let his account
\* expire, and no CSV was imported.
SoleSoFar ==
  /\ ~ imported
  /\ \A row \in past : MayAdminister(row) => row.id = AdminId
  /\ \A row \in past : row.id = AdminId => ~ row.set.expired

\* A request that cannot lock the configured administrator out.
Harmless(q) ==
  /\ q.pc # "import" /\ q.lines = <<>>
  /\ q.pc \in {"upRead", "upWrite"} /\ q.name = AdminUser => ~ SelfHarm(q.set)
  /\ q.pc = "upWrite" /\ q.row.id = AdminId => q.name = AdminUser
  /\ q.pc \in {"delRead", "delRow"} => q.name # AdminUser

AdminKept ==
  /\ AdminId \in 1..Cardinality(Names)
  /\ \E row \in past : row.id = AdminId /\ MayAdminister(row)
  /\ \A n \in Names : HasId(n, AdminId) => n = AdminUser
  /\ SoleSoFar =>
       /\ HasId(AdminUser, AdminId)
       /\ \A row \in past : row.id = AdminId => MayAdminister(row)
       /\ \A r \in Requests : Harmless(req[r])

IndInv ==
  /\ TypeOK
  /\ PastKnown
  /\ \A r \in Requests : HandlerKnows(req[r], accounts, past)
  /\ FoundingAdminsStay
  /\ AdminKept

-----------------------------------------------------------------------------
(***************************************************************************)
(* Constants and types.                                                    *)
(***************************************************************************)

\* The bounds are numbers, and the names are finitely many.
LEMMA Bounds ==
  /\ AdminUser \in Names /\ NoAccount \notin Row
  /\ MaxOps \in Nat /\ MaxUid \in Nat /\ MaxRestarts \in Nat
  /\ Cardinality(Names) \in Nat /\ Cardinality(Names) <= MaxUid
BY ConsoleAssumption, FS_CardinalityType

\* What a payload may hold.
LEMMA PayloadTyped ==
  ASSUME NEW p \in Payloads
  PROVE  /\ "role" \in DOMAIN p => p["role"] \in Roles
         /\ "enabled" \in DOMAIN p => p["enabled"] \in BOOLEAN
         /\ "expired" \in DOMAIN p => p["expired"] \in BOOLEAN
         /\ "maxConns" \in DOMAIN p => p["maxConns"] \in Int
BY ConsoleAssumption

\* A row has an id and settings.
LEMMA RowTyped ==
  ASSUME NEW row \in Row
  PROVE  /\ row.id \in 1..MaxUid /\ row.id \in Nat
         /\ row.set \in Settings
         /\ row.set.role \in Roles /\ row.set.enabled \in BOOLEAN
         /\ row.set.expired \in BOOLEAN /\ row.set.maxConns \in Nat \ {0}
         /\ row # NoAccount
BY Bounds DEF Row, Settings, Table!Settings

\* UpdateUserByUsername writes a row of the same id, with the settings that the
\* payload names.
LEMMA MergeTyped ==
  ASSUME NEW row \in Row, NEW p \in Payloads, ValidUpdate(p)
  PROVE  /\ Merge(row, p) \in Row
         /\ Merge(row, p).id = row.id
         /\ Merge(row, p).set.role = IF "role" \in DOMAIN p THEN p["role"] ELSE row.set.role
         /\ Merge(row, p).set.enabled =
              IF "enabled" \in DOMAIN p THEN p["enabled"] ELSE row.set.enabled
<1> DEFINE set == [f \in Table!Fields |-> IF f \in DOMAIN p THEN p[f] ELSE row.set[f]]
<1>1. /\ set["role"] = IF "role" \in DOMAIN p THEN p["role"] ELSE row.set.role
      /\ set["enabled"] = IF "enabled" \in DOMAIN p THEN p["enabled"] ELSE row.set.enabled
      /\ set["expired"] = IF "expired" \in DOMAIN p THEN p["expired"] ELSE row.set.expired
      /\ set["maxConns"] = IF "maxConns" \in DOMAIN p THEN p["maxConns"] ELSE row.set.maxConns
  BY DEF Table!Fields
<1>2. /\ set["role"] \in Roles /\ set["enabled"] \in BOOLEAN /\ set["expired"] \in BOOLEAN
      /\ set["maxConns"] \in Nat \ {0}
  BY <1>1, RowTyped, PayloadTyped DEF ValidUpdate
<1>3. set = [f \in {"role", "enabled", "expired", "maxConns"} |-> set[f]]
  BY DEF Table!Fields
<1>4. Merge(row, p) = [row EXCEPT !.set = set]
  BY DEF Merge, Table!Merge
<1> HIDE DEF set
<1>5. set \in Settings
  BY <1>2, <1>3 DEF Settings, Table!Settings
<1>6. Merge(row, p) \in Row /\ Merge(row, p).id = row.id /\ Merge(row, p).set = set
  BY <1>4, <1>5 DEF Row
<1> QED
  BY <1>1, <1>6

\* CreateUser writes proper settings, whatever it is given.
LEMMA NewSettingsTyped ==
  ASSUME NEW p \in Payloads
  PROVE  NewSettings(p) \in Settings
<1>1. "user" \in Roles
  BY ConsoleAssumption
<1>2. (IF "role" \in DOMAIN p THEN p["role"] ELSE "user") \in Roles
  BY <1>1, PayloadTyped
<1>3. (IF "enabled" \in DOMAIN p THEN p["enabled"] ELSE TRUE) \in BOOLEAN
  BY PayloadTyped
<1>4. (IF "expired" \in DOMAIN p THEN p["expired"] ELSE FALSE) \in BOOLEAN
  BY PayloadTyped
<1>5. (IF "maxConns" \in DOMAIN p /\ p["maxConns"] > 0 THEN p["maxConns"] ELSE 1) \in Nat \ {0}
  BY PayloadTyped
<1> QED
  BY <1>2, <1>3, <1>4, <1>5, Zenon DEF NewSettings, Settings, Table!Settings

\* A line names an account and a payload, and the rest of the lines is one again.
LEMMA LinesTyped ==
  ASSUME NEW lines \in Lines \cup {<<>>}, lines # <<>>
  PROVE  /\ Head(lines).user \in Names /\ Head(lines).set \in Payloads
         /\ Tail(lines) \in Lines
<1> DEFINE Line == [user : Names, set : Payloads, password : BOOLEAN, parses : BOOLEAN]
<1>0. PICK file \in Files : lines \in {SubSeq(file, k, Len(file)) : k \in 1..(Len(file) + 1)}
  BY DEF Lines
<1>1. PICK k \in 1..(Len(file) + 1) : lines = SubSeq(file, k, Len(file))
  BY <1>0
<1>2. file \in Seq(Line) /\ Len(file) \in Nat
  BY ConsoleAssumption, LenProperties
<1> HIDE DEF Line
<1>3. k <= Len(file)
  BY <1>1, <1>2
<1>4. lines \in Seq(Line) /\ Head(lines) = file[k] /\ Head(lines) \in Line
  BY <1>1, <1>2, <1>3
<1>5. Tail(lines) = SubSeq(file, k + 1, Len(file))
  BY <1>1, <1>2, <1>3
<1>6. k + 1 \in 1..(Len(file) + 1)
  BY <1>2, <1>3
<1>7. Tail(lines) \in {SubSeq(file, j, Len(file)) : j \in 1..(Len(file) + 1)}
  BY <1>5, <1>6
<1>8. Tail(lines) \in Lines
  BY <1>7 DEF Lines
<1> QED
  BY <1>4, <1>8 DEF Line

\* A file is a remainder of itself.
LEMMA FileTyped ==
  ASSUME NEW file \in Files
  PROVE  file \in Lines
<1>1. file \in Seq([user : Names, set : Payloads, password : BOOLEAN, parses : BOOLEAN])
  BY ConsoleAssumption
<1>2. Len(file) \in Nat /\ file = SubSeq(file, 1, Len(file)) /\ 1 \in 1..(Len(file) + 1)
  BY <1>1, LenProperties
<1> QED
  BY <1>2 DEF Lines

-----------------------------------------------------------------------------
(***************************************************************************)
(* What a step does to the table: nothing, or one of three things to one   *)
(* row.                                                                    *)
(***************************************************************************)
Inserts(n, row) ==
  /\ accounts[n] = NoAccount
  /\ lastUid' = lastUid + 1 /\ lastUid' <= MaxUid
  /\ row.id = lastUid'
  /\ Put(n, row)

Rewrites(n, row) == HasId(n, row.id) /\ Put(n, row) /\ lastUid' = lastUid

Removes(n) == Put(n, NoAccount) /\ lastUid' = lastUid

\* The deletion is of an account that was no administrator once, or of a young one,
\* or of none.
FoundersSafe(n) ==
  accounts[n] # NoAccount =>
    \/ accounts[n].id > Cardinality(Names)
    \/ \E row \in past : row.id = accounts[n].id /\ row.set.role # "admin"

TableStep ==
  \/ TableKept
  \/ \E n \in Names, row \in Row : Inserts(n, row)
  \/ \E n \in Names, row \in Row : Rewrites(n, row)
  \/ \E n \in Names : Removes(n) /\ FoundersSafe(n)

TableTyped ==
  /\ accounts \in [Names -> Row \cup {NoAccount}]
  /\ lastUid \in 0..MaxUid
  /\ past \subseteq Row

\* What the history gains is the row that is put.
LEMMA PastAfterPut ==
  ASSUME TableTyped, PastKnown, NEW n \in Names, NEW row \in Row \cup {NoAccount}, Put(n, row)
  PROVE  /\ accounts' \in [Names -> Row \cup {NoAccount}]
         /\ accounts'[n] = row /\ \A m \in Names \ {n} : accounts'[m] = accounts[m]
         /\ past' \subseteq Row /\ past \subseteq past'
         /\ \A x \in past' : x \in past \/ (x = row /\ row # NoAccount)
         /\ row # NoAccount => row \in past'
<1>1. /\ accounts' = [accounts EXCEPT ![n] = row]
      /\ past' = past \cup Table!RowsOf(accounts')
  BY DEF Put, SetTable
<1>2. /\ accounts' \in [Names -> Row \cup {NoAccount}]
      /\ accounts'[n] = row /\ \A m \in Names \ {n} : accounts'[m] = accounts[m]
  BY <1>1 DEF TableTyped
<1>3. \A x : x \in Table!RowsOf(accounts') <=>
                \E m \in Names : accounts'[m] # NoAccount /\ x = accounts'[m]
  BY DEF Table!RowsOf
<1>4. \A x \in Table!RowsOf(accounts') : x \in past \/ (x = row /\ row # NoAccount)
  BY <1>2, <1>3 DEF PastKnown
<1>5. row # NoAccount => row \in Table!RowsOf(accounts')
  BY <1>2, <1>3
<1> QED
  BY <1>1, <1>2, <1>4, <1>5 DEF TableTyped

\* Ids stay unique, and in order.
LEMMA TableStepKeeps ==
  ASSUME TableTyped, PastKnown, TableStep
  PROVE  TableTyped' /\ PastKnown' /\ past \subseteq past'
<1>1. CASE TableKept
  BY <1>1 DEF TableKept, TableTyped, PastKnown
<1>2. ASSUME NEW n \in Names, NEW row \in Row, Inserts(n, row)
      PROVE  TableTyped' /\ PastKnown' /\ past \subseteq past'
  <2>1. /\ accounts' \in [Names -> Row \cup {NoAccount}]
        /\ accounts'[n] = row /\ \A m \in Names \ {n} : accounts'[m] = accounts[m]
        /\ past' \subseteq Row /\ past \subseteq past'
        /\ \A x \in past' : x \in past \/ (x = row /\ row # NoAccount)
        /\ row # NoAccount => row \in past'
    BY <1>2, PastAfterPut DEF Inserts
  <2>2. /\ lastUid \in Nat /\ lastUid' = lastUid + 1 /\ lastUid' \in 0..MaxUid
        /\ row.id = lastUid' /\ row # NoAccount
    BY <1>2, Bounds DEF Inserts, TableTyped
  <2>3. \A x \in past : x.id \in Nat /\ x.id <= lastUid
    BY RowTyped DEF TableTyped, PastKnown
  <2>4. \A m \in Names : accounts[m] # NoAccount => accounts[m].id # row.id
    BY <2>2, <2>3 DEF PastKnown
  <2>5. \A x \in past' : x.id <= lastUid'
    BY <2>1, <2>2, <2>3
  <2>6. Cardinality(Names) <= lastUid'
    BY <2>2, Bounds DEF PastKnown
  <2>7. \A m, k \in Names :
          (accounts'[m] # NoAccount /\ accounts'[k] # NoAccount /\ accounts'[m].id = accounts'[k].id)
            => m = k
    BY <2>1, <2>4 DEF PastKnown
  <2>8. \A m \in Names : accounts'[m] # NoAccount => accounts'[m] \in past'
    BY <2>1 DEF PastKnown
  <2> QED
    BY <2>1, <2>2, <2>5, <2>6, <2>7, <2>8 DEF TableTyped, PastKnown
<1>3. ASSUME NEW n \in Names, NEW row \in Row, Rewrites(n, row)
      PROVE  TableTyped' /\ PastKnown' /\ past \subseteq past'
  <2>1. /\ accounts' \in [Names -> Row \cup {NoAccount}]
        /\ accounts'[n] = row /\ \A m \in Names \ {n} : accounts'[m] = accounts[m]
        /\ past' \subseteq Row /\ past \subseteq past'
        /\ \A x \in past' : x \in past \/ (x = row /\ row # NoAccount)
        /\ row # NoAccount => row \in past'
    BY <1>3, PastAfterPut DEF Rewrites
  <2>2. lastUid' = lastUid /\ accounts[n] # NoAccount /\ accounts[n].id = row.id
    BY <1>3 DEF Rewrites, HasId
  <2>3. \A x \in past' : x.id <= lastUid'
    BY <2>1, <2>2 DEF PastKnown
  <2>4. \A m, k \in Names :
          (accounts'[m] # NoAccount /\ accounts'[k] # NoAccount /\ accounts'[m].id = accounts'[k].id)
            => m = k
    BY <2>1, <2>2 DEF PastKnown
  <2>5. \A m \in Names : accounts'[m] # NoAccount => accounts'[m] \in past'
    BY <2>1 DEF PastKnown
  <2> QED
    BY <2>1, <2>2, <2>3, <2>4, <2>5 DEF TableTyped, PastKnown
<1>4. ASSUME NEW n \in Names, Removes(n)
      PROVE  TableTyped' /\ PastKnown' /\ past \subseteq past'
  <2>1. /\ accounts' \in [Names -> Row \cup {NoAccount}]
        /\ accounts'[n] = NoAccount /\ \A m \in Names \ {n} : accounts'[m] = accounts[m]
        /\ past' \subseteq Row /\ past \subseteq past'
        /\ \A x \in past' : x \in past
    BY <1>4, PastAfterPut DEF Removes
  <2>2. lastUid' = lastUid
    BY <1>4 DEF Removes
  <2> QED
    BY <2>1, <2>2 DEF TableTyped, PastKnown
<1> QED
  BY <1>1, <1>2, <1>3, <1>4 DEF TableStep

\* An account that a name has, it had before, or it is younger than the process.
LEMMA NamesKeepAccounts ==
  ASSUME TableTyped, PastKnown, TableStep, NEW n \in Names, accounts'[n] # NoAccount
  PROVE  \/ accounts[n] # NoAccount /\ accounts'[n].id = accounts[n].id
         \/ accounts'[n].id > Cardinality(Names)
<1>1. ASSUME NEW m \in Names, NEW row \in Row, Inserts(m, row)
      PROVE  \/ accounts[n] # NoAccount /\ accounts'[n].id = accounts[n].id
             \/ accounts'[n].id > Cardinality(Names)
  <2>1. accounts'[m] = row /\ \A k \in Names \ {m} : accounts'[k] = accounts[k]
    BY <1>1, PastAfterPut DEF Inserts
  <2>2. row.id > Cardinality(Names)
    BY <1>1, Bounds DEF Inserts, PastKnown, TableTyped
  <2> QED
    BY <2>1, <2>2
<1>2. ASSUME NEW m \in Names, NEW row \in Row, Rewrites(m, row)
      PROVE  accounts[n] # NoAccount /\ accounts'[n].id = accounts[n].id
  <2>1. accounts'[m] = row /\ \A k \in Names \ {m} : accounts'[k] = accounts[k]
    BY <1>2, PastAfterPut DEF Rewrites
  <2> QED
    BY <1>2, <2>1 DEF Rewrites, HasId
<1>3. ASSUME NEW m \in Names, Removes(m)
      PROVE  accounts[n] # NoAccount /\ accounts'[n].id = accounts[n].id
  <2>1. accounts'[m] = NoAccount /\ \A k \in Names \ {m} : accounts'[k] = accounts[k]
    BY <1>3, PastAfterPut DEF Removes
  <2> QED
    BY <2>1
<1> QED
  BY <1>1, <1>2, <1>3 DEF TableStep, TableKept

\* A row that is new in the history is in the table now.
LEMMA NewRowsPresent ==
  ASSUME TableTyped, PastKnown, TableStep, NEW x \in past', x \notin past
  PROVE  \E n \in Names : accounts'[n] = x /\ x # NoAccount
<1>1. ASSUME NEW n \in Names, NEW row \in Row \cup {NoAccount}, Put(n, row)
      PROVE  \E m \in Names : accounts'[m] = x /\ x # NoAccount
  BY <1>1, PastAfterPut
<1> QED
  BY <1>1 DEF TableStep, TableKept, Inserts, Rewrites, Removes

\* An id that the table has it keeps, unless its row is removed.
LEMMA IdsStay ==
  ASSUME TableTyped, PastKnown, TableStep, FoundingAdminsStay
  PROVE  FoundingAdminsStay'
<1>1. past \subseteq past'
  BY TableStepKeeps
<1> SUFFICES ASSUME NEW old \in past', old.id <= Cardinality(Names),
                    \A row \in past' : row.id = old.id => row.set.role = "admin"
             PROVE  \E n \in Names : accounts'[n] # NoAccount /\ accounts'[n].id = old.id
  BY DEF FoundingAdminsStay, HasId
<1>2. CASE old \notin past
  BY <1>2, NewRowsPresent
<1>3. CASE old \in past
  <2>1. PICK n \in Names : accounts[n] # NoAccount /\ accounts[n].id = old.id
    BY <1>1, <1>3 DEF FoundingAdminsStay, HasId
  <2>2. CASE TableKept
    BY <2>1, <2>2 DEF TableKept
  <2>3. ASSUME NEW m \in Names, NEW row \in Row, Inserts(m, row)
        PROVE  accounts'[n] # NoAccount /\ accounts'[n].id = old.id
    BY <2>1, <2>3, PastAfterPut DEF Inserts
  <2>4. ASSUME NEW m \in Names, NEW row \in Row, Rewrites(m, row)
        PROVE  accounts'[n] # NoAccount /\ accounts'[n].id = old.id
    BY <2>1, <2>4, PastAfterPut, RowTyped DEF Rewrites, HasId
  <2>5. ASSUME NEW m \in Names, Removes(m), FoundersSafe(m)
        PROVE  accounts'[n] # NoAccount /\ accounts'[n].id = old.id
    <3>1. /\ old.id \in Nat /\ Cardinality(Names) \in Nat
      BY <1>3, RowTyped, Bounds DEF TableTyped
    <3>2. m # n
      BY <1>1, <2>1, <2>5, <3>1 DEF FoundersSafe
    <3> QED
      BY <2>1, <2>5, <3>2, PastAfterPut DEF Removes
  <2> QED
    BY <2>2, <2>3, <2>4, <2>5 DEF TableStep
<1> QED
  BY <1>2, <1>3

-----------------------------------------------------------------------------
(***************************************************************************)
(* What a step keeps, if the one request it moves knows what it is about   *)
(* to do.                                                                  *)
(***************************************************************************)

\* The invariant, in its parts.
LEMMA Parts ==
  ASSUME IndInv
  PROVE  /\ TableTyped /\ PastKnown /\ FoundingAdminsStay /\ AdminKept
         /\ req \in [Requests -> RequestType]
         /\ \A r \in Requests : req[r] \in RequestType /\ HandlerKnows(req[r], accounts, past)
BY DEF IndInv, TypeOK, TableTyped, RequestType

\* What a handler knew it knows still after a step that is not its own.
LEMMA KnowsLater ==
  ASSUME TableTyped, PastKnown, TableStep, NEW q, HandlerKnows(q, accounts, past)
  PROVE  HandlerKnows(q, accounts', past')
<1>1. past \subseteq past'
  BY TableStepKeeps
<1>2. ASSUME q.pc = "delRow", accounts'[q.name] # NoAccount
      PROVE  accounts'[q.name].id = q.row.id \/ accounts'[q.name].id > Cardinality(Names)
  <2>1. q.name \in Names
    BY <1>2 DEF HandlerKnows
  <2> QED
    BY <1>2, <2>1, NamesKeepAccounts DEF HandlerKnows
<1> QED
  BY <1>1, <1>2 DEF HandlerKnows

\* While the configured administrator is the only one, his account may administer.
LEMMA SoleAdmin ==
  ASSUME TableTyped, PastKnown, AdminKept, SoleSoFar
  PROVE  /\ HasId(AdminUser, AdminId) /\ MayAdminister(accounts[AdminUser])
         /\ \A r \in Requests : Harmless(req[r])
BY Bounds DEF AdminKept, PastKnown, HasId

\* AdminKept, but for the requests.
LEMMA AdminStays ==
  ASSUME TableTyped, PastKnown, AdminKept, TableStep, imported => imported',
         SoleSoFar /\ SoleSoFar' =>
            /\ HasId(AdminUser, AdminId)' /\ MayAdminister(accounts'[AdminUser])
            /\ \A r \in Requests : Harmless(req'[r])
  PROVE  AdminKept'
<1>1. past \subseteq past' /\ TableTyped'
  BY TableStepKeeps
<1>2. AdminId \in 1..Cardinality(Names) /\ Cardinality(Names) \in Nat
  BY Bounds DEF AdminKept
<1>3. \A n \in Names : HasId(n, AdminId)' => n = AdminUser
  <2> SUFFICES ASSUME NEW n \in Names, accounts'[n] # NoAccount, accounts'[n].id = AdminId
               PROVE  n = AdminUser
    BY DEF HasId
  <2>1. accounts[n] # NoAccount /\ accounts'[n].id = accounts[n].id
    BY <1>2, NamesKeepAccounts
  <2> QED
    BY <2>1 DEF AdminKept, HasId
<1>4. SoleSoFar' => SoleSoFar
  BY <1>1 DEF SoleSoFar
<1>5. ASSUME SoleSoFar'
      PROVE  \A row \in past' : row.id = AdminId => MayAdminister(row)
  <2> SUFFICES ASSUME NEW row \in past', row.id = AdminId PROVE MayAdminister(row)
    OBVIOUS
  <2>1. CASE row \in past
    BY <1>4, <1>5, <2>1 DEF AdminKept
  <2>2. CASE row \notin past
    <3>1. PICK n \in Names : accounts'[n] = row /\ row # NoAccount
      BY <2>2, NewRowsPresent
    <3>2. n = AdminUser
      BY <1>3, <3>1 DEF HasId
    <3> QED
      BY <1>4, <1>5, <3>1, <3>2
  <2> QED
    BY <2>1, <2>2
<1>6. \E row \in past' : row.id = AdminId /\ MayAdminister(row)
  BY <1>1 DEF AdminKept
<1> HIDE DEF AdminId
<1> QED
  BY <1>2, <1>3, <1>4, <1>5, <1>6 DEF AdminKept

\* One request moves.
LEMMA RequestMoves ==
  ASSUME IndInv, TableStep, NEW r \in Requests, NEW q \in RequestType,
         req' = [req EXCEPT ![r] = q],
         HandlerKnows(q, accounts', past'),
         SoleSoFar /\ SoleSoFar' =>
            Harmless(q) /\ HasId(AdminUser, AdminId)' /\ MayAdminister(accounts'[AdminUser]),
         ops' \in 0..MaxOps, UNCHANGED restarts, imported' \in BOOLEAN, imported => imported'
  PROVE  IndInv'
<1>1. /\ TableTyped /\ PastKnown /\ FoundingAdminsStay /\ AdminKept
      /\ req \in [Requests -> RequestType]
      /\ \A s \in Requests : HandlerKnows(req[s], accounts, past)
  BY Parts
<1>2. TableTyped' /\ PastKnown' /\ FoundingAdminsStay'
  BY <1>1, TableStepKeeps, IdsStay
<1>3. /\ req' \in [Requests -> RequestType] /\ req'[r] = q
      /\ \A s \in Requests \ {r} : req'[s] = req[s]
  BY <1>1
<1>4. \A s \in Requests : HandlerKnows(req'[s], accounts', past')
  BY <1>1, <1>3, KnowsLater
<1>5. SoleSoFar /\ SoleSoFar' =>
         /\ HasId(AdminUser, AdminId)' /\ MayAdminister(accounts'[AdminUser])
         /\ \A s \in Requests : Harmless(req'[s])
  BY <1>1, <1>3, SoleAdmin
<1>6. AdminKept'
  BY <1>1, <1>5, AdminStays
<1>7. TypeOK'
  BY <1>2, <1>3 DEF IndInv, TypeOK, TableTyped, RequestType
<1> QED
  BY <1>2, <1>4, <1>6, <1>7 DEF IndInv

\* As long as the table stays, so does the configured administrator.
LEMMA AdminStaysWithTable ==
  ASSUME IndInv, TableKept
  PROVE  /\ TableStep
         /\ SoleSoFar => HasId(AdminUser, AdminId)' /\ MayAdminister(accounts'[AdminUser])
BY Parts, SoleAdmin DEF TableKept, TableStep, HasId

\* A request that is answered, or an import that goes on with its next line.
Answered(q) == IF q.lines = <<>> THEN Idle
               ELSE [Idle EXCEPT !.pc = "import", !.lines = Tail(q.lines)]

\* Such a request is one, knows all it needs, and is harmless if it was.
LEMMA AnsweredFits ==
  ASSUME NEW q \in RequestType
  PROVE  /\ Answered(q) \in RequestType
         /\ \A table, rows : HandlerKnows(Answered(q), table, rows)
         /\ Harmless(q) => Harmless(Answered(q))
<1>1. /\ Idle \in RequestType /\ Idle.pc = "idle" /\ Idle.lines = <<>>
  BY DEF Idle, RequestType
<1>2. ASSUME q.lines # <<>>
      PROVE  Tail(q.lines) \in Lines
  <2>1. q.lines \in Lines \cup {<<>>}
    BY DEF RequestType
  <2> QED
    BY <1>2, <2>1, LinesTyped
<1>3. Answered(q) \in RequestType /\ Answered(q).pc \in {"idle", "import"}
  <2>1. CASE q.lines = <<>>
    BY <1>1, <2>1 DEF Answered
  <2>2. CASE q.lines # <<>>
    BY <1>1, <1>2, <2>2 DEF Answered, RequestType
  <2> QED
    BY <2>1, <2>2
<1>4. \A table, rows : HandlerKnows(Answered(q), table, rows)
  BY <1>3 DEF HandlerKnows
<1>5. Harmless(q) => Harmless(Answered(q))
  BY <1>1 DEF Harmless, Answered
<1> QED
  BY <1>3, <1>4, <1>5

-----------------------------------------------------------------------------
(***************************************************************************)
(* The actions.                                                            *)
(***************************************************************************)

\* A request is let in: by an administrator, who is the configured one if nobody
\* else ever was one, and cannot harm himself.
LEMMA AsksKeeps ==
  ASSUME IndInv, NEW r \in Requests, Asks(r)
  PROVE  IndInv'
<1>1. PICK a \in Names :
        \/ \E n \in Names, p \in Payloads : Patch(r, a, n, p) \/ Create(r, a, n, p)
        \/ \E n \in Names : Delete(r, a, n)
        \/ \E file \in Files : Import(r, a, file)
  BY DEF Asks
<1>2. Idle \in RequestType /\ Idle.lines = <<>>
  BY DEF Idle, RequestType
<1>3. MayAdminister(accounts[a]) /\ SoleSoFar => a = AdminUser
  <2> SUFFICES ASSUME MayAdminister(accounts[a]), SoleSoFar PROVE a = AdminUser
    OBVIOUS
  <2>1. accounts[a] # NoAccount /\ accounts[a].id = AdminId
    BY Parts DEF SoleSoFar, PastKnown, MayAdminister
  <2> QED
    BY <2>1, Parts DEF AdminKept, HasId
<1>4. ASSUME NEW q \in RequestType, Accept(r, a, q), HandlerKnows(q, accounts, past),
             SoleSoFar' /\ a = AdminUser => Harmless(q),
             imported' \in BOOLEAN, imported => imported'
      PROVE  IndInv'
  <2>1. /\ MayAdminister(accounts[a]) /\ TableKept /\ UNCHANGED restarts
        /\ req' = [req EXCEPT ![r] = q] /\ ops' \in 0..MaxOps
    BY <1>4, Bounds DEF Accept, IndInv, TypeOK
  <2>2. HandlerKnows(q, accounts', past')
    BY <1>4, <2>1 DEF TableKept
  <2> QED
    BY <1>3, <1>4, <2>1, <2>2, AdminStaysWithTable, RequestMoves
<1>5. ASSUME NEW n \in Names, NEW p \in Payloads, Patch(r, a, n, p)
      PROVE  IndInv'
  <2> DEFINE q == [Idle EXCEPT !.pc = "upRead", !.name = n, !.set = p]
  <2>1. /\ q \in RequestType /\ q.pc = "upRead" /\ q.name = n /\ q.set = p /\ q.lines = <<>>
    BY <1>2 DEF RequestType
  <2>2. ~ (a = n /\ SelfHarm(p)) /\ Accept(r, a, q) /\ UNCHANGED imported
    BY <1>5 DEF Patch
  <2> HIDE DEF q
  <2>3. HandlerKnows(q, accounts, past) /\ (a = AdminUser => Harmless(q))
    BY <2>1, <2>2 DEF HandlerKnows, Harmless
  <2> QED
    BY <1>4, <2>1, <2>2, <2>3 DEF IndInv, TypeOK
<1>6. ASSUME NEW n \in Names, NEW p \in Payloads, Create(r, a, n, p)
      PROVE  IndInv'
  <2> DEFINE q == [Idle EXCEPT !.pc = "insert", !.name = n, !.set = p]
  <2>1. /\ q \in RequestType /\ q.pc = "insert" /\ q.name = n /\ q.set = p /\ q.lines = <<>>
    BY <1>2 DEF RequestType
  <2>2. Accept(r, a, q) /\ UNCHANGED imported
    BY <1>6 DEF Create
  <2> HIDE DEF q
  <2>3. HandlerKnows(q, accounts, past) /\ Harmless(q)
    BY <2>1 DEF HandlerKnows, Harmless
  <2> QED
    BY <1>4, <2>1, <2>2, <2>3 DEF IndInv, TypeOK
<1>7. ASSUME NEW n \in Names, Delete(r, a, n)
      PROVE  IndInv'
  <2> DEFINE q == [Idle EXCEPT !.pc = "delRead", !.name = n]
  <2>1. /\ q \in RequestType /\ q.pc = "delRead" /\ q.name = n /\ q.lines = <<>>
    BY <1>2 DEF RequestType
  <2>2. a # n /\ Accept(r, a, q) /\ UNCHANGED imported
    BY <1>7 DEF Delete
  <2> HIDE DEF q
  <2>3. HandlerKnows(q, accounts, past) /\ (a = AdminUser => Harmless(q))
    BY <2>1, <2>2 DEF HandlerKnows, Harmless
  <2> QED
    BY <1>4, <2>1, <2>2, <2>3 DEF IndInv, TypeOK
<1>8. ASSUME NEW file \in Files, Import(r, a, file)
      PROVE  IndInv'
  <2> DEFINE q == [Idle EXCEPT !.pc = "import", !.lines = file]
  <2>1. q \in RequestType /\ q.pc = "import"
    BY <1>2, FileTyped DEF RequestType
  <2>2. Accept(r, a, q) /\ imported' = TRUE
    BY <1>8 DEF Import
  <2> HIDE DEF q
  <2>3. HandlerKnows(q, accounts, past) /\ ~ SoleSoFar'
    BY <2>1, <2>2 DEF HandlerKnows, SoleSoFar
  <2> QED
    BY <1>4, <2>1, <2>2, <2>3
<1> QED
  BY <1>1, <1>5, <1>6, <1>7, <1>8

\* The steps that read and return: the table stays, the request learns what it read.
LEMMA ReadsKeep ==
  ASSUME IndInv, NEW r \in Requests,
         UpRead(r) \/ UpReread(r) \/ DelRead(r) \/ ImportLine(r) \/ ImportEnd(r)
  PROVE  IndInv'
<1>1. TableKept /\ UNCHANGED <<ops, restarts, imported>>
  BY DEF UpRead, UpReread, DelRead, ImportLine, ImportEnd, AtPc
<1>2. /\ req[r] \in RequestType /\ HandlerKnows(req[r], accounts, past)
      /\ TableTyped /\ PastKnown
      /\ SoleSoFar => Harmless(req[r])
  BY Parts, SoleAdmin
<1>3. ASSUME NEW q \in RequestType, req' = [req EXCEPT ![r] = q],
             HandlerKnows(q, accounts, past), SoleSoFar => Harmless(q)
      PROVE  IndInv'
  <2>1. HandlerKnows(q, accounts', past')
    BY <1>1, <1>3 DEF TableKept
  <2>2. ops' \in 0..MaxOps /\ imported' \in BOOLEAN
    BY <1>1 DEF IndInv, TypeOK
  <2> QED
    BY <1>1, <1>3, <2>1, <2>2, AdminStaysWithTable, RequestMoves
<1>4. ASSUME Return(r) PROVE IndInv'
  <2>1. req' = [req EXCEPT ![r] = Answered(req[r])]
    BY <1>4 DEF Return, Answered
  <2> QED
    BY <1>2, <1>3, <2>1, AnsweredFits
<1>5. CASE UpRead(r)
  <2> DEFINE row == accounts[req[r].name]
             q == [req[r] EXCEPT !.pc = "upWrite", !.row = row]
  <2>1. req[r].pc = "upRead" /\ req[r].name \in Names /\ req[r].set \in Payloads
    BY <1>2, <1>5 DEF UpRead, AtPc, HandlerKnows
  <2>2. CASE row # NoAccount /\ ValidUpdate(req[r].set)
    <3>1. req' = [req EXCEPT ![r] = q]
      BY <1>5, <2>2 DEF UpRead
    <3>2. row \in Row /\ row \in past
      BY <1>2, <2>1, <2>2 DEF TableTyped, PastKnown
    <3>3. /\ q \in RequestType /\ q.pc = "upWrite" /\ q.row = row
          /\ q.name = req[r].name /\ q.set = req[r].set /\ q.lines = req[r].lines
      BY <1>2, <3>2 DEF RequestType
    <3>4. row.id = AdminId => req[r].name = AdminUser
      BY <2>1, <2>2, Parts DEF AdminKept, HasId
    <3> HIDE DEF q
    <3>5. HandlerKnows(q, accounts, past)
      BY <2>1, <2>2, <3>2, <3>3 DEF HandlerKnows
    <3>6. SoleSoFar => Harmless(q)
      BY <1>2, <2>1, <3>3, <3>4 DEF Harmless
    <3> QED
      BY <1>3, <3>1, <3>3, <3>5, <3>6
  <2>3. CASE ~ (row # NoAccount /\ ValidUpdate(req[r].set))
    BY <1>4, <1>5, <2>3 DEF UpRead
  <2> QED
    BY <2>2, <2>3
<1>6. CASE DelRead(r)
  <2> DEFINE row == accounts[req[r].name]
             q == [req[r] EXCEPT !.pc = "delRow", !.row = row]
  <2>1. req[r].pc = "delRead" /\ req[r].name \in Names
    BY <1>2, <1>6 DEF DelRead, AtPc, HandlerKnows
  <2>2. CASE row # NoAccount /\ ~ Refused(row)
    <3>1. req' = [req EXCEPT ![r] = q]
      BY <1>6, <2>2 DEF DelRead
    <3>2. row \in Row /\ row \in past /\ row.set.role # "admin"
      BY <1>2, <2>1, <2>2 DEF TableTyped, PastKnown, Refused
    <3>3. /\ q \in RequestType /\ q.pc = "delRow" /\ q.row = row
          /\ q.name = req[r].name /\ q.lines = req[r].lines
      BY <1>2, <3>2 DEF RequestType
    <3> HIDE DEF q
    <3>4. HandlerKnows(q, accounts, past)
      BY <2>1, <3>2, <3>3 DEF HandlerKnows
    <3>5. SoleSoFar => Harmless(q)
      BY <1>2, <2>1, <3>3 DEF Harmless
    <3> QED
      BY <1>3, <3>1, <3>3, <3>4, <3>5
  <2>3. CASE ~ (row # NoAccount /\ ~ Refused(row))
    BY <1>4, <1>6, <2>3 DEF DelRead
  <2> QED
    BY <2>2, <2>3
<1>7. CASE ImportLine(r)
  <2> DEFINE line == Head(req[r].lines)
             exists == accounts[line.user] # NoAccount
             q == [req[r] EXCEPT !.pc = IF exists THEN "upRead" ELSE "insert",
                                 !.name = line.user, !.set = line.set]
  <2>1. req[r].pc = "import" /\ req[r].lines # <<>> /\ ~ SoleSoFar
    BY <1>2, <1>7 DEF ImportLine, AtPc, Harmless
  <2>2. line.user \in Names /\ line.set \in Payloads
    BY <1>2, <2>1, LinesTyped DEF RequestType
  <2>3. CASE line.parses /\ (exists \/ line.password)
    <3>1. req' = [req EXCEPT ![r] = q]
      BY <1>7, <2>3 DEF ImportLine
    <3>2. /\ q \in RequestType /\ q.pc \in {"upRead", "insert"}
          /\ q.name = line.user /\ q.set = line.set
      BY <1>2, <2>2 DEF RequestType
    <3> HIDE DEF q
    <3>3. HandlerKnows(q, accounts, past)
      BY <2>2, <3>2 DEF HandlerKnows
    <3> QED
      BY <1>3, <2>1, <3>1, <3>2, <3>3
  <2>4. CASE ~ (line.parses /\ (exists \/ line.password))
    BY <1>4, <1>7, <2>4 DEF ImportLine
  <2> QED
    BY <2>3, <2>4
<1> QED
  BY <1>4, <1>5, <1>6, <1>7 DEF UpReread, ImportEnd

\* An update by id hits the one account that has the id still, or none.
LEMMA UpWriteTable ==
  ASSUME IndInv, NEW r \in Requests, UpWrite(r)
  PROVE  /\ req[r].row \in Row /\ req[r].row \in past
         /\ req[r].set \in Payloads /\ ValidUpdate(req[r].set)
         /\ TableKept \/ \E n \in Names : Rewrites(n, Merge(req[r].row, req[r].set))
<1> DEFINE new == Merge(req[r].row, req[r].set)
           table == [n \in Names |-> IF HasId(n, new.id) THEN new ELSE accounts[n]]
<1>1. /\ req[r].row \in Row /\ req[r].row \in past
      /\ req[r].set \in Payloads /\ ValidUpdate(req[r].set)
  BY Parts DEF UpWrite, AtPc, HandlerKnows, TableTyped
<1>2. new \in Row /\ new.id = req[r].row.id
  BY <1>1, MergeTyped
<1>3. SetTable(table) /\ lastUid' = lastUid
  BY DEF UpWrite
<1>4. TableTyped /\ PastKnown
  BY Parts
<1> HIDE DEF new
<1>5. CASE \E n \in Names : HasId(n, new.id)
  <2>1. PICK n \in Names : HasId(n, new.id)
    BY <1>5
  <2>2. \A m \in Names : HasId(m, new.id) => m = n
    BY <1>4, <2>1 DEF HasId, PastKnown
  <2>3. table = [accounts EXCEPT ![n] = new]
    BY <1>4, <2>1, <2>2 DEF TableTyped
  <2> HIDE DEF table
  <2>4. Put(n, new)
    BY <1>3, <2>3 DEF Put
  <2>5. Rewrites(n, new)
    BY <1>3, <2>1, <2>4 DEF Rewrites
  <2> QED
    BY <1>1, <2>5 DEF new
<1>6. CASE ~ \E n \in Names : HasId(n, new.id)
  <2>1. table = accounts
    BY <1>4, <1>6 DEF TableTyped
  <2>2. Table!RowsOf(accounts) \subseteq past
    BY <1>4 DEF PastKnown, Table!RowsOf
  <2> HIDE DEF table
  <2>3. TableKept
    BY <1>3, <2>1, <2>2 DEF SetTable, TableKept
  <2> QED
    BY <1>1, <2>3
<1> QED
  BY <1>5, <1>6

\* The update of the configured administrator leaves him one, unless others were
\* administrators too.
LEMMA UpWriteKeeps ==
  ASSUME IndInv, NEW r \in Requests, UpWrite(r)
  PROVE  IndInv'
<1> DEFINE new == Merge(req[r].row, req[r].set)
           q == [req[r] EXCEPT !.pc = "upReread", !.set = NoPayload, !.row = NoAccount]
<1>1. /\ req[r].row \in Row /\ req[r].row \in past
      /\ req[r].set \in Payloads /\ ValidUpdate(req[r].set)
      /\ TableKept \/ \E n \in Names : Rewrites(n, new)
  BY UpWriteTable
<1>2. /\ new \in Row /\ new.id = req[r].row.id
      /\ new.set.role = IF "role" \in DOMAIN req[r].set THEN req[r].set["role"]
                        ELSE req[r].row.set.role
      /\ new.set.enabled = IF "enabled" \in DOMAIN req[r].set THEN req[r].set["enabled"]
                           ELSE req[r].row.set.enabled
  BY <1>1, MergeTyped
<1>3. /\ TableTyped /\ PastKnown /\ AdminKept /\ req[r] \in RequestType
      /\ req[r].pc = "upWrite" /\ req[r].name \in Names
  BY Parts DEF UpWrite, AtPc, HandlerKnows
<1>4. TableStep
  BY <1>1, <1>2 DEF TableStep
<1>5. /\ q \in RequestType /\ q.pc = "upReread" /\ q.name = req[r].name
      /\ q.lines = req[r].lines
  BY <1>3 DEF RequestType
<1>6. req' = [req EXCEPT ![r] = q] /\ UNCHANGED <<ops, restarts, imported>>
  BY DEF UpWrite, AtPc
<1> HIDE DEF new, q
<1>7. ASSUME SoleSoFar, SoleSoFar'
      PROVE  Harmless(q) /\ HasId(AdminUser, AdminId)' /\ MayAdminister(accounts'[AdminUser])
  <2>1. Harmless(req[r]) /\ HasId(AdminUser, AdminId) /\ MayAdminister(accounts[AdminUser])
    BY <1>3, <1>7, SoleAdmin
  <2>2. Harmless(q)
    BY <1>5, <2>1 DEF Harmless
  <2>3. CASE TableKept
    BY <2>1, <2>2, <2>3 DEF TableKept, HasId
  <2>4. ASSUME NEW n \in Names, Rewrites(n, new), n # AdminUser
        PROVE  HasId(AdminUser, AdminId)' /\ MayAdminister(accounts'[AdminUser])
    <3>1. accounts'[AdminUser] = accounts[AdminUser]
      BY <1>2, <1>3, <2>4, PastAfterPut, Bounds DEF Rewrites
    <3> QED
      BY <2>1, <3>1 DEF HasId
  <2>5. ASSUME Rewrites(AdminUser, new)
        PROVE  HasId(AdminUser, AdminId)' /\ MayAdminister(accounts'[AdminUser])
    <3>1. accounts'[AdminUser] = new /\ new # NoAccount /\ new \in past'
      BY <1>2, <1>3, <2>5, PastAfterPut, Bounds DEF Rewrites
    <3>2. new.id = AdminId
      BY <2>1, <2>5 DEF Rewrites, HasId
    <3>3. ~ new.set.expired
      BY <1>7, <3>1, <3>2 DEF SoleSoFar
    <3>4. MayAdminister(req[r].row)
      BY <1>1, <1>2, <1>3, <1>7, <3>2 DEF AdminKept
    <3>5. ~ SelfHarm(req[r].set)
      BY <1>2, <1>3, <2>1, <3>2 DEF Harmless
    <3>6. new.set.role = "admin" /\ new.set.enabled
      BY <1>1, <1>2, <3>4, <3>5, PayloadTyped DEF MayAdminister, SelfHarm
    <3> QED
      BY <3>1, <3>2, <3>3, <3>6 DEF MayAdminister, HasId
  <2> QED
    BY <1>1, <2>2, <2>3, <2>4, <2>5
<1>8. HandlerKnows(q, accounts', past')
  BY <1>3, <1>5 DEF HandlerKnows
<1> QED
  BY <1>4, <1>5, <1>6, <1>7, <1>8, RequestMoves DEF IndInv, TypeOK

\* A name that is taken is not inserted again; one that is free gets a new id.
LEMMA InsertTable ==
  ASSUME IndInv, NEW r \in Requests, InsertRow(r)
  PROVE  /\ req[r].name \in Names
         /\ \/ TableKept
            \/ /\ [id |-> lastUid + 1, set |-> NewSettings(req[r].set)] \in Row
               /\ NewSettings(req[r].set) \in Settings
               /\ Inserts(req[r].name, [id |-> lastUid + 1, set |-> NewSettings(req[r].set)])
<1>1. req[r].name \in Names /\ req[r].set \in Payloads
  BY Parts DEF InsertRow, AtPc, HandlerKnows
<1>2. NewSettings(req[r].set) \in Settings
  BY <1>1, NewSettingsTyped
<1>3. CASE accounts[req[r].name] = NoAccount
  <2>1. lastUid + 1 \in 1..MaxUid /\ lastUid' = lastUid + 1 /\ lastUid' <= MaxUid
    BY <1>3, Parts, Bounds DEF InsertRow, TableTyped
  <2>2. [id |-> lastUid + 1, set |-> NewSettings(req[r].set)] \in Row
    BY <1>2, <2>1 DEF Row
  <2>3. Put(req[r].name, [id |-> lastUid + 1, set |-> NewSettings(req[r].set)])
    BY <1>3 DEF InsertRow
  <2> QED
    BY <1>1, <1>2, <1>3, <2>1, <2>2, <2>3 DEF Inserts
<1>4. CASE accounts[req[r].name] # NoAccount
  BY <1>1, <1>4 DEF InsertRow
<1> QED
  BY <1>3, <1>4

\* A row that is inserted is no administrator's that the process knew.
LEMMA InsertKeeps ==
  ASSUME IndInv, NEW r \in Requests, InsertRow(r)
  PROVE  IndInv'
<1> DEFINE row == [id |-> lastUid + 1, set |-> NewSettings(req[r].set)]
<1>1. /\ req[r].name \in Names
      /\ TableKept \/ (row \in Row /\ Inserts(req[r].name, row))
  BY InsertTable
<1>2. req' = [req EXCEPT ![r] = Answered(req[r])] /\ UNCHANGED <<ops, restarts, imported>>
  BY DEF InsertRow, Return, Answered, AtPc
<1>3. /\ TableTyped /\ PastKnown /\ AdminKept /\ req[r] \in RequestType
  BY Parts
<1> HIDE DEF row
<1>4. TableStep
  BY <1>1 DEF TableStep
<1>5. ASSUME SoleSoFar
      PROVE  /\ Harmless(Answered(req[r]))
             /\ HasId(AdminUser, AdminId)' /\ MayAdminister(accounts'[AdminUser])
  <2>1. Harmless(req[r]) /\ HasId(AdminUser, AdminId) /\ MayAdminister(accounts[AdminUser])
    BY <1>3, <1>5, SoleAdmin
  <2>2. accounts'[AdminUser] = accounts[AdminUser]
    <3>1. CASE TableKept
      BY <3>1 DEF TableKept
    <3>2. CASE row \in Row /\ Inserts(req[r].name, row)
      BY <1>1, <1>3, <2>1, <3>2, PastAfterPut, Bounds DEF Inserts, HasId
    <3> QED
      BY <1>1, <3>1, <3>2
  <2> QED
    BY <1>3, <2>1, <2>2, AnsweredFits DEF HasId
<1> QED
  BY <1>2, <1>3, <1>4, <1>5, AnsweredFits, RequestMoves DEF IndInv, TypeOK

\* The row that is deleted by name is the one that was read, or a younger one.
LEMMA DelTable ==
  ASSUME IndInv, NEW r \in Requests, DelRow(r)
  PROVE  req[r].name \in Names /\ Removes(req[r].name) /\ FoundersSafe(req[r].name)
<1>1. /\ req[r].pc = "delRow" /\ HandlerKnows(req[r], accounts, past)
  BY Parts DEF DelRow, AtPc
<1> QED
  BY <1>1 DEF HandlerKnows, DelRow, Removes, FoundersSafe

\* Only another administrator deletes the configured one.
LEMMA DelKeeps ==
  ASSUME IndInv, NEW r \in Requests, DelRow(r)
  PROVE  IndInv'
<1>1. req[r].name \in Names /\ Removes(req[r].name) /\ FoundersSafe(req[r].name)
  BY DelTable
<1>2. req' = [req EXCEPT ![r] = Answered(req[r])] /\ UNCHANGED <<ops, restarts, imported>>
  BY DEF DelRow, Return, Answered, AtPc
<1>3. /\ TableTyped /\ PastKnown /\ AdminKept /\ req[r] \in RequestType
      /\ req[r].pc = "delRow"
  BY Parts DEF DelRow, AtPc
<1>4. TableStep
  BY <1>1 DEF TableStep
<1>5. ASSUME SoleSoFar
      PROVE  /\ Harmless(Answered(req[r]))
             /\ HasId(AdminUser, AdminId)' /\ MayAdminister(accounts'[AdminUser])
  <2>1. Harmless(req[r]) /\ HasId(AdminUser, AdminId) /\ MayAdminister(accounts[AdminUser])
    BY <1>3, <1>5, SoleAdmin
  <2>2. req[r].name # AdminUser
    BY <1>3, <2>1 DEF Harmless
  <2>3. accounts'[AdminUser] = accounts[AdminUser]
    BY <1>1, <1>3, <2>2, PastAfterPut, Bounds DEF Removes
  <2> QED
    BY <1>3, <2>1, <2>3, AnsweredFits DEF HasId
<1> QED
  BY <1>2, <1>3, <1>4, <1>5, AnsweredFits, RequestMoves DEF IndInv, TypeOK

\* What EnsureAdmin makes of the configured account: one that may administer, unless
\* it has expired.
LEMMA RestartTable ==
  ASSUME IndInv, Restart
  PROVE  \E new \in Row :
           /\ new.set.role = "admin" /\ new.set.enabled
           /\ \/ Inserts(AdminUser, new) /\ ~ new.set.expired
              \/ /\ Rewrites(AdminUser, new) /\ accounts[AdminUser] \in Row
                 /\ new = [accounts[AdminUser] EXCEPT !.set.role = "admin", !.set.enabled = TRUE]
                 /\ new.set.expired = accounts[AdminUser].set.expired
<1> DEFINE row == accounts[AdminUser]
           new == IF row = NoAccount
                  THEN [id |-> lastUid + 1, set |-> FreshAdmin]
                  ELSE IF row.set.role # "admin"
                  THEN [row EXCEPT !.set.role = "admin", !.set.enabled = TRUE]
                  ELSE [row EXCEPT !.set.enabled = TRUE]
<1>1. /\ Put(AdminUser, new)
      /\ lastUid' = IF row = NoAccount THEN lastUid + 1 ELSE lastUid
      /\ row = NoAccount => lastUid < MaxUid
  BY DEF Restart, EnsureAdmin
<1>2. "admin" \in Roles
  BY ConsoleAssumption
<1>3. CASE row = NoAccount
  <2>1. FreshAdmin \in Settings
    BY <1>2 DEF FreshAdmin, Settings, Table!Settings
  <2>2. lastUid + 1 \in 1..MaxUid
    BY <1>1, <1>3, Parts, Bounds DEF TableTyped
  <2>3. new = [id |-> lastUid + 1, set |-> FreshAdmin]
    BY <1>3
  <2>4. new \in Row /\ new.id = lastUid + 1 /\ new.set = FreshAdmin
    BY <2>1, <2>2, <2>3 DEF Row
  <2>5. FreshAdmin.role = "admin" /\ FreshAdmin.enabled /\ ~ FreshAdmin.expired
    BY DEF FreshAdmin
  <2> HIDE DEF new
  <2>6. Inserts(AdminUser, new)
    BY <1>1, <1>3, <2>2, <2>4 DEF Inserts
  <2> QED
    BY <2>4, <2>5, <2>6
<1>4. CASE row # NoAccount
  <2> DEFINE restored == [row EXCEPT !.set.role = "admin", !.set.enabled = TRUE]
  <2>1. row \in Row
    BY <1>4, Parts, Bounds DEF TableTyped
  <2>2. /\ restored \in Row /\ restored.id = row.id
        /\ restored.set.role = "admin" /\ restored.set.enabled = TRUE
        /\ restored.set.expired = row.set.expired
    BY <1>2, <2>1 DEF Row, Settings, Table!Settings
  <2>3. new = restored
    BY <1>4, <2>1 DEF Row, Settings, Table!Settings
  <2> HIDE DEF new
  <2>4. Rewrites(AdminUser, new)
    BY <1>1, <1>4, <2>2, <2>3 DEF Rewrites, HasId
  <2> QED
    BY <2>1, <2>2, <2>3, <2>4
<1> QED
  BY <1>3, <1>4

\* A restart forgets the requests and keeps the configured administrator.
LEMMA RestartKeeps ==
  ASSUME IndInv, Restart
  PROVE  IndInv'
<1>1. PICK new \in Row :
           /\ new.set.role = "admin" /\ new.set.enabled
           /\ \/ Inserts(AdminUser, new) /\ ~ new.set.expired
              \/ Rewrites(AdminUser, new) /\ new.set.expired = accounts[AdminUser].set.expired
  BY RestartTable
<1>2. TableTyped /\ PastKnown /\ FoundingAdminsStay /\ AdminKept
  BY Parts
<1>3. TableStep
  BY <1>1, Bounds DEF TableStep
<1>4. /\ req' = [r \in Requests |-> Idle] /\ UNCHANGED <<ops, imported>>
      /\ restarts' \in 0..MaxRestarts
  BY Bounds DEF Restart, IndInv, TypeOK
<1>5. /\ Idle \in RequestType /\ Harmless(Idle)
      /\ \A table, rows : HandlerKnows(Idle, table, rows)
  BY DEF Idle, RequestType, Harmless, HandlerKnows
<1>6. ASSUME SoleSoFar
      PROVE  HasId(AdminUser, AdminId)' /\ MayAdminister(accounts'[AdminUser])
  <2>1. HasId(AdminUser, AdminId) /\ MayAdminister(accounts[AdminUser])
    BY <1>2, <1>6, SoleAdmin
  <2>2. Rewrites(AdminUser, new) /\ ~ new.set.expired
    BY <1>1, <2>1 DEF Inserts, MayAdminister
  <2>3. accounts'[AdminUser] = new /\ new # NoAccount
    BY <1>2, <2>2, PastAfterPut, Bounds DEF Rewrites
  <2> QED
    BY <1>1, <2>1, <2>2, <2>3 DEF MayAdminister, Rewrites, HasId
<1>7. AdminKept'
  BY <1>2, <1>3, <1>4, <1>5, <1>6, AdminStays
<1>8. TableTyped' /\ PastKnown' /\ FoundingAdminsStay'
  BY <1>2, <1>3, TableStepKeeps, IdsStay
<1>9. \A r \in Requests : HandlerKnows(req'[r], accounts', past')
  BY <1>4, <1>5
<1>10. TypeOK'
  BY <1>4, <1>5, <1>8 DEF IndInv, TypeOK, TableTyped, RequestType
<1> QED
  BY <1>7, <1>8, <1>9, <1>10 DEF IndInv

-----------------------------------------------------------------------------
(***************************************************************************)
(* The invariant, and what follows from it.                                *)
(***************************************************************************)

\* A process starts on a table with the configured administrator in it.
THEOREM InitEstablishesInv == Init => IndInv
<1> SUFFICES ASSUME Init PROVE IndInv
  OBVIOUS
<1>1. \A n \in Names : accounts[n] # NoAccount =>
        /\ accounts[n].id \in 1..Cardinality(Names)
        /\ accounts[n] \in Row
  <2>1. "admin" \in Roles /\ "user" \in Roles
    BY ConsoleAssumption
  <2>2. 1..Cardinality(Names) \subseteq 1..MaxUid
    BY Bounds
  <2>3. ASSUME NEW set \in [role : {"admin", "user"}, enabled : {TRUE}, expired : {FALSE},
                             maxConns : {1}]
        PROVE  set \in Settings
    <3>1. /\ set = [role |-> set.role, enabled |-> set.enabled, expired |-> set.expired,
                    maxConns |-> set.maxConns]
          /\ set.role \in Roles /\ set.enabled = TRUE /\ set.expired = FALSE /\ set.maxConns = 1
      BY <2>1
    <3>2. TRUE \in BOOLEAN /\ FALSE \in BOOLEAN /\ 1 \in Nat \ {0}
      OBVIOUS
    <3> QED
      BY <3>1, <3>2, Zenon DEF Settings, Table!Settings
  <2> QED
    BY <2>2, <2>3 DEF Init, Row
<1>2. /\ accounts \in [Names -> Row \cup {NoAccount}]
  BY <1>1 DEF Init
<1>3. \A x : x \in past <=> \E n \in Names : accounts[n] # NoAccount /\ x = accounts[n]
  BY DEF Init, Table!TableInit, Table!RowsOf
<1>4. \A r \in Requests : req[r] = Idle
  BY DEF Init
<1>5. TypeOK
  <2>1. req \in [Requests -> RequestType]
    BY DEF Init, RequestType, Idle
  <2>2. past \subseteq Row
    BY <1>1, <1>3
  <2>3. /\ lastUid \in 0..MaxUid /\ ops \in 0..MaxOps /\ restarts \in 0..MaxRestarts
        /\ imported \in BOOLEAN
    <3>1. 0 \in 0..MaxOps /\ 0 \in 0..MaxRestarts /\ Cardinality(Names) \in 0..MaxUid
      BY Bounds
    <3> QED
      BY <3>1 DEF Init
  <2> QED
    BY <1>2, <2>1, <2>2, <2>3 DEF TypeOK, RequestType
<1>6. PastKnown
  BY <1>1, <1>3, Bounds DEF PastKnown, Init, Table!TableInit, Table!Present
<1>7. \A r \in Requests : HandlerKnows(req[r], accounts, past)
  BY <1>4 DEF HandlerKnows, Idle
<1>8. FoundingAdminsStay
  BY <1>3 DEF FoundingAdminsStay, HasId
<1>9. /\ MayAdminister(accounts[AdminUser]) /\ accounts[AdminUser] # NoAccount
      /\ accounts[AdminUser].id = AdminId /\ accounts[AdminUser] \in past
  BY <1>3, Bounds DEF Init, MayAdminister, AdminId
<1>10. \A n \in Names : HasId(n, AdminId) => n = AdminUser
  BY <1>6, <1>9, Bounds DEF HasId, PastKnown
<1>11. AdminId \in 1..Cardinality(Names)
  BY <1>1, <1>9, Bounds
<1>12. \A row \in past : row.id = AdminId => row = accounts[AdminUser]
  BY <1>3, <1>10 DEF HasId
<1>13. Harmless(Idle)
  BY DEF Harmless, Idle
<1>14. AdminKept
  BY <1>4, <1>9, <1>10, <1>11, <1>12, <1>13, Bounds DEF AdminKept, HasId
<1> QED
  BY <1>5, <1>6, <1>7, <1>8, <1>14 DEF IndInv

\* IndInv is inductive: one case per action of Next.
THEOREM NextPreservesInv == IndInv /\ [Next]_vars => IndInv'
<1> SUFFICES ASSUME IndInv, [Next]_vars PROVE IndInv'
  OBVIOUS
<1>1. CASE Restart
  BY <1>1, RestartKeeps
<1>2. ASSUME NEW r \in Requests, Asks(r) PROVE IndInv'
  BY <1>2, AsksKeeps
<1>3. ASSUME NEW r \in Requests, Handles(r) PROVE IndInv'
  BY <1>3, ReadsKeep, UpWriteKeeps, InsertKeeps, DelKeeps DEF Handles
<1>4. CASE UNCHANGED vars
  <2>1. TypeOK' /\ PastKnown' /\ FoundingAdminsStay'
    BY <1>4 DEF vars, IndInv, TypeOK, PastKnown, FoundingAdminsStay, HasId
  <2>2. \A r \in Requests : HandlerKnows(req'[r], accounts', past')
    BY <1>4 DEF vars, IndInv
  <2>3. AdminKept'
    BY <1>4 DEF vars, IndInv, AdminKept, SoleSoFar, HasId
  <2> QED
    BY <2>1, <2>2, <2>3 DEF IndInv
<1> QED
  BY <1>1, <1>2, <1>3, <1>4 DEF Next

\* The strengthening holds in every reachable state.
THEOREM InvariantHolds == Spec => []IndInv
BY InitEstablishesInv, NextPreservesInv, PTL DEF Spec

\* Every variable keeps its type.
THEOREM TypeCorrect == Spec => []TypeOK
<1>1. IndInv => TypeOK
  BY DEF IndInv
<1> QED
  BY InvariantHolds, <1>1, PTL

\* An account that the process found as an administrator's, and that stayed one, is
\* not deleted, although rows are deleted by name some time after their role was
\* tested.
THEOREM FoundersSurvive == Spec => []FoundingAdminsStay
<1>1. IndInv => FoundingAdminsStay
  BY DEF IndInv
<1> QED
  BY InvariantHolds, <1>1, PTL

\* The only administrator cannot lock himself out with any interleaving of his own
\* requests.
THEOREM SoleAdminSurvives == Spec => []SoleAdminStays
<1>1. ASSUME IndInv PROVE SoleAdminStays
  <2> DEFINE admins == {row.id : row \in {x \in past : MayAdminister(x)}}
  <2> SUFFICES ASSUME ~ imported, Cardinality(admins) = 1,
                      \A row \in past : row.id \in admins => ~ row.set.expired
               PROVE  \E n \in Names : MayAdminister(accounts[n])
    BY DEF SoleAdminStays
  <2>1. TableTyped /\ PastKnown /\ AdminKept
    BY <1>1, Parts
  <2>2. AdminId \in admins
    BY <2>1 DEF AdminKept
  <2>3. admins \subseteq 1..MaxUid
    BY <2>1, RowTyped DEF TableTyped
  <2> HIDE DEF admins
  <2>4. IsFiniteSet(admins)
    <3>1. IsFiniteSet(1..MaxUid)
      BY FS_Interval, Bounds
    <3> QED
      BY <2>3, <3>1, FS_Subset
  <2>5. PICK id : admins = {id}
    BY <2>4, FS_Singleton
  <2>6. admins = {AdminId}
    BY <2>2, <2>5
  <2>7. \A row \in past : MayAdminister(row) => row.id \in admins
    BY DEF admins
  <2>8. SoleSoFar
    BY <2>6, <2>7 DEF SoleSoFar
  <2> QED
    BY <2>1, <2>8, SoleAdmin, Bounds
<1> QED
  BY InvariantHolds, <1>1, PTL

\* Every restart gives the configured account the console back, unless it expired.
THEOREM RestartsRestoreAdmin == Spec => BootRestoresAdmin
<1> DEFINE Restored ==
      restarts' # restarts =>
        \/ MayAdminister(accounts'[AdminUser])
        \/ accounts[AdminUser] # NoAccount /\ accounts[AdminUser].set.expired
<1>1. ASSUME IndInv, [Next]_vars PROVE [Restored]_vars
  <2> SUFFICES ASSUME Restart PROVE Restored
    BY <1>1 DEF Next, Asks, Handles, Patch, Create, Delete, Import, Accept, UpRead, UpWrite,
                UpReread, InsertRow, DelRead, DelRow, ImportLine, ImportEnd, AtPc, vars
  <2>1. PICK new \in Row :
           /\ new.set.role = "admin" /\ new.set.enabled
           /\ \/ Inserts(AdminUser, new) /\ ~ new.set.expired
              \/ Rewrites(AdminUser, new) /\ new.set.expired = accounts[AdminUser].set.expired
    BY <1>1, RestartTable
  <2>2. accounts'[AdminUser] = new /\ new # NoAccount
    BY <1>1, <2>1, Parts, PastAfterPut, Bounds DEF Inserts, Rewrites
  <2> QED
    BY <2>1, <2>2 DEF MayAdminister, Rewrites, HasId
<1> QED
  BY <1>1, InvariantHolds, PTL DEF Spec, BootRestoresAdmin

-----------------------------------------------------------------------------
(***************************************************************************)
(* The refinement: every step of the console is one step of AccountTable   *)
(* or none.                                                                *)
(***************************************************************************)

\* A creation is an Insert.
LEMMA InsertsRefine ==
  ASSUME IndInv, NEW n \in Names, NEW row \in Row, Inserts(n, row)
  PROVE  Table!TableNext
<1>1. TableTyped /\ PastKnown
  BY Parts
<1>2. /\ accounts'[n] = row /\ past' = past \cup Table!RowsOf(accounts')
      /\ accounts' = [accounts EXCEPT ![n] = row]
  BY <1>1, PastAfterPut DEF Inserts, Put, SetTable
<1>3. row # NoAccount /\ row.set \in Table!Settings /\ row \in Table!RowsOf(accounts')
  BY <1>2, RowTyped DEF Settings, Table!RowsOf
<1>4. \A old \in past : old.id < row.id
  BY <1>1, RowTyped DEF Inserts, PastKnown, TableTyped
<1>5. row \notin past
  BY <1>4, RowTyped
<1>6. Table!Insert(n)
  BY <1>2, <1>3, <1>4, <1>5 DEF Table!Insert, Table!Present, Inserts
<1> QED
  BY <1>2, <1>6 DEF Table!TableNext

\* An update is a Rewrite from a row that its account once had.
LEMMA MergeRefines ==
  ASSUME IndInv, NEW n \in Names, NEW old \in past, NEW p \in Payloads, ValidUpdate(p),
         Rewrites(n, Merge(old, p))
  PROVE  Table!TableNext
<1>1. old \in Row
  BY Parts DEF TableTyped
<1>2. Merge(old, p).id = old.id
  BY <1>1, MergeTyped
<1>3. /\ accounts' = [accounts EXCEPT ![n] = Table!Merge(old, p)]
      /\ past' = past \cup Table!RowsOf(accounts')
  BY DEF Rewrites, Put, SetTable, Merge
<1>4. Table!Rewrite(n)
  BY <1>2, <1>3 DEF Table!Rewrite, Table!Present, Rewrites, HasId
<1> QED
  BY <1>3, <1>4 DEF Table!TableNext

\* A deletion is a Remove, or nothing if the row is gone already.
LEMMA RemovesRefine ==
  ASSUME IndInv, NEW n \in Names, Removes(n)
  PROVE  Table!TableNext \/ UNCHANGED <<accounts, past>>
<1>1. TableTyped /\ PastKnown
  BY Parts
<1>2. /\ accounts' = [accounts EXCEPT ![n] = NoAccount]
      /\ past' = past \cup Table!RowsOf(accounts')
  BY DEF Removes, Put, SetTable
<1>3. CASE accounts[n] = NoAccount
  <2>1. accounts' = accounts
    BY <1>1, <1>2, <1>3 DEF TableTyped
  <2>2. Table!RowsOf(accounts) \subseteq past
    BY <1>1 DEF PastKnown, Table!RowsOf
  <2> QED
    BY <1>2, <2>1, <2>2
<1>4. CASE accounts[n] # NoAccount
  BY <1>2, <1>4 DEF Table!TableNext, Table!Remove, Table!Present
<1> QED
  BY <1>3, <1>4

\* EnsureAdmin is an Insert or a Restore.
LEMMA RestartRefines ==
  ASSUME IndInv, Restart
  PROVE  Table!TableNext
<1>1. PICK new \in Row :
         \/ Inserts(AdminUser, new)
         \/ /\ Rewrites(AdminUser, new) /\ accounts[AdminUser] \in Row
            /\ new = [accounts[AdminUser] EXCEPT !.set.role = "admin", !.set.enabled = TRUE]
  BY RestartTable
<1>2. CASE Inserts(AdminUser, new)
  BY <1>2, InsertsRefine, Bounds
<1>3. CASE /\ Rewrites(AdminUser, new) /\ accounts[AdminUser] \in Row
           /\ new = [accounts[AdminUser] EXCEPT !.set.role = "admin", !.set.enabled = TRUE]
  <2>1. /\ accounts' = [accounts EXCEPT ![AdminUser] = new]
        /\ past' = past \cup Table!RowsOf(accounts')
        /\ accounts[AdminUser] # NoAccount
    BY <1>3 DEF Rewrites, Put, SetTable, HasId
  <2>2. accounts' = [accounts EXCEPT ![AdminUser].set.role = "admin",
                                     ![AdminUser].set.enabled = TRUE]
    BY <1>3, <2>1, Parts, Bounds DEF TableTyped, Row, Settings, Table!Settings
  <2>3. Table!Restore(AdminUser)
    BY <2>1, <2>2 DEF Table!Restore, Table!Present
  <2> QED
    BY <2>1, <2>3, Bounds DEF Table!TableNext
<1> QED
  BY <1>1, <1>2, <1>3

\* The table that interleaved requests, imports and restarts work on is the one that
\* AccountTable promises.
THEOREM ConsoleImplementsTable == Spec => ImplementsTable
<1>1. Init => Table!TableInit
  BY DEF Init
<1>2. ASSUME IndInv, [Next]_vars PROVE [Table!TableNext]_(Table!tableVars)
  <2> SUFFICES Table!TableNext \/ UNCHANGED <<accounts, past>>
    BY DEF Table!tableVars
  <2>1. CASE Restart
    BY <1>2, <2>1, RestartRefines
  <2>2. ASSUME NEW r \in Requests, UpWrite(r)
        PROVE  Table!TableNext \/ UNCHANGED <<accounts, past>>
    BY <1>2, <2>2, UpWriteTable, MergeRefines DEF TableKept
  <2>3. ASSUME NEW r \in Requests, InsertRow(r)
        PROVE  Table!TableNext \/ UNCHANGED <<accounts, past>>
    BY <1>2, <2>3, InsertTable, InsertsRefine DEF TableKept
  <2>4. ASSUME NEW r \in Requests, DelRow(r)
        PROVE  Table!TableNext \/ UNCHANGED <<accounts, past>>
    BY <1>2, <2>4, DelTable, RemovesRefine
  <2>5. ASSUME NEW r \in Requests,
               Asks(r) \/ UpRead(r) \/ UpReread(r) \/ DelRead(r) \/ ImportLine(r) \/ ImportEnd(r)
        PROVE  UNCHANGED <<accounts, past>>
    BY <2>5 DEF Asks, Patch, Create, Delete, Import, Accept, UpRead, UpReread, DelRead,
                ImportLine, ImportEnd, TableKept
  <2>6. CASE UNCHANGED vars
    BY <2>6 DEF vars
  <2> QED
    BY <1>2, <2>1, <2>2, <2>3, <2>4, <2>5, <2>6 DEF Next, Handles
<1> QED
  BY <1>1, <1>2, InvariantHolds, PTL DEF Spec, ImplementsTable, Table!TableSpec
=============================================================================
