---------------------------- MODULE AdminConsole ----------------------------
(***************************************************************************)
(* The admin console (internal/web) over table users (internal/store),     *)
(* with several requests at once: one goroutine per request, each of its   *)
(* statements a step, because the one database connection goes back        *)
(* between two statements.                                                 *)
(*                                                                         *)
(* An account has a role, a switch, a max_conns, and an expires_at that    *)
(* has passed or has not (a future one is none yet).  password_hash and    *)
(* the quotas are merged and written exactly as these; an account over a   *)
(* quota is kept out as an expired one is.                                 *)
(* KickUser changes the session manager only (module ProxyCenter).         *)
(***************************************************************************)
EXTENDS Integers, Sequences, FiniteSets

CONSTANTS Names, AdminUser,     \* AdminUser: PROXY_ADMIN_USER
          NoAccount, NoName, NoPayload,
          Requests,             \* requests that may be under way together
          Roles, Payloads,
          Files,                \* CSV files, as sequences of lines
          MaxOps, MaxUid, MaxRestarts  \* bounds: requests, accounts, restarts

VARIABLES accounts,   \* table users: per name, its row or NoAccount
          lastUid,    \* AUTOINCREMENT of users.id
          req,        \* the handlers
          ops, restarts,
          past,       \* history: every row that was ever in the table
          imported    \* history: a CSV import was accepted

vars == <<accounts, lastUid, req, ops, restarts, past, imported>>

Table == INSTANCE AccountTable

Settings == Table!Settings
Row == [id : 1..MaxUid, set : Settings]
Merge(row, p) == Table!Merge(row, p)

ASSUME ConsoleAssumption ==
  /\ AdminUser \in Names /\ IsFiniteSet(Names) /\ NoName \notin Names
  /\ {"admin", "user"} \subseteq Roles
  /\ NoAccount \notin Row
  /\ \A p \in Payloads :
        /\ DOMAIN p \subseteq Table!Fields
        /\ "role" \in DOMAIN p => p["role"] \in Roles
        /\ \A f \in {"enabled", "expired"} \cap DOMAIN p : p[f] \in BOOLEAN
        /\ "maxConns" \in DOMAIN p => p["maxConns"] \in Int
  /\ \A file \in Files : file \in Seq([user : Names, set : Payloads, password : BOOLEAN,
                                       parses : BOOLEAN])
  /\ {MaxOps, MaxUid, MaxRestarts} \subseteq Nat /\ Cardinality(Names) <= MaxUid

-----------------------------------------------------------------------------
Idle == [pc |-> "idle", name |-> NoName, set |-> NoPayload, row |-> NoAccount, lines |-> <<>>]

Lines == UNION {{SubSeq(file, k, Len(file)) : k \in 1..(Len(file) + 1)} : file \in Files}

TypeOK ==
  /\ accounts \in [Names -> Row \cup {NoAccount}]
  /\ lastUid \in 0..MaxUid
  /\ req \in [Requests -> [pc : {"idle", "insert", "upRead", "upWrite", "upReread",
                                 "delRead", "delRow", "import"},
                           name : Names \cup {NoName},
                           set : Payloads \cup {NoPayload}, row : Row \cup {NoAccount},
                           lines : Lines \cup {<<>>}]]
  /\ ops \in 0..MaxOps /\ restarts \in 0..MaxRestarts
  /\ past \subseteq Row
  /\ imported \in BOOLEAN

MayAdminister(row) ==
  /\ row # NoAccount
  /\ row.set.role = "admin" /\ row.set.enabled /\ ~ row.set.expired

\* Ids of the first accounts: which of them came first does not matter.
FirstIds ==
  CHOOSE ids \in [Names -> 1..Cardinality(Names)] :
     \A m, n \in Names : m # n => ids[m] # ids[n]

\* The process has just started, on a table that an earlier one has left.
Init ==
  /\ accounts \in [Names -> [id : 1..Cardinality(Names),
                             set : [role : {"admin", "user"}, enabled : {TRUE},
                                    expired : {FALSE}, maxConns : {1}]]
                            \cup {NoAccount}]
  /\ \A n \in Names : accounts[n] # NoAccount => accounts[n].id = FirstIds[n]
  /\ MayAdminister(accounts[AdminUser])
  /\ Table!TableInit
  /\ lastUid = Cardinality(Names)
  /\ req = [r \in Requests |-> Idle]
  /\ ops = 0 /\ restarts = 0
  /\ imported = FALSE

TableKept == UNCHANGED <<accounts, lastUid, past>>

SetTable(table) == accounts' = table /\ past' = past \cup Table!RowsOf(table)

Put(n, row) == SetTable([accounts EXCEPT ![n] = row])

-----------------------------------------------------------------------------
(***************************************************************************)
(* adminAuth lets a request in, on the row the administrator has now, and  *)
(* the handler makes the checks that need no database.  A request that is  *)
(* refused here changes nothing.                                           *)
(***************************************************************************)
Accept(r, a, request) ==
  /\ req[r].pc = "idle"
  /\ MayAdminister(accounts[a])
  /\ ops < MaxOps /\ ops' = ops + 1
  /\ req' = [req EXCEPT ![r] = request]
  /\ TableKept /\ UNCHANGED restarts

\* Mutant: the role is not looked at.
SelfHarmBySwitch(p) == "enabled" \in DOMAIN p /\ ~ p["enabled"]

\* What an administrator may not do to himself.
SelfHarm(p) ==
  \/ "enabled" \in DOMAIN p /\ ~ p["enabled"]
  \/ "role" \in DOMAIN p /\ p["role"] # "admin"

Patch(r, a, n, p) ==
  /\ ~ (a = n /\ SelfHarm(p))
  /\ Accept(r, a, [Idle EXCEPT !.pc = "upRead", !.name = n, !.set = p])
  /\ UNCHANGED imported

Delete(r, a, n) ==
  /\ a # n
  /\ Accept(r, a, [Idle EXCEPT !.pc = "delRead", !.name = n])
  /\ UNCHANGED imported

Create(r, a, n, p) ==
  /\ Accept(r, a, [Idle EXCEPT !.pc = "insert", !.name = n, !.set = p])
  /\ UNCHANGED imported

Import(r, a, file) ==
  /\ Accept(r, a, [Idle EXCEPT !.pc = "import", !.lines = file])
  /\ imported' = TRUE

\* Mutant: the import stays at its line.
ReturnToSameLine(r) ==
  req' = [req EXCEPT ![r] = [Idle EXCEPT !.pc = IF req[r].lines = <<>> THEN "idle" ELSE "import",
                                         !.lines = req[r].lines]]

\* The call into the store has returned: the CSV import goes on with its next
\* line, any other request is answered.
Return(r) ==
  LET q == req[r]
  IN  req' = [req EXCEPT ![r] =
                IF q.lines = <<>> THEN Idle
                ELSE [Idle EXCEPT !.pc = "import", !.lines = Tail(q.lines)]]

AtPc(r, pc) == req[r].pc = pc /\ UNCHANGED <<ops, restarts, imported>>

(***************************************************************************)
(* store.UpdateUserByUsername: read the row, merge and check the payload,  *)
(* write every column by id without looking at how many rows that hit, and *)
(* read the row again.                                                     *)
(***************************************************************************)
ValidUpdate(p) ==
  /\ "role" \in DOMAIN p => p["role"] \in {"admin", "user"}
  /\ "maxConns" \in DOMAIN p => p["maxConns"] > 0

UpRead(r) ==
  /\ AtPc(r, "upRead")
  /\ LET row == accounts[req[r].name]
     IN  IF row # NoAccount /\ ValidUpdate(req[r].set)
         THEN req' = [req EXCEPT ![r].pc = "upWrite", ![r].row = row]
         ELSE Return(r)
  /\ TableKept

HasId(n, id) == accounts[n] # NoAccount /\ accounts[n].id = id

\* Mutant: WHERE username.
UpWriteByName(r) ==
  /\ AtPc(r, "upWrite")
  /\ Put(req[r].name, Merge(req[r].row, req[r].set))
  /\ req' = [req EXCEPT ![r].pc = "upReread", ![r].set = NoPayload, ![r].row = NoAccount]
  /\ UNCHANGED lastUid

UpWrite(r) ==
  /\ AtPc(r, "upWrite")
  /\ LET new == Merge(req[r].row, req[r].set)
     IN  SetTable([n \in Names |-> IF HasId(n, new.id) THEN new ELSE accounts[n]])
  /\ req' = [req EXCEPT ![r].pc = "upReread", ![r].set = NoPayload, ![r].row = NoAccount]
  /\ UNCHANGED lastUid

\* The row read back decides on the kick, and on an error if it is gone.
UpReread(r) == AtPc(r, "upReread") /\ Return(r) /\ TableKept

(***************************************************************************)
(* store.CreateUser: the role is not checked, and the UNIQUE name decides. *)
(***************************************************************************)
\* Mutant: max_conns as given.
NewSettingsAsGiven(p) ==
  Merge([set |-> [role |-> "user", enabled |-> TRUE, expired |-> FALSE, maxConns |-> 1]], p).set

NewSettings(p) ==
  [role     |-> IF "role" \in DOMAIN p THEN p["role"] ELSE "user",
   enabled  |-> IF "enabled" \in DOMAIN p THEN p["enabled"] ELSE TRUE,
   expired  |-> IF "expired" \in DOMAIN p THEN p["expired"] ELSE FALSE,
   maxConns |-> IF "maxConns" \in DOMAIN p /\ p["maxConns"] > 0 THEN p["maxConns"] ELSE 1]

InsertRow(r) ==
  /\ AtPc(r, "insert")
  /\ LET n == req[r].name
     IN  IF accounts[n] = NoAccount
         THEN /\ lastUid < MaxUid /\ lastUid' = lastUid + 1
              /\ Put(n, [id |-> lastUid + 1, set |-> NewSettings(req[r].set)])
         ELSE TableKept
  /\ Return(r)

(***************************************************************************)
(* handleDeleteUser: the role of the row it reads, the kick, and a delete  *)
(* by name.                                                                *)
(***************************************************************************)
\* Mutant: no test of the role.
RefusedNever(row) == FALSE

\* "deleting admin user is not allowed"
Refused(row) == row.set.role = "admin"

DelRead(r) ==
  /\ AtPc(r, "delRead")
  /\ LET row == accounts[req[r].name]
     IN  IF row = NoAccount \/ Refused(row) THEN Return(r)
         ELSE req' = [req EXCEPT ![r].pc = "delRow", ![r].row = row]
  /\ TableKept

DelRow(r) ==
  /\ AtPc(r, "delRow")
  /\ Put(req[r].name, NoAccount)
  /\ Return(r)
  /\ UNCHANGED lastUid

(***************************************************************************)
(* handleImportUsersCSV: each line is looked up and then created or        *)
(* updated with its non-blank cells; an error is counted and the next line *)
(* taken.  It has none of the checks of PATCH and it kicks nobody.         *)
(***************************************************************************)
ImportLine(r) ==
  /\ AtPc(r, "import") /\ req[r].lines # <<>>
  /\ LET line   == Head(req[r].lines)
         exists == accounts[line.user] # NoAccount
     IN  IF line.parses /\ (exists \/ line.password)
         THEN req' = [req EXCEPT ![r].pc = IF exists THEN "upRead" ELSE "insert",
                                 ![r].name = line.user, ![r].set = line.set]
         ELSE Return(r)
  /\ TableKept

ImportEnd(r) ==
  /\ AtPc(r, "import") /\ req[r].lines = <<>>
  /\ Return(r) /\ TableKept

-----------------------------------------------------------------------------
FreshAdmin == [role |-> "admin", enabled |-> TRUE, expired |-> FALSE, maxConns |-> 16]

\* Mutant: an account that exists is left alone.
EnsureAdminExists ==
  IF accounts[AdminUser] = NoAccount
  THEN /\ Put(AdminUser, [id |-> lastUid + 1, set |-> FreshAdmin])
       /\ lastUid' = lastUid + 1
  ELSE TableKept

\* store.EnsureAdmin, before any server listens.
EnsureAdmin ==
  LET row == accounts[AdminUser]
      new == IF row = NoAccount
             THEN [id |-> lastUid + 1, set |-> FreshAdmin]
             ELSE IF row.set.role # "admin"
             THEN [row EXCEPT !.set.role = "admin", !.set.enabled = TRUE]
             ELSE [row EXCEPT !.set.enabled = TRUE]
  IN  /\ Put(AdminUser, new)
      /\ lastUid' = IF row = NoAccount THEN lastUid + 1 ELSE lastUid

\* The process ends, whatever its requests were doing, and starts again.
Restart ==
  /\ restarts < MaxRestarts /\ restarts' = restarts + 1
  /\ accounts[AdminUser] = NoAccount => lastUid < MaxUid
  /\ EnsureAdmin
  /\ req' = [r \in Requests |-> Idle]
  /\ UNCHANGED <<ops, imported>>

Asks(r) ==
  \E a \in Names :
     \/ \E n \in Names, p \in Payloads : Patch(r, a, n, p) \/ Create(r, a, n, p)
     \/ \E n \in Names : Delete(r, a, n)
     \/ \E file \in Files : Import(r, a, file)

Handles(r) ==
  \/ UpRead(r) \/ UpWrite(r) \/ UpReread(r)
  \/ InsertRow(r)
  \/ DelRead(r) \/ DelRow(r)
  \/ ImportLine(r) \/ ImportEnd(r)

Next == Restart \/ \E r \in Requests : Asks(r) \/ Handles(r)

Spec == Init /\ [][Next]_vars

\* A request that is under way is a goroutine that is scheduled.
FairSpec == Spec /\ \A r \in Requests : WF_vars(Handles(r))

-----------------------------------------------------------------------------
(***************************************************************************)
(* What the console keeps, whatever requests interleave.                   *)
(***************************************************************************)

\* An administrator who is the only one there ever was, imports no CSV and has
\* never let his account expire (which nothing keeps him from) stays one: no order
\* of his own requests, with whatever rows they have read, locks him out (the
\* tests against actor in handleUpdateUser and handleDeleteUser, and the merge of
\* UpdateUserByUsername).
SoleAdminStays ==
  LET admins == {row.id : row \in {x \in past : MayAdminister(x)}}
  IN  /\ ~ imported /\ Cardinality(admins) = 1
      /\ \A row \in past : row.id \in admins => ~ row.set.expired
      => \E n \in Names : MayAdminister(accounts[n])

\* An account that the process found in the table and that was an administrator
\* all the time is never deleted (the role test of handleDeleteUser, although
\* the row is deleted by name some time after that test).
FoundingAdminsStay ==
  \A old \in past :
     /\ old.id <= Cardinality(Names)
     /\ \A row \in past : row.id = old.id => row.set.role = "admin"
     => \E n \in Names : HasId(n, old.id)

\* After every start the configured account may use the console, whatever was
\* done to it before (EnsureAdmin: promoted, enabled, or created), unless it has
\* expired: then no restart helps.
BootRestoresAdmin ==
  [][restarts' # restarts =>
       \/ MayAdminister(accounts'[AdminUser])
       \/ accounts[AdminUser] # NoAccount /\ accounts[AdminUser].set.expired]_vars

\* The table behaves as AccountTable says: an update lands on the account it was
\* read from or nowhere, even if the name was deleted and created again, and
\* writes one earlier version of it with the named fields replaced
\* (UpdateUserByUsername, CreateUser, DeleteUserByUsername, EnsureAdmin).
ImplementsTable == Table!TableSpec

\* Every request is answered, a CSV import with any number of bad lines too (the
\* continue statements of handleImportUsersCSV).
RequestsEnd == \A r \in Requests : req[r].pc # "idle" ~> req[r].pc = "idle"

\* README.md: a CSV line leaves the fields it has blank as they are.  The code
\* breaks this: it writes back what it read before another request's update.
BlankCellsKept ==
  [][\A r \in Requests :
        UpWrite(r) /\ req[r].lines # <<>> /\ HasId(req[r].name, req[r].row.id)
        => \A f \in Table!Fields \ DOMAIN req[r].set :
              accounts'[req[r].name].set[f] = accounts[req[r].name].set[f]]_vars
=============================================================================
