--------------------------- MODULE UsageCounters ----------------------------
(***************************************************************************)
(* Metering: traffic.Recorder.RecordUsage and the table usage_counters of  *)
(* internal/store.                                                         *)
(*                                                                         *)
(* A relay goroutine takes the time, then calls AddUsage, which waits for  *)
(* the only database connection (SetMaxOpenConns(1)), ensures and loads    *)
(* the row, rolls the day and month counters over if their keys differ     *)
(* from the keys of the time it was given, and commits.  Every other       *)
(* statement on the tables needs the same connection.  The call gives up   *)
(* after 5 s, and the caller ignores that.  A crash rolls an open          *)
(* transaction back and forgets what waits.                                *)
(*                                                                         *)
(* Time is a day number; a month is DaysPerMonth days.  The history        *)
(* variable credit, read by no guard but for a bound, has the bytes        *)
(* committed per account since its last reset: per day of their time, per  *)
(* month, and in all.                                                      *)
(***************************************************************************)
EXTENDS Integers

CONSTANTS Writers,       \* relay goroutines
          Sizes,         \* bytes of a chunk
          DaysPerMonth,
          MaxDay,        \* bound: the clock
          MaxUid,        \* bound: accounts ever created
          MaxBytes,      \* bound: no new chunk for an account credited this much
          NoRow, NoOne

Uids == 1..MaxUid
Days == 0..MaxDay

\* The columns of usage_counters.
Counters == [day : Days, dayBytes : Nat, month : Days, monthBytes : Nat, totalBytes : Nat]

ASSUME UsageAssumption ==
  /\ Sizes \subseteq Nat \ {0}
  /\ DaysPerMonth \in Nat \ {0}
  /\ MaxDay \in Nat
  /\ MaxUid \in Nat \ {0}
  /\ MaxBytes \in Nat
  /\ NoOne \notin Writers
  /\ NoRow \notin Counters

VARIABLES today,    \* the clock
          lastUid,  \* AUTOINCREMENT of users.id
          live,     \* the ids of the rows of table users
          rows,     \* table usage_counters: per users.id, its row or NoRow
          dbConn,   \* who holds the connection
          add,      \* per writer, its AddUsage call
          reset,    \* the ResetUsageByUsername call
          credit    \* history: the bytes committed

vars == <<today, lastUid, live, rows, dbConn, add, reset, credit>>

MonthOf(d) == d \div DaysPerMonth

ZeroRow(d) == [day |-> d, dayBytes |-> 0, month |-> MonthOf(d), monthBytes |-> 0,
               totalBytes |-> 0]

NoCredit == [total |-> 0, day |-> [d \in Days |-> 0], month |-> [d \in Days |-> 0]]

\* Fields uid, bytes and day are the arguments, loaded the row in the transaction.
Call(pc, uid, bytes, day, loaded) ==
  [pc |-> pc, uid |-> uid, bytes |-> bytes, day |-> day, loaded |-> loaded]

NoCall == Call("idle", 1, 0, 0, NoRow)

NoReset == [pc |-> "idle", uid |-> 1, day |-> 0]

TypeOK ==
  /\ today \in Days
  /\ lastUid \in 0..MaxUid
  /\ live \subseteq 1..lastUid
  /\ rows \in [Uids -> Counters \cup {NoRow}]
  /\ dbConn \in Writers \cup {NoOne}
  /\ add \in [Writers -> [pc : {"idle", "waiting", "tx"}, uid : Uids, bytes : Sizes \cup {0},
                          day : Days, loaded : Counters \cup {NoRow}]]
  /\ reset \in [pc : {"idle", "found"}, uid : Uids, day : Days]
  /\ credit \in [Uids -> [total : Nat, day : [Days -> Nat], month : [Days -> Nat]]]

Init ==
  /\ today = 0
  /\ lastUid = 1
  /\ live = {1}
  /\ rows = [i \in Uids |-> NoRow]
  /\ dbConn = NoOne
  /\ add = [w \in Writers |-> NoCall]
  /\ reset = NoReset
  /\ credit = [i \in Uids |-> NoCredit]

ConnFree == dbConn = NoOne

(***************************************************************************)
(* AddUsage                                                                *)
(***************************************************************************)
\* The chunk was written; the time is taken here, before the connection is.
\* Its account may have been deleted since the session began.
Record(w, uid, bytes) ==
  /\ add[w].pc = "idle"
  /\ uid <= lastUid
  /\ credit[uid].total < MaxBytes
  /\ add' = [add EXCEPT ![w] = Call("waiting", uid, bytes, today, NoRow)]
  /\ UNCHANGED <<today, lastUid, live, rows, dbConn, reset, credit>>

\* Mutant: the pool has more than one connection.
BeginInParallel(w) ==
  /\ add[w].pc = "waiting"
  /\ add[w].uid \in live
  /\ LET row == IF rows[add[w].uid] = NoRow THEN ZeroRow(add[w].day) ELSE rows[add[w].uid]
     IN  add' = [add EXCEPT ![w].pc = "tx", ![w].loaded = row]
  /\ dbConn' = w
  /\ UNCHANGED <<today, lastUid, live, rows, reset, credit>>

\* BeginTx, INSERT .. DO NOTHING and SELECT.
Begin(w) ==
  /\ add[w].pc = "waiting"
  /\ ConnFree
  /\ add[w].uid \in live
  /\ LET row == IF rows[add[w].uid] = NoRow THEN ZeroRow(add[w].day) ELSE rows[add[w].uid]
     IN  add' = [add EXCEPT ![w].pc = "tx", ![w].loaded = row]
  /\ dbConn' = w
  /\ UNCHANGED <<today, lastUid, live, rows, reset, credit>>

\* The INSERT fails on the foreign key: the transaction is rolled back.
BeginFails(w) ==
  /\ add[w].pc = "waiting"
  /\ ConnFree
  /\ add[w].uid \notin live
  /\ add' = [add EXCEPT ![w] = NoCall]
  /\ UNCHANGED <<today, lastUid, live, rows, dbConn, reset, credit>>

\* Mutant: a new day clears nothing, only a new month does.
RolledOverByMonth(row, d) ==
  [row EXCEPT !.monthBytes = IF row.month = MonthOf(d) THEN @ ELSE 0]

RolledOver(row, d) ==
  [row EXCEPT !.dayBytes = IF row.day = d THEN @ ELSE 0,
              !.monthBytes = IF row.month = MonthOf(d) THEN @ ELSE 0]

Plus(row, d, bytes) ==
  LET r == RolledOver(row, d)
  IN  [day |-> d, dayBytes |-> r.dayBytes + bytes,
       month |-> MonthOf(d), monthBytes |-> r.monthBytes + bytes,
       totalBytes |-> r.totalBytes + bytes]

Credited(cr, d, bytes) ==
  [total |-> cr.total + bytes,
   day |-> [cr.day EXCEPT ![d] = @ + bytes],
   month |-> [cr.month EXCEPT ![MonthOf(d)] = @ + bytes]]

\* UPDATE and COMMIT.
Commit(w) ==
  /\ add[w].pc = "tx"
  /\ LET a == add[w]
     IN  /\ rows' = [rows EXCEPT ![a.uid] = Plus(a.loaded, a.day, a.bytes)]
         /\ credit' = [credit EXCEPT ![a.uid] = Credited(@, a.day, a.bytes)]
  /\ add' = [add EXCEPT ![w] = NoCall]
  /\ dbConn' = NoOne
  /\ UNCHANGED <<today, lastUid, live, reset>>

\* Mutant: no deferred Rollback.
GiveUpKeepsConn(w) ==
  /\ add[w].pc # "idle"
  /\ add' = [add EXCEPT ![w] = NoCall]
  /\ UNCHANGED <<today, lastUid, live, rows, dbConn, reset, credit>>

\* The 5 s are over, or the statement failed: deferred Rollback, and the
\* bytes are never metered.
GiveUp(w) ==
  /\ add[w].pc # "idle"
  /\ add' = [add EXCEPT ![w] = NoCall]
  /\ dbConn' = IF add[w].pc = "tx" THEN NoOne ELSE dbConn
  /\ UNCHANGED <<today, lastUid, live, rows, reset, credit>>

(***************************************************************************)
(* The statements of the admin handlers                                    *)
(***************************************************************************)
\* ResetUsageByUsername: the time, and SELECT the id.
ResetFind(uid) ==
  /\ reset.pc = "idle"
  /\ ConnFree
  /\ uid \in live
  /\ reset' = [pc |-> "found", uid |-> uid, day |-> today]
  /\ UNCHANGED <<today, lastUid, live, rows, dbConn, add, credit>>

\* INSERT .. DO UPDATE; on a deleted id the foreign key refuses it.
ResetRow ==
  /\ reset.pc = "found"
  /\ ConnFree
  /\ reset' = NoReset
  /\ IF reset.uid \in live
       THEN /\ rows' = [rows EXCEPT ![reset.uid] = ZeroRow(reset.day)]
            /\ credit' = [credit EXCEPT ![reset.uid] = NoCredit]
       ELSE UNCHANGED <<rows, credit>>
  /\ UNCHANGED <<today, lastUid, live, dbConn, add>>

CreateUser ==
  /\ ConnFree
  /\ lastUid < MaxUid
  /\ lastUid' = lastUid + 1
  /\ live' = live \cup {lastUid'}
  /\ UNCHANGED <<today, rows, dbConn, add, reset, credit>>

\* Mutant: the ids of deleted accounts are given out again.
DeleteUserFreesId(uid) ==
  /\ ConnFree
  /\ uid \in live
  /\ live' = live \ {uid}
  /\ lastUid' = lastUid - 1
  /\ rows' = [rows EXCEPT ![uid] = NoRow]
  /\ credit' = [credit EXCEPT ![uid] = NoCredit]
  /\ UNCHANGED <<today, dbConn, add, reset>>

\* ON DELETE CASCADE takes the usage row along.
DeleteUser(uid) ==
  /\ ConnFree
  /\ uid \in live
  /\ live' = live \ {uid}
  /\ rows' = [rows EXCEPT ![uid] = NoRow]
  /\ credit' = [credit EXCEPT ![uid] = NoCredit]
  /\ UNCHANGED <<today, lastUid, dbConn, add, reset>>

(***************************************************************************)
(* The environment                                                         *)
(***************************************************************************)
NextDay ==
  /\ today < MaxDay
  /\ today' = today + 1
  /\ UNCHANGED <<lastUid, live, rows, dbConn, add, reset, credit>>

\* The process dies and starts again: SQLite rolls back, calls are lost.
Restart ==
  /\ dbConn' = NoOne
  /\ add' = [w \in Writers |-> NoCall]
  /\ reset' = NoReset
  /\ UNCHANGED <<today, lastUid, live, rows, credit>>

Next ==
  \/ \E w \in Writers, uid \in Uids, bytes \in Sizes : Record(w, uid, bytes)
  \/ \E w \in Writers : Begin(w) \/ BeginFails(w) \/ Commit(w) \/ GiveUp(w)
  \/ \E uid \in Uids : ResetFind(uid) \/ DeleteUser(uid)
  \/ ResetRow
  \/ CreateUser
  \/ NextDay
  \/ Restart

Spec == Init /\ [][Next]_vars

\* A transaction runs on once it has the connection, and a call that waits
\* returns, at the latest when its 5 s are over.
FairSpec ==
  /\ Spec
  /\ \A w \in Writers : WF_vars(Begin(w) \/ BeginFails(w) \/ Commit(w) \/ GiveUp(w))

(***************************************************************************)
(* GetUsage: the counters that Authorize compares with the quotas on day d.*)
(***************************************************************************)
Effective(uid, d) ==
  IF rows[uid] = NoRow THEN ZeroRow(d)
  ELSE [RolledOver(rows[uid], d) EXCEPT !.day = d, !.month = MonthOf(d)]

(***************************************************************************)
(* Properties                                                              *)
(***************************************************************************)
\* The month is that of the day, and what was used today was used this
\* month, and what this month, ever: also after midnight and after resets,
\* with chunks committed in another order than they were relayed.
CountersNested ==
  \A i \in Uids : rows[i] # NoRow =>
    /\ rows[i].month = MonthOf(rows[i].day)
    /\ rows[i].dayBytes <= rows[i].monthBytes
    /\ rows[i].monthBytes <= rows[i].totalBytes

\* No committed chunk is lost from, or counted twice in, the total counter,
\* although every writer reads, adds and writes back.
TotalExact ==
  \A i \in Uids :
    credit[i].total = IF rows[i] = NoRow THEN 0 ELSE rows[i].totalBytes

\* Nobody is refused for traffic of another day or month: whatever day it
\* is, the counters Authorize sees are at most what was committed with a
\* time of that day and month since the last reset.
NeverOverCharged ==
  \A i \in Uids :
    /\ Effective(i, today).dayBytes <= credit[i].day[today]
    /\ Effective(i, today).monthBytes <= credit[i].month[MonthOf(today)]

\* The only connection is always returned: with it gone, every request and
\* every chunk of every user would wait.
ConnectionReturned == (dbConn # NoOne) ~> (dbConn = NoOne)

\* As documented, quotas are per day: what Authorize compares with the day
\* quota is what was metered today.
DayQuotaCounts ==
  \A i \in Uids : Effective(i, today).dayBytes = credit[i].day[today]

(***************************************************************************)
(* The inductive invariant: a transaction works on the row that is still   *)
(* in the table, because it has the connection.                            *)
(***************************************************************************)
TxOwnsRow ==
  \A w \in Writers : add[w].pc = "tx" =>
    /\ dbConn = w
    /\ add[w].uid \in live
    /\ add[w].loaded =
         IF rows[add[w].uid] = NoRow THEN ZeroRow(add[w].day) ELSE rows[add[w].uid]

NotLiveNoRow == \A i \in Uids : i \notin live => rows[i] = NoRow

RowsCovered ==
  \A i \in Uids : rows[i] # NoRow =>
    /\ rows[i].dayBytes <= credit[i].day[rows[i].day]
    /\ rows[i].monthBytes <= credit[i].month[rows[i].month]

IndInv == TypeOK /\ TxOwnsRow /\ NotLiveNoRow /\ CountersNested /\ TotalExact /\ RowsCovered
=============================================================================
