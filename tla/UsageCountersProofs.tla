------------------------ MODULE UsageCountersProofs -------------------------
(***************************************************************************)
(* Proofs about UsageCounters, for every number of writers, sizes of       *)
(* chunks, days, months and accounts.                                      *)
(***************************************************************************)
EXTENDS UsageCounters, TLAPS

USE UsageAssumption

\* A day has a month, whose number is not above the day's.
LEMMA MonthType ==
  ASSUME NEW d \in Days
  PROVE  MonthOf(d) \in Days
BY Z3 DEF MonthOf, Days

\* The row AddUsage ensures is a row, with nothing counted.
LEMMA ZeroRowFacts ==
  ASSUME NEW d \in Days
  PROVE  /\ ZeroRow(d) \in Counters
         /\ ZeroRow(d).day = d /\ ZeroRow(d).month = MonthOf(d)
         /\ ZeroRow(d).dayBytes = 0 /\ ZeroRow(d).monthBytes = 0 /\ ZeroRow(d).totalBytes = 0
BY MonthType DEF ZeroRow, Counters

\* What the rollover of AddUsage and GetUsage leaves of a row.
LEMMA RolledOverFacts ==
  ASSUME NEW row \in Counters, NEW d \in Days
  PROVE  /\ RolledOver(row, d) \in Counters
         /\ RolledOver(row, d).dayBytes = IF row.day = d THEN row.dayBytes ELSE 0
         /\ RolledOver(row, d).monthBytes =
              IF row.month = MonthOf(d) THEN row.monthBytes ELSE 0
         /\ RolledOver(row, d).totalBytes = row.totalBytes
BY DEF RolledOver, Counters

\* The row AddUsage writes back.
LEMMA PlusFacts ==
  ASSUME NEW row \in Counters, NEW d \in Days, NEW b \in Nat
  PROVE  /\ Plus(row, d, b) \in Counters
         /\ Plus(row, d, b).day = d /\ Plus(row, d, b).month = MonthOf(d)
         /\ Plus(row, d, b).dayBytes = (IF row.day = d THEN row.dayBytes ELSE 0) + b
         /\ Plus(row, d, b).monthBytes =
              (IF row.month = MonthOf(d) THEN row.monthBytes ELSE 0) + b
         /\ Plus(row, d, b).totalBytes = row.totalBytes + b
<1> DEFINE r == RolledOver(row, d)
<1>1. /\ r \in Counters
      /\ r.dayBytes = IF row.day = d THEN row.dayBytes ELSE 0
      /\ r.monthBytes = IF row.month = MonthOf(d) THEN row.monthBytes ELSE 0
      /\ r.totalBytes = row.totalBytes
  BY RolledOverFacts
<1>2. Plus(row, d, b) = [day |-> d, dayBytes |-> r.dayBytes + b,
                         month |-> MonthOf(d), monthBytes |-> r.monthBytes + b,
                         totalBytes |-> r.totalBytes + b]
  BY DEF Plus
<1> HIDE DEF r
<1> QED
  BY <1>1, <1>2, MonthType DEF Counters

Credits == [total : Nat, day : [Days -> Nat], month : [Days -> Nat]]

\* Adding to one value of a function of numbers.
LEMMA AddAt ==
  ASSUME NEW S, NEW f \in [S -> Nat], NEW x \in S, NEW b \in Nat
  PROVE  /\ [f EXCEPT ![x] = @ + b] \in [S -> Nat]
         /\ [f EXCEPT ![x] = @ + b][x] = f[x] + b
OBVIOUS

\* The credit of a commit: its day, its month and the total grow by its bytes.
LEMMA CreditedFacts ==
  ASSUME NEW cr \in Credits, NEW d \in Days, NEW b \in Nat
  PROVE  /\ Credited(cr, d, b) \in Credits
         /\ Credited(cr, d, b).total = cr.total + b
         /\ Credited(cr, d, b).day[d] = cr.day[d] + b
         /\ Credited(cr, d, b).month[MonthOf(d)] = cr.month[MonthOf(d)] + b
<1> DEFINE days == [cr.day EXCEPT ![d] = @ + b]
           months == [cr.month EXCEPT ![MonthOf(d)] = @ + b]
           cr2 == Credited(cr, d, b)
<1>1. cr.total \in Nat /\ cr.day \in [Days -> Nat] /\ cr.month \in [Days -> Nat]
  BY DEF Credits
<1>2. days \in [Days -> Nat] /\ days[d] = cr.day[d] + b
  BY <1>1, AddAt
<1>3. months \in [Days -> Nat] /\ months[MonthOf(d)] = cr.month[MonthOf(d)] + b
  BY <1>1, MonthType, AddAt
<1>4. cr2 = [total |-> cr.total + b, day |-> days, month |-> months]
  BY DEF Credited
<1> HIDE DEF days, months, cr2
<1>5. cr2.total = cr.total + b /\ cr2.day = days /\ cr2.month = months
  BY <1>4
<1>6. cr2 \in Credits
  <2>1. cr.total + b \in Nat
    BY <1>1
  <2> QED
    BY <1>2, <1>3, <1>4, <2>1 DEF Credits
<1>7. cr2.day[d] = cr.day[d] + b /\ cr2.month[MonthOf(d)] = cr.month[MonthOf(d)] + b
  BY <1>2, <1>3, <1>5
<1> QED
  BY <1>5, <1>6, <1>7 DEF cr2

\* Empty tables, no call and no credit satisfy the inductive invariant.
THEOREM InitEstablishesInv == Init => IndInv
<1> SUFFICES ASSUME Init PROVE IndInv
  OBVIOUS
<1>1. NoCall \in [pc : {"idle", "waiting", "tx"}, uid : Uids, bytes : Sizes \cup {0},
                  day : Days, loaded : Counters \cup {NoRow}]
  BY DEF NoCall, Call, Uids, Days
<1>2. NoCall.pc = "idle"
  BY DEF NoCall, Call
<1>3. NoReset \in [pc : {"idle", "found"}, uid : Uids, day : Days]
  BY DEF NoReset, Uids, Days
<1>4. NoCredit \in Credits /\ NoCredit.total = 0
  BY DEF NoCredit, Credits
<1>5. TypeOK
  BY <1>1, <1>3, <1>4 DEF Init, TypeOK, Credits, Uids, Days
<1>6. TxOwnsRow
  BY <1>2 DEF Init, TxOwnsRow
<1>7. NotLiveNoRow /\ CountersNested /\ TotalExact /\ RowsCovered
  BY <1>4 DEF Init, NotLiveNoRow, CountersNested, TotalExact, RowsCovered
<1> QED
  BY <1>5, <1>6, <1>7 DEF IndInv

\* What a call carries is a number of bytes.
LEMMA ChunkIsNumber == \A b \in Sizes \cup {0} : b \in Nat
<1>1. Sizes \subseteq Nat
  OBVIOUS
<1>2. 0 \in Nat
  OBVIOUS
<1> QED
  BY <1>1, <1>2, Zenon

\* The type of the calls of writers.
Calls == [pc : {"idle", "waiting", "tx"}, uid : Uids, bytes : Sizes \cup {0},
          day : Days, loaded : Counters \cup {NoRow}]

\* A writer without a call is idle.
LEMMA NoCallFacts == NoCall \in Calls /\ NoCall.pc = "idle"
BY DEF NoCall, Call, Calls, Uids, Days

\* A writer in a transaction is the only one: it has the connection.
LEMMA OneTransaction ==
  ASSUME TxOwnsRow, NEW v \in Writers, NEW w \in Writers,
         add[v].pc = "tx", add[w].pc = "tx"
  PROVE  v = w
BY DEF TxOwnsRow

\* No writer is in a transaction while the connection is free.
LEMMA FreeMeansNoTx ==
  ASSUME TxOwnsRow, ConnFree, NEW w \in Writers
  PROVE  add[w].pc # "tx"
BY DEF TxOwnsRow, ConnFree

\* A step that changes neither tables nor credit keeps what they say.
LEMMA TablesUnchanged ==
  ASSUME IndInv, UNCHANGED <<live, rows, credit>>
  PROVE  NotLiveNoRow' /\ CountersNested' /\ TotalExact' /\ RowsCovered'
BY DEF IndInv, NotLiveNoRow, CountersNested, TotalExact, RowsCovered

\* A chunk that starts to wait touches no table and opens no transaction.
LEMMA RecordPreservesInv ==
  ASSUME IndInv, NEW w \in Writers, NEW uid \in Uids, NEW bytes \in Sizes,
         Record(w, uid, bytes)
  PROVE  IndInv'
<1> DEFINE call == Call("waiting", uid, bytes, today, NoRow)
<1>1. add' = [add EXCEPT ![w] = call]
  BY DEF Record
<1>2. call \in Calls /\ call.pc = "waiting"
  BY DEF Call, Calls, IndInv, TypeOK
<1>3. UNCHANGED <<today, lastUid, live, rows, dbConn, reset, credit>>
  BY DEF Record
<1>4. add \in [Writers -> Calls]
  BY DEF IndInv, TypeOK, Calls
<1> HIDE DEF call
<1>5. TypeOK'
  BY <1>1, <1>2, <1>3, <1>4 DEF IndInv, TypeOK, Calls
<1>6. TxOwnsRow'
  BY <1>1, <1>2, <1>3, <1>4 DEF IndInv, TxOwnsRow
<1> QED
  BY <1>3, <1>5, <1>6, TablesUnchanged DEF IndInv

\* The transaction that begins has the connection to itself, and has loaded
\* the row that is in the table.
LEMMA BeginPreservesInv ==
  ASSUME IndInv, NEW w \in Writers, Begin(w)
  PROVE  IndInv'
<1> DEFINE a == add[w]
           row == IF rows[a.uid] = NoRow THEN ZeroRow(a.day) ELSE rows[a.uid]
           call == [a EXCEPT !.pc = "tx", !.loaded = row]
<1>1. add \in [Writers -> Calls] /\ a \in Calls /\ a.pc = "waiting" /\ a.uid \in live
  BY DEF IndInv, TypeOK, Calls, Begin
<1>2. row \in Counters
  BY <1>1, ZeroRowFacts DEF IndInv, TypeOK, Calls
<1>3. add' = [add EXCEPT ![w] = call] /\ dbConn' = w
  BY DEF Begin
<1>4. UNCHANGED <<today, lastUid, live, rows, reset, credit>>
  BY DEF Begin
<1>5. /\ call \in Calls /\ call.pc = "tx"
      /\ call.uid = a.uid /\ call.day = a.day /\ call.bytes = a.bytes /\ call.loaded = row
  <2> HIDE DEF row
  <2> QED
    BY <1>1, <1>2 DEF Calls
<1>6. TypeOK'
  <2>1. add' \in [Writers -> Calls]
    BY <1>1, <1>3, <1>5
  <2> QED
    BY <1>3, <1>4, <2>1 DEF IndInv, TypeOK, Calls
<1>7. TxOwnsRow'
  <2> SUFFICES ASSUME NEW v \in Writers, add'[v].pc = "tx"
               PROVE  /\ dbConn' = v
                      /\ add'[v].uid \in live'
                      /\ add'[v].loaded = IF rows'[add'[v].uid] = NoRow
                                            THEN ZeroRow(add'[v].day)
                                            ELSE rows'[add'[v].uid]
    BY DEF TxOwnsRow
  <2>1. v = w
    BY <1>1, <1>3, FreeMeansNoTx DEF IndInv, Begin
  <2>2. add'[v] = call
    BY <1>1, <1>3, <2>1
  <2> HIDE DEF call
  <2> QED
    BY <1>1, <1>3, <1>4, <1>5, <2>1, <2>2
<1> QED
  BY <1>4, <1>6, <1>7, TablesUnchanged DEF IndInv

\* A call that ends without a commit leaves the tables alone.
LEMMA DroppedCallPreservesInv ==
  ASSUME IndInv, NEW w \in Writers, BeginFails(w) \/ GiveUp(w)
  PROVE  IndInv'
<1>1. add \in [Writers -> Calls] /\ add' = [add EXCEPT ![w] = NoCall]
  BY DEF IndInv, TypeOK, Calls, BeginFails, GiveUp
<1>2. UNCHANGED <<today, lastUid, live, rows, reset, credit>>
  BY DEF BeginFails, GiveUp
<1>3. dbConn' = IF add[w].pc = "tx" THEN NoOne ELSE dbConn
  BY DEF BeginFails, GiveUp
<1>4. TypeOK'
  <2>1. add' \in [Writers -> Calls]
    BY <1>1, NoCallFacts
  <2> QED
    BY <1>2, <1>3, <2>1 DEF IndInv, TypeOK, Calls
<1>5. TxOwnsRow'
  <2> SUFFICES ASSUME NEW v \in Writers, add'[v].pc = "tx"
               PROVE  add'[v] = add[v] /\ add[v].pc = "tx" /\ dbConn' = dbConn
    BY <1>2 DEF IndInv, TxOwnsRow
  <2>1. v # w /\ add'[v] = add[v]
    BY <1>1, NoCallFacts
  <2>2. add[w].pc # "tx"
    BY <2>1, OneTransaction DEF IndInv
  <2> QED
    BY <1>3, <2>1, <2>2
<1> QED
  BY <1>2, <1>4, <1>5, TablesUnchanged DEF IndInv

\* The row a commit writes back is nested, is the total of the old one and
\* the chunk, and is covered by the credit.
LEMMA CommitPreservesInv ==
  ASSUME IndInv, NEW w \in Writers, Commit(w)
  PROVE  IndInv'
<1>a. PICK a \in Calls : a = add[w]
  BY DEF IndInv, TypeOK, Calls
<1> DEFINE i == a.uid
           row == Plus(a.loaded, a.day, a.bytes)
           cr == Credited(credit[i], a.day, a.bytes)
<1>1. /\ add \in [Writers -> Calls] /\ a.pc = "tx"
      /\ i \in Uids /\ a.day \in Days /\ a.bytes \in Nat /\ i \in live
      /\ a.loaded = IF rows[i] = NoRow THEN ZeroRow(a.day) ELSE rows[i]
  <2>1. add \in [Writers -> Calls] /\ a.pc = "tx"
    BY <1>a DEF IndInv, TypeOK, Calls, Commit
  <2>2. i \in Uids /\ a.day \in Days /\ a.bytes \in Sizes \cup {0}
    BY DEF Calls
  <2>3. i \in live /\ a.loaded = IF rows[i] = NoRow THEN ZeroRow(a.day) ELSE rows[i]
    BY <1>a, <2>1 DEF IndInv, TxOwnsRow
  <2>4. a.bytes \in Nat
    BY <2>2, ChunkIsNumber, Zenon
  <2> QED
    BY <2>1, <2>2, <2>3, <2>4
<1>2. a.loaded \in Counters
  BY <1>1, ZeroRowFacts DEF IndInv, TypeOK
<1>3. credit \in [Uids -> Credits] /\ rows \in [Uids -> Counters \cup {NoRow}]
  BY DEF IndInv, TypeOK, Credits
<1>4. /\ rows' = [rows EXCEPT ![i] = row] /\ credit' = [credit EXCEPT ![i] = cr]
      /\ add' = [add EXCEPT ![w] = NoCall] /\ dbConn' = NoOne
      /\ UNCHANGED <<today, lastUid, live, reset>>
  BY <1>a DEF Commit
<1>5. /\ row \in Counters
      /\ row.day = a.day /\ row.month = MonthOf(a.day)
      /\ row.dayBytes = (IF a.loaded.day = a.day THEN a.loaded.dayBytes ELSE 0) + a.bytes
      /\ row.monthBytes =
           (IF a.loaded.month = MonthOf(a.day) THEN a.loaded.monthBytes ELSE 0) + a.bytes
      /\ row.totalBytes = a.loaded.totalBytes + a.bytes
  BY <1>1, <1>2, PlusFacts
<1>6. /\ cr \in Credits
      /\ cr.total = credit[i].total + a.bytes
      /\ cr.day[a.day] = credit[i].day[a.day] + a.bytes
      /\ cr.month[MonthOf(a.day)] = credit[i].month[MonthOf(a.day)] + a.bytes
  BY <1>1, <1>3, CreditedFacts
<1>7. /\ \A j \in Uids : rows'[j] = IF j = i THEN row ELSE rows[j]
      /\ \A j \in Uids : credit'[j] = IF j = i THEN cr ELSE credit[j]
  BY <1>1, <1>3, <1>4
<1>8. row # NoRow
  BY <1>5
<1> HIDE DEF row, cr
<1>9. TypeOK'
  <2>1. add' \in [Writers -> Calls]
    BY <1>1, <1>4, NoCallFacts
  <2>2. rows' \in [Uids -> Counters \cup {NoRow}] /\ credit' \in [Uids -> Credits]
    BY <1>1, <1>3, <1>4, <1>5, <1>6
  <2> QED
    BY <1>4, <2>1, <2>2 DEF IndInv, TypeOK, Calls, Credits
<1>10. TxOwnsRow'
  <2>1. ASSUME NEW v \in Writers PROVE add'[v].pc # "tx"
    <3>1. CASE v = w
      BY <1>1, <1>4, <3>1, NoCallFacts
    <3>2. CASE v # w
      BY <1>a, <1>1, <1>4, <3>2, OneTransaction DEF IndInv
    <3> QED
      BY <3>1, <3>2
  <2> QED
    BY <2>1 DEF TxOwnsRow
<1>11. NotLiveNoRow'
  BY <1>1, <1>4, <1>7 DEF IndInv, NotLiveNoRow
<1>12. /\ a.loaded.month = MonthOf(a.loaded.day)
       /\ a.loaded.dayBytes <= a.loaded.monthBytes
       /\ a.loaded.monthBytes <= a.loaded.totalBytes
       /\ a.loaded.totalBytes = credit[i].total
  BY <1>1, ZeroRowFacts DEF IndInv, CountersNested, TotalExact
<1>13. /\ a.loaded.dayBytes \in Nat /\ a.loaded.monthBytes \in Nat
       /\ a.loaded.totalBytes \in Nat
  BY <1>2 DEF Counters
<1>14. CountersNested'
  <2>1. row.dayBytes <= row.monthBytes /\ row.monthBytes <= row.totalBytes
    BY <1>1, <1>5, <1>12, <1>13
  <2> QED
    BY <1>5, <1>7, <2>1 DEF IndInv, CountersNested
<1>15. TotalExact'
  BY <1>5, <1>6, <1>7, <1>8, <1>12 DEF IndInv, TotalExact
<1>16. RowsCovered'
  <2>1. /\ credit[i].day \in [Days -> Nat] /\ credit[i].month \in [Days -> Nat]
        /\ credit[i].day[a.day] \in Nat
        /\ credit[i].month[MonthOf(a.day)] \in Nat
    BY <1>1, <1>3, MonthType DEF Credits
  <2>2. /\ a.loaded.dayBytes <= credit[i].day[a.day] \/ a.loaded.day # a.day
        /\ a.loaded.monthBytes <= credit[i].month[MonthOf(a.day)]
             \/ a.loaded.month # MonthOf(a.day)
    <3>1. CASE rows[i] = NoRow
      BY <1>1, <2>1, <3>1, ZeroRowFacts
    <3>2. CASE rows[i] # NoRow
      BY <1>1, <3>2 DEF IndInv, RowsCovered
    <3> QED
      BY <3>1, <3>2
  <2>3. row.dayBytes <= cr.day[row.day]
    BY <1>1, <1>5, <1>6, <1>13, <2>1, <2>2
  <2>4. row.monthBytes <= cr.month[row.month]
    BY <1>1, <1>5, <1>6, <1>13, <2>1, <2>2
  <2> QED
    BY <1>7, <2>3, <2>4 DEF IndInv, RowsCovered
<1> QED
  BY <1>9, <1>10, <1>11, <1>14, <1>15, <1>16 DEF IndInv

\* A statement needs the free connection, so no transaction is open: the row
\* it writes is none a transaction works on.
LEMMA StatementPreservesInv ==
  ASSUME IndInv, ConnFree, UNCHANGED <<dbConn, add>>, TypeOK', NotLiveNoRow',
         NEW i \in Uids,
         \A j \in Uids \ {i} : rows'[j] = rows[j] /\ credit'[j] = credit[j],
         \/ rows'[i] = NoRow /\ credit'[i] = NoCredit
         \/ \E d \in Days : rows'[i] = ZeroRow(d) /\ credit'[i] = NoCredit
  PROVE  IndInv'
<1>1. TxOwnsRow'
  BY FreeMeansNoTx DEF IndInv, TxOwnsRow
<1>2. NoCredit.total = 0 /\ NoCredit.day \in [Days -> {0}] /\ NoCredit.month \in [Days -> {0}]
  BY DEF NoCredit
<1>3. CASE rows'[i] = NoRow /\ credit'[i] = NoCredit
  BY <1>1, <1>2, <1>3 DEF IndInv, CountersNested, TotalExact, RowsCovered
<1>4. ASSUME NEW d \in Days, rows'[i] = ZeroRow(d), credit'[i] = NoCredit
      PROVE  CountersNested' /\ TotalExact' /\ RowsCovered'
  <2>1. /\ ZeroRow(d) \in Counters /\ ZeroRow(d) # NoRow
        /\ ZeroRow(d).day = d /\ ZeroRow(d).month = MonthOf(d)
        /\ ZeroRow(d).dayBytes = 0 /\ ZeroRow(d).monthBytes = 0 /\ ZeroRow(d).totalBytes = 0
    BY ZeroRowFacts
  <2>2. NoCredit.day[d] = 0 /\ NoCredit.month[MonthOf(d)] = 0
    BY <1>2, MonthType
  <2>3. CountersNested'
    BY <1>4, <2>1 DEF IndInv, CountersNested
  <2>4. TotalExact'
    BY <1>2, <1>4, <2>1 DEF IndInv, TotalExact
  <2>5. RowsCovered'
    BY <1>4, <2>1, <2>2 DEF IndInv, RowsCovered
  <2> QED
    BY <2>3, <2>4, <2>5
<1> QED
  BY <1>1, <1>3, <1>4 DEF IndInv

\* The credit after a reset.
LEMMA NoCreditType == NoCredit \in Credits
BY DEF NoCredit, Credits

\* The reset writes a row only for an account that exists.
LEMMA ResetRowPreservesInv ==
  ASSUME IndInv, ResetRow
  PROVE  IndInv'
<1>1. PICK i \in Uids, d \in Days : i = reset.uid /\ d = reset.day
  BY DEF IndInv, TypeOK
<1>2. NoReset \in [pc : {"idle", "found"}, uid : Uids, day : Days]
  BY DEF NoReset, Uids, Days
<1>3. CASE i \in live
  <2>1. /\ rows' = [rows EXCEPT ![i] = ZeroRow(d)]
        /\ credit' = [credit EXCEPT ![i] = NoCredit]
        /\ reset' = NoReset /\ ConnFree
        /\ UNCHANGED <<today, lastUid, live, dbConn, add>>
    BY <1>1, <1>3 DEF ResetRow
  <2>2. /\ rows \in [Uids -> Counters \cup {NoRow}]
        /\ credit \in [Uids -> Credits]
    BY DEF IndInv, TypeOK, Credits
  <2>3. TypeOK'
    <3>1. rows' \in [Uids -> Counters \cup {NoRow}] /\ credit' \in [Uids -> Credits]
      BY <2>1, <2>2, ZeroRowFacts, NoCreditType
    <3> QED
      BY <1>2, <2>1, <3>1 DEF IndInv, TypeOK, Credits
  <2>4. NotLiveNoRow'
    BY <1>3, <2>1, <2>2 DEF IndInv, NotLiveNoRow
  <2>5. /\ rows'[i] = ZeroRow(d) /\ credit'[i] = NoCredit
        /\ \A j \in Uids \ {i} : rows'[j] = rows[j] /\ credit'[j] = credit[j]
    BY <2>1, <2>2
  <2> QED
    BY <2>1, <2>3, <2>4, <2>5, StatementPreservesInv
<1>4. CASE i \notin live
  <2>1. reset' = NoReset /\ UNCHANGED <<today, lastUid, live, rows, dbConn, add, credit>>
    BY <1>1, <1>4 DEF ResetRow
  <2>2. TypeOK'
    BY <1>2, <2>1 DEF IndInv, TypeOK
  <2>3. TxOwnsRow'
    BY <2>1 DEF IndInv, TxOwnsRow
  <2> QED
    BY <2>1, <2>2, <2>3, TablesUnchanged DEF IndInv
<1> QED
  BY <1>3, <1>4

\* The row goes with its account, while no transaction works on it.
LEMMA DeleteUserPreservesInv ==
  ASSUME IndInv, NEW i \in Uids, DeleteUser(i)
  PROVE  IndInv'
<1>1. /\ rows' = [rows EXCEPT ![i] = NoRow]
      /\ credit' = [credit EXCEPT ![i] = NoCredit]
      /\ live' = live \ {i} /\ ConnFree
      /\ UNCHANGED <<today, lastUid, dbConn, add, reset>>
  BY DEF DeleteUser
<1>2. rows \in [Uids -> Counters \cup {NoRow}] /\ credit \in [Uids -> Credits]
  BY DEF IndInv, TypeOK, Credits
<1>3. TypeOK'
  <2>1. rows' \in [Uids -> Counters \cup {NoRow}] /\ credit' \in [Uids -> Credits]
    BY <1>1, <1>2, NoCreditType
  <2>2. live' \subseteq 1..lastUid'
    BY <1>1 DEF IndInv, TypeOK
  <2> QED
    BY <1>1, <2>1, <2>2 DEF IndInv, TypeOK, Credits
<1>4. NotLiveNoRow'
  BY <1>1, <1>2 DEF IndInv, NotLiveNoRow
<1>5. /\ rows'[i] = NoRow /\ credit'[i] = NoCredit
      /\ \A j \in Uids \ {i} : rows'[j] = rows[j] /\ credit'[j] = credit[j]
  BY <1>1, <1>2
<1> QED
  BY <1>1, <1>3, <1>4, <1>5, StatementPreservesInv

\* To find the id changes no table.
LEMMA ResetFindPreservesInv ==
  ASSUME IndInv, NEW i \in Uids, ResetFind(i)
  PROVE  IndInv'
<1>1. /\ reset' = [pc |-> "found", uid |-> i, day |-> today]
      /\ UNCHANGED <<today, lastUid, live, rows, dbConn, add, credit>>
  BY DEF ResetFind
<1>2. TypeOK'
  BY <1>1 DEF IndInv, TypeOK
<1>3. TxOwnsRow'
  BY <1>1 DEF IndInv, TxOwnsRow
<1> QED
  BY <1>1, <1>2, <1>3, TablesUnchanged DEF IndInv

\* The new account has a fresh id, which no transaction and no row names.
LEMMA CreateUserPreservesInv ==
  ASSUME IndInv, CreateUser
  PROVE  IndInv'
<1>1. /\ lastUid < MaxUid /\ lastUid' = lastUid + 1 /\ live' = live \cup {lastUid'}
      /\ UNCHANGED <<today, rows, dbConn, add, reset, credit>>
  BY DEF CreateUser
<1>2. lastUid \in 0..MaxUid /\ live \subseteq 1..lastUid
  BY DEF IndInv, TypeOK
<1>3. lastUid' \in 0..MaxUid /\ live' \subseteq 1..lastUid'
  BY <1>1, <1>2
<1>4. TypeOK'
  BY <1>1, <1>3 DEF IndInv, TypeOK
<1>5. TxOwnsRow'
  BY <1>1 DEF IndInv, TxOwnsRow
<1>6. NotLiveNoRow'
  BY <1>1 DEF IndInv, NotLiveNoRow
<1>7. CountersNested' /\ TotalExact' /\ RowsCovered'
  BY <1>1 DEF IndInv, CountersNested, TotalExact, RowsCovered
<1> QED
  BY <1>4, <1>5, <1>6, <1>7 DEF IndInv

\* The clock and a restart leave tables and credit alone; a restart ends
\* every call and returns the connection.
LEMMA EnvironmentPreservesInv ==
  ASSUME IndInv, NextDay \/ Restart
  PROVE  IndInv'
<1>1. CASE NextDay
  <2>1. /\ today < MaxDay /\ today' = today + 1
        /\ UNCHANGED <<lastUid, live, rows, dbConn, add, reset, credit>>
    BY <1>1 DEF NextDay
  <2>2. today' \in Days
    BY <2>1 DEF IndInv, TypeOK, Days
  <2>3. TypeOK'
    BY <2>1, <2>2 DEF IndInv, TypeOK
  <2>4. TxOwnsRow'
    BY <2>1 DEF IndInv, TxOwnsRow
  <2> QED
    BY <2>1, <2>3, <2>4, TablesUnchanged DEF IndInv
<1>2. CASE Restart
  <2>1. /\ dbConn' = NoOne /\ add' = [w \in Writers |-> NoCall] /\ reset' = NoReset
        /\ UNCHANGED <<today, lastUid, live, rows, credit>>
    BY <1>2 DEF Restart
  <2>2. NoReset \in [pc : {"idle", "found"}, uid : Uids, day : Days]
    BY DEF NoReset, Uids, Days
  <2>3. add' \in [Writers -> Calls] /\ \A w \in Writers : add'[w].pc = "idle"
    BY <2>1, NoCallFacts
  <2>4. TypeOK'
    BY <2>1, <2>2, <2>3 DEF IndInv, TypeOK, Calls
  <2>5. TxOwnsRow'
    BY <2>3 DEF TxOwnsRow
  <2> QED
    BY <2>1, <2>4, <2>5, TablesUnchanged DEF IndInv
<1> QED
  BY <1>1, <1>2

\* Every step of metering, of the admin statements and of the environment
\* preserves the inductive invariant.
THEOREM NextPreservesInv == IndInv /\ [Next]_vars => IndInv'
<1> SUFFICES ASSUME IndInv, [Next]_vars PROVE IndInv'
  OBVIOUS
<1>1. ASSUME NEW w \in Writers, NEW uid \in Uids, NEW bytes \in Sizes, Record(w, uid, bytes)
      PROVE  IndInv'
  BY <1>1, RecordPreservesInv
<1>2. ASSUME NEW w \in Writers, Begin(w) PROVE IndInv'
  BY <1>2, BeginPreservesInv
<1>3. ASSUME NEW w \in Writers, BeginFails(w) \/ GiveUp(w) PROVE IndInv'
  BY <1>3, DroppedCallPreservesInv
<1>4. ASSUME NEW w \in Writers, Commit(w) PROVE IndInv'
  BY <1>4, CommitPreservesInv
<1>5. ASSUME NEW uid \in Uids, ResetFind(uid) PROVE IndInv'
  BY <1>5, ResetFindPreservesInv
<1>6. ASSUME NEW uid \in Uids, DeleteUser(uid) PROVE IndInv'
  BY <1>6, DeleteUserPreservesInv
<1>7. CASE ResetRow
  BY <1>7, ResetRowPreservesInv
<1>8. CASE CreateUser
  BY <1>8, CreateUserPreservesInv
<1>9. CASE NextDay \/ Restart
  BY <1>9, EnvironmentPreservesInv
<1>10. CASE UNCHANGED vars
  <2>1. UNCHANGED <<today, lastUid, live, rows, dbConn, add, reset, credit>>
    BY <1>10 DEF vars
  <2>2. TypeOK' /\ TxOwnsRow'
    BY <2>1 DEF IndInv, TypeOK, TxOwnsRow
  <2> QED
    BY <2>1, <2>2, TablesUnchanged DEF IndInv
<1> QED
  BY <1>1, <1>2, <1>3, <1>4, <1>5, <1>6, <1>7, <1>8, <1>9, <1>10 DEF Next

\* The inductive invariant holds in every reachable state.
THEOREM InvariantHolds == Spec => []IndInv
BY InitEstablishesInv, NextPreservesInv, PTL DEF Spec

\* Rows, calls and credit have their types.
THEOREM TypeCorrect == Spec => []TypeOK
<1>1. IndInv => TypeOK
  BY DEF IndInv
<1> QED
  BY <1>1, InvariantHolds, PTL

\* A transaction of AddUsage works on the row that is in the table, for any
\* number of relays, admin statements and restarts.
THEOREM TransactionsOwnTheirRow == Spec => []TxOwnsRow
<1>1. IndInv => TxOwnsRow
  BY DEF IndInv
<1> QED
  BY <1>1, InvariantHolds, PTL

\* The day counter never exceeds the month counter, nor that the total.
THEOREM CountersAlwaysNested == Spec => []CountersNested
<1>1. IndInv => CountersNested
  BY DEF IndInv
<1> QED
  BY <1>1, InvariantHolds, PTL

\* No committed chunk is lost from the total or counted twice in it.
THEOREM TotalAlwaysExact == Spec => []TotalExact
<1>1. IndInv => TotalExact
  BY DEF IndInv
<1> QED
  BY <1>1, InvariantHolds, PTL

\* What Authorize compares with a quota was used in the quota's period.
LEMMA CoveredMeansNotOverCharged == IndInv => NeverOverCharged
<1> SUFFICES ASSUME IndInv, NEW i \in Uids
             PROVE  /\ Effective(i, today).dayBytes <= credit[i].day[today]
                    /\ Effective(i, today).monthBytes <= credit[i].month[MonthOf(today)]
  BY DEF NeverOverCharged
<1>1. today \in Days /\ rows[i] \in Counters \cup {NoRow} /\ credit[i] \in Credits
  BY DEF IndInv, TypeOK, Credits
<1>2. credit[i].day[today] \in Nat /\ credit[i].month[MonthOf(today)] \in Nat
  BY <1>1, MonthType DEF Credits
<1>3. CASE rows[i] = NoRow
  <2>1. Effective(i, today) = ZeroRow(today)
    BY <1>3 DEF Effective
  <2> QED
    BY <1>1, <1>2, <2>1, ZeroRowFacts
<1>4. CASE rows[i] # NoRow
  <2> DEFINE r == RolledOver(rows[i], today)
  <2>1. rows[i] \in Counters
    BY <1>1, <1>4
  <2>2. /\ r \in Counters
        /\ r.dayBytes = IF rows[i].day = today THEN rows[i].dayBytes ELSE 0
        /\ r.monthBytes = IF rows[i].month = MonthOf(today) THEN rows[i].monthBytes ELSE 0
    BY <1>1, <2>1, RolledOverFacts
  <2>3. Effective(i, today) = [r EXCEPT !.day = today, !.month = MonthOf(today)]
    BY <1>4 DEF Effective
  <2> HIDE DEF r
  <2>4. /\ Effective(i, today).dayBytes = r.dayBytes
        /\ Effective(i, today).monthBytes = r.monthBytes
    BY <2>2, <2>3 DEF Counters
  <2>5. /\ rows[i].dayBytes <= credit[i].day[rows[i].day]
        /\ rows[i].monthBytes <= credit[i].month[rows[i].month]
    BY <1>4 DEF IndInv, RowsCovered
  <2> QED
    BY <1>2, <2>2, <2>4, <2>5
<1> QED
  BY <1>3, <1>4

\* No account is refused for the traffic of another day or month.
THEOREM NobodyOverCharged == Spec => []NeverOverCharged
BY CoveredMeansNotOverCharged, InvariantHolds, PTL
=============================================================================
