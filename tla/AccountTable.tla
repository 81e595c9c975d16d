---------------------------- MODULE AccountTable ----------------------------
(***************************************************************************)
(* What table users promises to the console, whatever requests run at the  *)
(* same time.  A row is written as a whole, and from one earlier version   *)
(* of the same account: an update may bring back older values of fields    *)
(* that it does not name, but it never mixes two accounts, never writes to *)
(* an account that is gone, and an id is given out once.                   *)
(***************************************************************************)
EXTENDS Integers

CONSTANTS Names, NoAccount,
          Roles,     \* what the role column may hold
          Payloads   \* what an update may ask: values for some of the fields

VARIABLES accounts,  \* per name, its row or NoAccount
          past       \* every row that was ever in the table

tableVars == <<accounts, past>>

Fields == {"role", "enabled", "expired", "maxConns"}

Settings == [role : Roles, enabled : BOOLEAN, expired : BOOLEAN, maxConns : Nat \ {0}]

Present(n) == accounts[n] # NoAccount

RowsOf(table) == {table[n] : n \in {m \in Names : table[m] # NoAccount}}

\* The row with the payload's fields replaced and the others as they are.
Merge(row, p) ==
  [row EXCEPT !.set = [f \in Fields |-> IF f \in DOMAIN p THEN p[f] ELSE row.set[f]]]

TableInit ==
  /\ past = RowsOf(accounts)
  /\ \A m, n \in Names : Present(m) /\ Present(n) /\ m # n => accounts[m].id # accounts[n].id

Insert(n) ==
  /\ ~ Present(n)
  /\ \E row \in RowsOf(accounts') \ past :
        /\ accounts' = [accounts EXCEPT ![n] = row]
        /\ row.set \in Settings
        /\ \A old \in past : old.id < row.id

Rewrite(n) ==
  /\ Present(n)
  /\ \E old \in past, p \in Payloads :
        /\ old.id = accounts[n].id
        /\ accounts' = [accounts EXCEPT ![n] = Merge(old, p)]

Remove(n) == Present(n) /\ accounts' = [accounts EXCEPT ![n] = NoAccount]

\* At a start of the process: what store.EnsureAdmin does to an account.
Restore(n) ==
  /\ Present(n)
  /\ accounts' = [accounts EXCEPT ![n].set.role = "admin", ![n].set.enabled = TRUE]

TableNext ==
  /\ \E n \in Names : Insert(n) \/ Rewrite(n) \/ Remove(n) \/ Restore(n)
  /\ past' = past \cup RowsOf(accounts')

TableSpec == TableInit /\ [][TableNext]_tableVars
=============================================================================
