--------------------------- MODULE SessionManager ---------------------------
(***************************************************************************)
(* The in-memory table of live proxy sessions, internal/session/manager.go.*)
(*                                                                         *)
(* One mutex guards the counter nextID and the three maps active, entries  *)
(* and byUser, so every method is one atomic step, except KickUser: it     *)
(* collects the closers of the user's entries under the mutex and calls    *)
(* them after it has let the mutex go.  Between two calls any other method *)
(* may run, so a closer may be called after its entry was given another    *)
(* closer, or after the entry was released.                                *)
(*                                                                         *)
(* A missing map key is 0 in active, NoEntry in entries and {} in byUser.  *)
(* The variable issued is a history variable, read by no guard: for whom,  *)
(* and under which limit, a session id was granted.                        *)
(***************************************************************************)
EXTENDS Integers, FiniteSets

CONSTANTS Users,      \* account names
          Limits,     \* the maxConns arguments callers pass, any integers
          Closers,    \* what an entry's closer does when it is called
          NilCloser,  \* the nil func
          NoEntry,    \* a missing key of entries
          NoUser,     \* a kicker that runs no KickUser
          Kickers,    \* goroutines that may run KickUser at the same time
          MaxID       \* bound: session ids issued in one behaviour

ASSUME SessionAssumption ==
  /\ Limits \subseteq Int
  /\ MaxID \in Nat
  /\ NilCloser \notin Closers
  /\ NoUser \notin Users
  /\ NoEntry \notin [username : Users, closer : Closers \cup {NilCloser}]
  /\ NoEntry \notin [username : Users, limit : Int]

VARIABLES nextID,   \* the last id issued
          active,   \* per user, the count compared with maxConns
          entries,  \* per id, its user and closer
          byUser,   \* per user, the ids of its entries
          issued,   \* history: per id, its user and the limit it passed
          kicking   \* per kicker, the KickUser call it is in

vars == <<nextID, active, entries, byUser, issued, kicking>>

IDs == 1..MaxID

Entry == [username : Users, closer : Closers \cup {NilCloser}]

Idle == [user |-> NoUser, todo |-> {}]

TypeOK ==
  /\ nextID \in 0..MaxID
  /\ active \in [Users -> Nat]
  /\ entries \in [IDs -> Entry \cup {NoEntry}]
  /\ byUser \in [Users -> SUBSET IDs]
  /\ issued \in [IDs -> [username : Users, limit : Int] \cup {NoEntry}]
  /\ kicking \in [Kickers -> [user : Users \cup {NoUser},
                              todo : SUBSET (IDs \X Closers)]]

Init ==
  /\ nextID = 0
  /\ active = [u \in Users |-> 0]
  /\ entries = [i \in IDs |-> NoEntry]
  /\ byUser = [u \in Users |-> {}]
  /\ issued = [i \in IDs |-> NoEntry]
  /\ kicking = [k \in Kickers |-> Idle]

(***************************************************************************)
(* Acquire                                                                 *)
(***************************************************************************)
EffectiveMax(maxConns) == IF maxConns <= 0 THEN 1 ELSE maxConns

\* Mutant: one connection too many.
HasRoomAtLimit(u, maxConns) == active[u] <= EffectiveMax(maxConns)

HasRoom(u, maxConns) == active[u] < EffectiveMax(maxConns)

\* The granted call.  A refused one (~ HasRoom) returns false and changes
\* nothing; nextID < MaxID is the bound of the model.
Acquire(u, maxConns, closer) ==
  /\ HasRoom(u, maxConns)
  /\ nextID < MaxID
  /\ nextID' = nextID + 1
  /\ active' = [active EXCEPT ![u] = @ + 1]
  /\ entries' = [entries EXCEPT ![nextID'] = [username |-> u, closer |-> closer]]
  /\ byUser' = [byUser EXCEPT ![u] = @ \cup {nextID'}]
  /\ issued' = [issued EXCEPT ![nextID'] =
                  [username |-> u, limit |-> EffectiveMax(maxConns)]]
  /\ UNCHANGED kicking

(***************************************************************************)
(* SetCloser and Release.  Both return at once for an id without an entry. *)
(***************************************************************************)
\* Mutant: the entry is written back without the test that it is there.
SetCloserUntested(id, closer) ==
  /\ id <= nextID
  /\ entries' = [entries EXCEPT ![id] = [username |-> issued[id].username, closer |-> closer]]
  /\ UNCHANGED <<nextID, active, byUser, issued, kicking>>

SetCloser(id, closer) ==
  /\ entries[id] # NoEntry
  /\ entries' = [entries EXCEPT ![id].closer = closer]
  /\ UNCHANGED <<nextID, active, byUser, issued, kicking>>

\* Mutant: byUser keeps the id.
ReleaseKeepsIndex(id) ==
  /\ entries[id] # NoEntry
  /\ entries' = [entries EXCEPT ![id] = NoEntry]
  /\ LET u == entries[id].username
     IN  active' = [active EXCEPT ![u] = IF @ <= 1 THEN 0 ELSE @ - 1]
  /\ UNCHANGED <<nextID, byUser, issued, kicking>>

\* Mutant: the counter is deleted with the first session, not the last.
ReleaseForgetsOthers(id) ==
  /\ entries[id] # NoEntry
  /\ entries' = [entries EXCEPT ![id] = NoEntry]
  /\ LET u == entries[id].username
     IN  /\ byUser' = [byUser EXCEPT ![u] = @ \ {id}]
         /\ active' = [active EXCEPT ![u] = 0]
  /\ UNCHANGED <<nextID, issued, kicking>>

Release(id) ==
  /\ entries[id] # NoEntry
  /\ entries' = [entries EXCEPT ![id] = NoEntry]
  /\ LET u == entries[id].username
     IN  /\ byUser' = [byUser EXCEPT ![u] = @ \ {id}]
         /\ active' = [active EXCEPT ![u] = IF @ <= 1 THEN 0 ELSE @ - 1]
  /\ UNCHANGED <<nextID, issued, kicking>>

(***************************************************************************)
(* KickUser                                                                *)
(***************************************************************************)
\* Mutant: a nil closer is collected, to be called.
ClosersOrNilOf(u) ==
  {<<i, entries[i].closer>> : i \in {j \in byUser[u] : entries[j] # NoEntry}}

\* Mutant: all entries are searched, not those of the user.
ClosersOfAll(u) ==
  {<<i, entries[i].closer>> :
     i \in {j \in IDs : entries[j] # NoEntry /\ entries[j].closer # NilCloser}}

\* The ids of u's entries whose closer is not nil, with that closer.
ClosersOf(u) ==
  {<<i, entries[i].closer>> :
     i \in {j \in byUser[u] : /\ entries[j] # NoEntry
                              /\ entries[j].closer # NilCloser}}

\* Mutant: a kick also frees the slots, which their handlers still use.
KickCollectEvicts(k, u) ==
  /\ kicking[k].user = NoUser
  /\ kicking' = [kicking EXCEPT ![k] = [user |-> u, todo |-> ClosersOf(u)]]
  /\ entries' = [i \in IDs |-> IF i \in byUser[u] THEN NoEntry ELSE entries[i]]
  /\ byUser' = [byUser EXCEPT ![u] = {}]
  /\ active' = [active EXCEPT ![u] = 0]
  /\ UNCHANGED <<nextID, issued>>

KickCollect(k, u) ==
  /\ kicking[k].user = NoUser
  /\ kicking' = [kicking EXCEPT ![k] = [user |-> u, todo |-> ClosersOf(u)]]
  /\ UNCHANGED <<nextID, active, entries, byUser, issued>>

\* Mutant: closers are called until the user has none.
KickRunUntilNone(k, call) ==
  /\ call \in kicking[k].todo
  /\ kicking' = [kicking EXCEPT ![k].todo = (@ \ {call}) \cup ClosersOf(kicking[k].user)]
  /\ UNCHANGED <<nextID, active, entries, byUser, issued>>

\* One collected closer is called, in the order of the map iteration: any.
KickRun(k, call) ==
  /\ call \in kicking[k].todo
  /\ kicking' = [kicking EXCEPT ![k].todo = @ \ {call}]
  /\ UNCHANGED <<nextID, active, entries, byUser, issued>>

KickReturn(k) ==
  /\ kicking[k].user # NoUser
  /\ kicking[k].todo = {}
  /\ kicking' = [kicking EXCEPT ![k] = Idle]
  /\ UNCHANGED <<nextID, active, entries, byUser, issued>>

(***************************************************************************)
(* The two read-only methods: the keys of active, and active itself.       *)
(***************************************************************************)
ActiveUsernames == {u \in Users : active[u] > 0}

Snapshot == [u \in ActiveUsernames |-> active[u]]

Next ==
  \/ \E u \in Users, m \in Limits, c \in Closers \cup {NilCloser} : Acquire(u, m, c)
  \/ \E id \in IDs, c \in Closers : SetCloser(id, c)
  \/ \E id \in IDs : Release(id)
  \/ \E k \in Kickers, u \in Users : KickCollect(k, u)
  \/ \E k \in Kickers : \E call \in kicking[k].todo : KickRun(k, call)
  \/ \E k \in Kickers : KickReturn(k)

KickStep(k) == (\E call \in kicking[k].todo : KickRun(k, call)) \/ KickReturn(k)

Spec == Init /\ [][Next]_vars

\* A goroutine in KickUser runs on: the closers close sockets, which does
\* not block.  Nothing obliges callers to acquire, release or kick.
FairSpec == Spec /\ \A k \in Kickers : WF_vars(KickStep(k))

(***************************************************************************)
(* Properties                                                              *)
(***************************************************************************)
Live(u) == {i \in IDs : entries[i] # NoEntry /\ entries[i].username = u}

\* The three maps tell one story: byUser lists exactly the ids whose entry
\* names the user, and the counter Acquire compares with maxConns is their
\* number.  A wrong count lets a user in over its limit or locks it out for
\* ever, and hides it from ActiveUsernames, hence from the policy enforcer.
MapsAgree ==
  \A u \in Users : /\ byUser[u] = Live(u)
                   /\ active[u] = Cardinality(byUser[u])

\* Per-account concurrency: counting the sessions of its user that are as
\* old as it or older, a live session is within the limit it was granted
\* under, whatever was acquired, released and kicked since, in any order and
\* with any other limit in between.
WithinGrantedLimit ==
  \A u \in Users : \A i \in Live(u) :
     Cardinality({j \in Live(u) : j <= i}) <= issued[i].limit

\* A kick reaches only sessions of the user it names, even a closer that is
\* called long after its entry was released.
KickTargetsItsUser ==
  \A k \in Kickers : \A call \in kicking[k].todo :
     /\ issued[call[1]] # NoEntry
     /\ issued[call[1]].username = kicking[k].user

\* The history agrees with the table: the ids up to nextID are the issued
\* ones, and an entry names the user its id was issued to.
HistoryAgrees ==
  \A i \in IDs : /\ issued[i] # NoEntry <=> i <= nextID
                 /\ entries[i] # NoEntry =>
                      /\ issued[i] # NoEntry
                      /\ issued[i].username = entries[i].username

IndInv == TypeOK /\ HistoryAgrees /\ MapsAgree /\ WithinGrantedLimit /\ KickTargetsItsUser

\* A session id is never handed out twice: once its entry is gone it stays
\* gone, so a late SetCloser, Release or closer of an ended session cannot
\* act on another session.
TokensNeverReused ==
  [][\A i \in IDs : (i <= nextID /\ entries[i] = NoEntry) => entries'[i] = NoEntry]_vars

\* The refinement: a slot is held while its entry is in the map, on the limit
\* that was passed to Acquire.
Slot == INSTANCE ConnSlots WITH
          Slots <- IDs,
          Terms <- {EffectiveMax(m) : m \in Limits},
          held <- [u \in Users |-> Live(u)],
          term <- [i \in IDs |-> IF issued[i] = NoEntry THEN 0 ELSE issued[i].limit]

\* The manager, whose guard reads the counter active and never a set, keeps
\* the promise of ConnSlots.
ImplementsSlots == Slot!SlotsSpec

\* KickUser returns: sessions acquired while it runs do not prolong it.
KickTerminates ==
  \A k \in Kickers : (kicking[k].user # NoUser) ~> (kicking[k].user = NoUser)
=============================================================================
