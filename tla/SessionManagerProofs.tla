------------------------ MODULE SessionManagerProofs ------------------------
(***************************************************************************)
(* Proofs about SessionManager, for every set of users, limits, closers,   *)
(* kickers and every number of session ids.  IndInv is inductive; the      *)
(* other results follow from it.                                           *)
(***************************************************************************)
EXTENDS SessionManager, FiniteSetTheorems, TLAPS

USE SessionAssumption DEF IDs

\* Every set of session ids is finite and its size is a number.
LEMMA IDSetsFinite ==
  ASSUME NEW S, S \subseteq IDs
  PROVE  IsFiniteSet(S) /\ Cardinality(S) \in Nat
<1>1. IsFiniteSet(1..MaxID)
  BY FS_Interval
<1> QED
  BY <1>1, FS_Subset, FS_CardinalityType

\* A session id more: the size of a set of ids grows by one.
LEMMA OneMoreID ==
  ASSUME NEW S, S \subseteq IDs, NEW i, i \notin S
  PROVE  Cardinality(S \cup {i}) = Cardinality(S) + 1
BY IDSetsFinite, FS_AddElement

\* A session id less: the size of a set of ids shrinks by one.
LEMMA OneLessID ==
  ASSUME NEW S, S \subseteq IDs, NEW i, i \in S
  PROVE  Cardinality(S \ {i}) = Cardinality(S) - 1
BY IDSetsFinite, FS_RemoveElement

\* A limit below one is raised to one by Acquire, so a limit is a positive number.
LEMMA EffectiveMaxPositive ==
  ASSUME NEW m \in Limits
  PROVE  EffectiveMax(m) \in Nat /\ EffectiveMax(m) >= 1
BY DEF EffectiveMax

\* What Acquire does to the sets of live ids: the new id, larger than every
\* live one, joins those of its user and of no other.
LEMMA LiveAfterAcquire ==
  ASSUME IndInv, NEW u \in Users, NEW m \in Limits,
         NEW c \in Closers \cup {NilCloser}, Acquire(u, m, c)
  PROVE  /\ nextID + 1 \in IDs
         /\ entries[nextID + 1] = NoEntry
         /\ Live(u)' = Live(u) \cup {nextID + 1}
         /\ \A v \in Users \ {u} : Live(v)' = Live(v)
         /\ \A v \in Users : \A j \in Live(v) : j <= nextID
<1>1. nextID \in Nat /\ nextID + 1 \in IDs
  BY DEF IndInv, TypeOK, Acquire
<1>2. \A i \in IDs : entries[i] # NoEntry => i <= nextID
  BY DEF IndInv, HistoryAgrees
<1>3. entries[nextID + 1] = NoEntry
  BY <1>1, <1>2
<1>4. [username |-> u, closer |-> c] \in Entry
  BY DEF Entry
<1>5. [username |-> u, closer |-> c] # NoEntry
  BY <1>4 DEF Entry
<1>6. entries' = [entries EXCEPT ![nextID + 1] = [username |-> u, closer |-> c]]
  BY DEF Acquire
<1>7. entries \in [IDs -> Entry \cup {NoEntry}]
  BY DEF IndInv, TypeOK
<1>8. \A i \in IDs : entries'[i] = IF i = nextID + 1 THEN [username |-> u, closer |-> c]
                                                     ELSE entries[i]
  BY <1>1, <1>6, <1>7
<1>9. Live(u)' = Live(u) \cup {nextID + 1}
  BY <1>1, <1>3, <1>5, <1>8 DEF Live
<1>10. \A v \in Users \ {u} : Live(v)' = Live(v)
  BY <1>1, <1>3, <1>5, <1>8 DEF Live
<1> QED
  BY <1>1, <1>2, <1>3, <1>9, <1>10 DEF Live

\* SetCloser changes no entry's user, so no set of live ids.
LEMMA LiveAfterSetCloser ==
  ASSUME TypeOK, NEW i \in IDs, NEW c \in Closers, SetCloser(i, c)
  PROVE  /\ entries' \in [IDs -> Entry \cup {NoEntry}]
         /\ \A j \in IDs : entries'[j] # NoEntry <=> entries[j] # NoEntry
         /\ \A j \in IDs : entries[j] # NoEntry => entries'[j].username = entries[j].username
         /\ \A v \in Users : Live(v)' = Live(v)
<1>1. entries \in [IDs -> Entry \cup {NoEntry}] /\ entries[i] \in Entry
  BY DEF TypeOK, SetCloser
<1>2. entries' = [entries EXCEPT ![i] = [entries[i] EXCEPT !.closer = c]]
  BY DEF SetCloser
<1>3. [entries[i] EXCEPT !.closer = c] \in Entry
  BY <1>1 DEF Entry
<1>4. [entries[i] EXCEPT !.closer = c] # NoEntry
  BY <1>3 DEF Entry
<1>5. [entries[i] EXCEPT !.closer = c].username = entries[i].username
  BY <1>1 DEF Entry
<1>6. entries' \in [IDs -> Entry \cup {NoEntry}]
  BY <1>1, <1>2, <1>3
<1>7. \A j \in IDs : entries'[j] # NoEntry <=> entries[j] # NoEntry
  BY <1>1, <1>2, <1>4 DEF SetCloser
<1>8. \A j \in IDs : entries[j] # NoEntry => entries'[j].username = entries[j].username
  BY <1>1, <1>2, <1>5
<1> QED
  BY <1>6, <1>7, <1>8 DEF Live

\* Release takes the id from the live ids of its user and of no other.
LEMMA LiveAfterRelease ==
  ASSUME IndInv, NEW i \in IDs, Release(i)
  PROVE  /\ entries[i] \in Entry
         /\ i \in Live(entries[i].username)
         /\ entries' = [entries EXCEPT ![i] = NoEntry]
         /\ \A v \in Users : Live(v)' = Live(v) \ {i}
         /\ \A v \in Users \ {entries[i].username} : i \notin Live(v)
<1>1. entries \in [IDs -> Entry \cup {NoEntry}] /\ entries[i] \in Entry
  BY DEF IndInv, TypeOK, Release
<1>2. entries' = [entries EXCEPT ![i] = NoEntry]
  BY DEF Release
<1> QED
  BY <1>1, <1>2 DEF Live, Release

\* Empty maps satisfy the inductive invariant.
THEOREM InitEstablishesInv == Init => IndInv
<1> SUFFICES ASSUME Init PROVE IndInv
  OBVIOUS
<1>1. TypeOK
  BY DEF Init, TypeOK, Idle
<1>2. HistoryAgrees
  BY DEF Init, HistoryAgrees
<1>3. MapsAgree
  BY FS_EmptySet DEF Init, MapsAgree, Live
<1>4. WithinGrantedLimit /\ KickTargetsItsUser
  BY DEF Init, WithinGrantedLimit, KickTargetsItsUser, Live, Idle
<1> QED
  BY <1>1, <1>2, <1>3, <1>4 DEF IndInv

\* Acquire keeps the invariant: the one action that adds a session.
LEMMA AcquirePreservesInv ==
  ASSUME IndInv, NEW u \in Users, NEW m \in Limits,
         NEW c \in Closers \cup {NilCloser}, Acquire(u, m, c)
  PROVE  IndInv'
<1> DEFINE new == nextID + 1
           grant == [username |-> u, limit |-> EffectiveMax(m)]
<1>1. /\ new \in IDs
      /\ entries[new] = NoEntry
      /\ Live(u)' = Live(u) \cup {new}
      /\ \A v \in Users \ {u} : Live(v)' = Live(v)
      /\ \A v \in Users : \A j \in Live(v) : j <= nextID
  BY LiveAfterAcquire
<1>2. /\ nextID' = new
      /\ active' = [active EXCEPT ![u] = @ + 1]
      /\ entries' = [entries EXCEPT ![new] = [username |-> u, closer |-> c]]
      /\ byUser' = [byUser EXCEPT ![u] = @ \cup {new}]
      /\ issued' = [issued EXCEPT ![new] = grant]
      /\ kicking' = kicking
  BY DEF Acquire
<1>3. /\ EffectiveMax(m) \in Nat
      /\ grant \in [username : Users, limit : Int]
      /\ grant # NoEntry
      /\ grant.username = u /\ grant.limit = EffectiveMax(m)
      /\ [username |-> u, closer |-> c] \in Entry
      /\ [username |-> u, closer |-> c] # NoEntry
  BY EffectiveMaxPositive DEF Entry
<1>4. TypeOK'
  <2> USE DEF IndInv, TypeOK
  <2>1. nextID' \in 0..MaxID
    BY <1>1, <1>2
  <2>2. active' \in [Users -> Nat]
    BY <1>2
  <2>3. entries' \in [IDs -> Entry \cup {NoEntry}]
    BY <1>2, <1>3
  <2>4. byUser' \in [Users -> SUBSET IDs]
    BY <1>1, <1>2
  <2>5. issued' \in [IDs -> [username : Users, limit : Int] \cup {NoEntry}]
    BY <1>2, <1>3
  <2> QED
    BY <1>2, <2>1, <2>2, <2>3, <2>4, <2>5
<1>5. HistoryAgrees'
  <2>1. nextID \in Nat
    BY DEF IndInv, TypeOK
  <2>2. \A i \in IDs : /\ entries'[i] = IF i = new THEN [username |-> u, closer |-> c]
                                                   ELSE entries[i]
                       /\ issued'[i] = IF i = new THEN grant ELSE issued[i]
    BY <1>1, <1>2 DEF IndInv, TypeOK
  <2>3. [username |-> u, closer |-> c].username = u
    OBVIOUS
  <2> QED
    BY <1>1, <1>2, <1>3, <2>1, <2>2, <2>3 DEF IndInv, HistoryAgrees
<1>6. MapsAgree'
  <2> SUFFICES ASSUME NEW v \in Users
               PROVE  byUser'[v] = Live(v)' /\ active'[v] = Cardinality(byUser'[v])
    BY DEF MapsAgree
  <2>1. byUser[v] = Live(v) /\ active[v] = Cardinality(byUser[v]) /\ byUser[v] \subseteq IDs
    BY DEF IndInv, TypeOK, MapsAgree
  <2>2. CASE v = u
    <3>1. new \notin byUser[u]
      BY <1>1, <2>1, <2>2 DEF Live
    <3>2. Cardinality(byUser[u] \cup {new}) = Cardinality(byUser[u]) + 1
      BY <2>1, <2>2, <3>1, OneMoreID
    <3>3. byUser'[u] = byUser[u] \cup {new} /\ active'[u] = active[u] + 1
      BY <1>2 DEF IndInv, TypeOK
    <3> QED
      BY <1>1, <2>1, <2>2, <3>2, <3>3
  <2>3. CASE v # u
    BY <1>1, <1>2, <2>1, <2>3 DEF IndInv, TypeOK
  <2> QED
    BY <2>2, <2>3
<1>7. WithinGrantedLimit'
  <2> SUFFICES ASSUME NEW v \in Users, NEW i \in Live(v)'
               PROVE  Cardinality({j \in Live(v)' : j <= i}) <= issued'[i].limit
    BY DEF WithinGrantedLimit
  <2>0. nextID \in Nat
    BY DEF IndInv, TypeOK
  <2>1. CASE i = new
    <3>1. v = u
      BY <1>1, <2>1 DEF Live
    <3>2. issued'[i].limit = EffectiveMax(m)
      BY <1>1, <1>2, <1>3, <2>1 DEF IndInv, TypeOK
    <3>3. {j \in Live(u)' : j <= new} = Live(u) \cup {new}
      BY <1>1, <2>0 DEF Live
    <3>4. Cardinality(Live(u) \cup {new}) = Cardinality(Live(u)) + 1
      BY <1>1, OneMoreID DEF Live
    <3>5. Cardinality(Live(u)) = active[u] /\ active[u] < EffectiveMax(m) /\ active[u] \in Nat
      BY DEF IndInv, TypeOK, MapsAgree, Acquire, HasRoom
    <3>6. {j \in Live(v)' : j <= i} = Live(u) \cup {new}
      <4>1. Live(v)' = Live(u)'
        BY <3>1
      <4> HIDE DEF new
      <4> QED
        BY <2>1, <3>3, <4>1
    <3>7. Cardinality(Live(u) \cup {new}) <= EffectiveMax(m)
      BY <1>3, <3>4, <3>5
    <3> QED
      BY <3>2, <3>6, <3>7
  <2>2. CASE i # new
    <3>1. i \in Live(v) /\ i <= nextID
      BY <1>1, <2>2
    <3>2. issued'[i] = issued[i]
      BY <1>2, <2>2, <3>1 DEF IndInv, TypeOK, Live
    <3>3. {j \in Live(v)' : j <= i} = {j \in Live(v) : j <= i}
      BY <1>1, <2>0, <3>1 DEF Live
    <3> QED
      BY <3>1, <3>2, <3>3 DEF IndInv, WithinGrantedLimit
  <2> QED
    BY <2>1, <2>2
<1>8. KickTargetsItsUser'
  <2>1. \A i \in IDs : issued[i] # NoEntry => issued'[i] = issued[i]
    <3>1. nextID \in Nat /\ issued[new] = NoEntry
      BY <1>1 DEF IndInv, TypeOK, HistoryAgrees
    <3> QED
      BY <1>2, <3>1 DEF IndInv, TypeOK
  <2> QED
    BY <1>2, <2>1 DEF IndInv, TypeOK, KickTargetsItsUser
<1> QED
  BY <1>4, <1>5, <1>6, <1>7, <1>8 DEF IndInv

\* SetCloser changes neither whose entry it is nor any count.
LEMMA SetCloserPreservesInv ==
  ASSUME IndInv, NEW i \in IDs, NEW c \in Closers, SetCloser(i, c)
  PROVE  IndInv'
<1>1. /\ entries' \in [IDs -> Entry \cup {NoEntry}]
      /\ \A j \in IDs : entries'[j] # NoEntry <=> entries[j] # NoEntry
      /\ \A j \in IDs : entries[j] # NoEntry => entries'[j].username = entries[j].username
      /\ \A v \in Users : Live(v)' = Live(v)
  BY LiveAfterSetCloser DEF IndInv
<1>2. UNCHANGED <<nextID, active, byUser, issued, kicking>>
  BY DEF SetCloser
<1>3. TypeOK'
  BY <1>1, <1>2 DEF IndInv, TypeOK
<1>4. HistoryAgrees'
  BY <1>1, <1>2 DEF IndInv, HistoryAgrees
<1>5. MapsAgree'
  BY <1>1, <1>2 DEF IndInv, MapsAgree
<1>6. WithinGrantedLimit'
  BY <1>1, <1>2 DEF IndInv, WithinGrantedLimit
<1>7. KickTargetsItsUser'
  BY <1>2 DEF IndInv, KickTargetsItsUser
<1> QED
  BY <1>3, <1>4, <1>5, <1>6, <1>7 DEF IndInv

\* Release keeps the invariant; the counter never needs the floor of its
\* curr <= 1 branch, because it is the size of a set the id is in.
LEMMA ReleasePreservesInv ==
  ASSUME IndInv, NEW i \in IDs, Release(i)
  PROVE  IndInv'
<1> DEFINE u == entries[i].username
<1>1. /\ entries[i] \in Entry
      /\ i \in Live(u)
      /\ entries' = [entries EXCEPT ![i] = NoEntry]
      /\ \A v \in Users : Live(v)' = Live(v) \ {i}
      /\ \A v \in Users \ {u} : i \notin Live(v)
  BY LiveAfterRelease
<1>2. /\ u \in Users
      /\ byUser' = [byUser EXCEPT ![u] = @ \ {i}]
      /\ active' = [active EXCEPT ![u] = IF @ <= 1 THEN 0 ELSE @ - 1]
      /\ UNCHANGED <<nextID, issued, kicking>>
  BY <1>1 DEF Release, Entry
<1>3. TypeOK'
  <2>1. active' \in [Users -> Nat]
    BY <1>2 DEF IndInv, TypeOK
  <2>2. byUser' \in [Users -> SUBSET IDs]
    BY <1>2 DEF IndInv, TypeOK
  <2>3. entries' \in [IDs -> Entry \cup {NoEntry}]
    BY <1>1 DEF IndInv, TypeOK
  <2> QED
    BY <1>2, <2>1, <2>2, <2>3 DEF IndInv, TypeOK
<1>4. HistoryAgrees'
  BY <1>1, <1>2 DEF IndInv, TypeOK, HistoryAgrees
<1>5. MapsAgree'
  <2> SUFFICES ASSUME NEW v \in Users
               PROVE  byUser'[v] = Live(v)' /\ active'[v] = Cardinality(byUser'[v])
    BY DEF MapsAgree
  <2>1. /\ byUser[v] = Live(v) /\ active[v] = Cardinality(byUser[v])
        /\ byUser[v] \subseteq IDs /\ active[v] \in Nat
    BY DEF IndInv, TypeOK, MapsAgree
  <2>2. CASE v = u
    <3>1. Cardinality(byUser[v] \ {i}) = Cardinality(byUser[v]) - 1
      BY <1>1, <2>1, <2>2, OneLessID
    <3>2. Cardinality(byUser[v] \ {i}) \in Nat
      BY <2>1, IDSetsFinite
    <3>3. byUser'[v] = byUser[v] \ {i}
      BY <1>2, <2>2 DEF IndInv, TypeOK
    <3>4. active'[v] = IF active[v] <= 1 THEN 0 ELSE active[v] - 1
      BY <1>2, <2>2 DEF IndInv, TypeOK
    <3>5. active'[v] = active[v] - 1
      BY <2>1, <3>1, <3>2, <3>4
    <3> QED
      BY <1>1, <2>1, <3>1, <3>3, <3>5
  <2>3. CASE v # u
    <3>1. byUser'[v] = byUser[v] /\ active'[v] = active[v]
      BY <1>2, <2>3 DEF IndInv, TypeOK
    <3>2. Live(v)' = Live(v)
      BY <1>1, <2>3
    <3> QED
      BY <2>1, <3>1, <3>2
  <2> QED
    BY <2>2, <2>3
<1>6. WithinGrantedLimit'
  <2> SUFFICES ASSUME NEW v \in Users, NEW j \in Live(v)'
               PROVE  Cardinality({k \in Live(v)' : k <= j}) <= issued'[j].limit
    BY DEF WithinGrantedLimit
  <2> DEFINE older == {k \in Live(v) : k <= j}
             olderAfter == {k \in Live(v)' : k <= j}
  <2>1. j \in Live(v) /\ olderAfter \subseteq older /\ older \subseteq IDs
    BY <1>1 DEF Live
  <2>2. Cardinality(olderAfter) <= Cardinality(older)
    BY <2>1, IDSetsFinite, FS_Subset
  <2>3. Cardinality(olderAfter) \in Nat /\ Cardinality(older) \in Nat
    BY <2>1, IDSetsFinite
  <2>4. Cardinality(older) <= issued[j].limit
    BY <2>1 DEF IndInv, WithinGrantedLimit
  <2>5. issued[j].limit \in Int
    BY <2>1 DEF IndInv, TypeOK, HistoryAgrees, Live
  <2> HIDE DEF older, olderAfter
  <2>6. Cardinality(olderAfter) <= issued'[j].limit
    BY <1>2, <2>2, <2>3, <2>4, <2>5
  <2> QED
    BY <2>6 DEF olderAfter
<1>7. KickTargetsItsUser'
  BY <1>2 DEF IndInv, KickTargetsItsUser
<1> QED
  BY <1>3, <1>4, <1>5, <1>6, <1>7 DEF IndInv

\* The steps of KickUser only read the maps, and collect the user's ids.
LEMMA KickPreservesInv ==
  ASSUME IndInv, NEW k \in Kickers,
         \/ \E u \in Users : KickCollect(k, u)
         \/ \E call \in kicking[k].todo : KickRun(k, call)
         \/ KickReturn(k)
  PROVE  IndInv'
<1>1. UNCHANGED <<nextID, active, entries, byUser, issued>>
  BY DEF KickCollect, KickRun, KickReturn
<1>2. ASSUME NEW u \in Users, KickCollect(k, u)
      PROVE  TypeOK' /\ KickTargetsItsUser'
  <2>1. kicking' = [kicking EXCEPT ![k] = [user |-> u, todo |-> ClosersOf(u)]]
    BY <1>2 DEF KickCollect
  <2>2. ASSUME NEW call \in ClosersOf(u)
        PROVE  /\ call \in IDs \X Closers
               /\ issued[call[1]] # NoEntry /\ issued[call[1]].username = u
    <3>1. PICK i \in byUser[u] : /\ entries[i] # NoEntry
                                 /\ entries[i].closer # NilCloser
                                 /\ call = <<i, entries[i].closer>>
      BY <2>2 DEF ClosersOf
    <3>2. i \in IDs /\ entries[i] \in Entry /\ entries[i].username = u
      BY <3>1 DEF IndInv, TypeOK, MapsAgree, Live
    <3>3. issued[i] # NoEntry /\ issued[i].username = u
      BY <3>1, <3>2 DEF IndInv, HistoryAgrees
    <3> QED
      BY <3>1, <3>2, <3>3 DEF Entry
  <2>3. ClosersOf(u) \in SUBSET (IDs \X Closers)
    BY <2>2
  <2>4. TypeOK'
    BY <1>1, <2>1, <2>3 DEF IndInv, TypeOK
  <2>5. KickTargetsItsUser'
    BY <1>1, <2>1, <2>2 DEF IndInv, TypeOK, KickTargetsItsUser
  <2> QED
    BY <2>4, <2>5
<1>3. ASSUME NEW call \in kicking[k].todo, KickRun(k, call)
      PROVE  TypeOK' /\ KickTargetsItsUser'
  <2>1. kicking' = [kicking EXCEPT ![k] = [kicking[k] EXCEPT !.todo = kicking[k].todo \ {call}]]
    BY <1>3 DEF KickRun
  <2>2. kicking[k] \in [user : Users \cup {NoUser}, todo : SUBSET (IDs \X Closers)]
    BY DEF IndInv, TypeOK
  <2>3. TypeOK'
    BY <1>1, <2>1, <2>2 DEF IndInv, TypeOK
  <2>4. KickTargetsItsUser'
    BY <1>1, <2>1, <2>2 DEF IndInv, TypeOK, KickTargetsItsUser
  <2> QED
    BY <2>3, <2>4
<1>4. ASSUME KickReturn(k)
      PROVE  TypeOK' /\ KickTargetsItsUser'
  BY <1>1, <1>4 DEF KickReturn, Idle, IndInv, TypeOK, KickTargetsItsUser
<1>5. HistoryAgrees' /\ MapsAgree' /\ WithinGrantedLimit'
  BY <1>1 DEF IndInv, HistoryAgrees, MapsAgree, WithinGrantedLimit, Live
<1> QED
  BY <1>2, <1>3, <1>4, <1>5 DEF IndInv

\* IndInv is inductive: one case per action of Next.
THEOREM NextPreservesInv == IndInv /\ [Next]_vars => IndInv'
<1> SUFFICES ASSUME IndInv, [Next]_vars PROVE IndInv'
  OBVIOUS
<1>1. CASE \E u \in Users, m \in Limits, c \in Closers \cup {NilCloser} : Acquire(u, m, c)
  BY <1>1, AcquirePreservesInv
<1>2. CASE \E id \in IDs, c \in Closers : SetCloser(id, c)
  BY <1>2, SetCloserPreservesInv
<1>3. CASE \E id \in IDs : Release(id)
  BY <1>3, ReleasePreservesInv
<1>4. CASE \E k \in Kickers, u \in Users : KickCollect(k, u)
  BY <1>4, KickPreservesInv
<1>5. CASE \E k \in Kickers : \E call \in kicking[k].todo : KickRun(k, call)
  BY <1>5, KickPreservesInv
<1>6. CASE \E k \in Kickers : KickReturn(k)
  BY <1>6, KickPreservesInv
<1>7. CASE UNCHANGED vars
  BY <1>7 DEF vars, IndInv, TypeOK, HistoryAgrees, MapsAgree, WithinGrantedLimit,
              KickTargetsItsUser, Live
<1> QED
  BY <1>1, <1>2, <1>3, <1>4, <1>5, <1>6, <1>7 DEF Next

\* The strengthening holds in every reachable state.
THEOREM InvariantHolds == Spec => []IndInv
BY InitEstablishesInv, NextPreservesInv, PTL DEF Spec

\* Every variable keeps its type.
THEOREM TypeCorrect == Spec => []TypeOK
<1>1. IndInv => TypeOK
  BY DEF IndInv
<1> QED
  BY InvariantHolds, <1>1, PTL

\* active, entries and byUser agree in every reachable state.
THEOREM MapsAlwaysAgree == Spec => []MapsAgree
<1>1. IndInv => MapsAgree
  BY DEF IndInv
<1> QED
  BY InvariantHolds, <1>1, PTL

\* No live session ever exceeds the limit it was granted under.
THEOREM LimitsRespected == Spec => []WithinGrantedLimit
<1>1. IndInv => WithinGrantedLimit
  BY DEF IndInv
<1> QED
  BY InvariantHolds, <1>1, PTL

\* A kick never calls a closer of another user's session.
THEOREM KicksStayWithUser == Spec => []KickTargetsItsUser
<1>1. IndInv => KickTargetsItsUser
  BY DEF IndInv
<1> QED
  BY InvariantHolds, <1>1, PTL

\* An issued id whose entry is gone never gets an entry again.
THEOREM TokensAreFresh == Spec => TokensNeverReused
<1> DEFINE Fresh == \A i \in IDs : (i <= nextID /\ entries[i] = NoEntry) => entries'[i] = NoEntry
<1>1. ASSUME IndInv, [Next]_vars PROVE [Fresh]_vars
  <2> SUFFICES ASSUME NEW i \in IDs, i <= nextID, entries[i] = NoEntry
               PROVE  entries'[i] = NoEntry
    OBVIOUS
  <2>0. entries \in [IDs -> Entry \cup {NoEntry}] /\ nextID \in Nat
    BY <1>1 DEF IndInv, TypeOK
  <2>1. CASE \E u \in Users, m \in Limits, c \in Closers \cup {NilCloser} : Acquire(u, m, c)
    BY <2>0, <2>1 DEF Acquire
  <2>2. CASE \E id \in IDs, c \in Closers : SetCloser(id, c)
    BY <2>0, <2>2 DEF SetCloser
  <2>3. CASE \E id \in IDs : Release(id)
    BY <2>0, <2>3 DEF Release
  <2>4. CASE \E k \in Kickers, u \in Users : KickCollect(k, u)
    BY <2>4 DEF KickCollect
  <2>5. CASE \E k \in Kickers : \E call \in kicking[k].todo : KickRun(k, call)
    BY <2>5 DEF KickRun
  <2>6. CASE \E k \in Kickers : KickReturn(k)
    BY <2>6 DEF KickReturn
  <2>7. CASE UNCHANGED vars
    BY <2>7 DEF vars
  <2> QED
    BY <1>1, <2>1, <2>2, <2>3, <2>4, <2>5, <2>6, <2>7 DEF Next
<1> QED
  BY <1>1, InvariantHolds, PTL DEF Spec, TokensNeverReused

\* The refinement mapping, named: the slots a user holds, the term of a slot.
HeldSlots == [u \in Users |-> Live(u)]

SlotTerm == [i \in IDs |-> IF issued[i] = NoEntry THEN 0 ELSE issued[i].limit]

\* The Cardinality that ConnSlots uses is the one SessionManager uses.
LEMMA SameCardinality ==
  ASSUME NEW S
  PROVE  Slot!Cardinality(S) = Cardinality(S)
BY DEF Slot!Cardinality, Cardinality

\* A granted Acquire is a Grant of the new id on the effective limit.
LEMMA AcquireGrants ==
  ASSUME IndInv, NEW u \in Users, NEW m \in Limits,
         NEW c \in Closers \cup {NilCloser}, Acquire(u, m, c)
  PROVE  Slot!SlotsNext
<1> DEFINE new == nextID + 1
           grant == [username |-> u, limit |-> EffectiveMax(m)]
<1>1. /\ new \in IDs
      /\ Live(u)' = Live(u) \cup {new}
      /\ \A v \in Users \ {u} : Live(v)' = Live(v)
  BY LiveAfterAcquire
<1>2. issued' = [issued EXCEPT ![new] = grant]
  BY DEF Acquire
<1>3. grant # NoEntry /\ grant.limit = EffectiveMax(m)
  BY EffectiveMaxPositive
<1>4. issued[new] = NoEntry
  BY <1>1 DEF IndInv, TypeOK, HistoryAgrees
<1>5. SlotTerm' = [SlotTerm EXCEPT ![new] = EffectiveMax(m)]
  BY <1>1, <1>2, <1>3 DEF SlotTerm, IndInv, TypeOK
<1>6. SlotTerm[new] = 0
  BY <1>1, <1>4 DEF SlotTerm
<1>7. HeldSlots' = [HeldSlots EXCEPT ![u] = @ \cup {new}]
  BY <1>1 DEF HeldSlots
<1>8. Cardinality(HeldSlots[u]) < EffectiveMax(m)
  BY DEF HeldSlots, IndInv, MapsAgree, Acquire, HasRoom
<1>9. Slot!Grant(u, new, EffectiveMax(m))
  BY <1>5, <1>6, <1>7, <1>8, SameCardinality DEF Slot!Grant, HeldSlots, SlotTerm
<1> HIDE DEF new
<1> QED
  BY <1>1, <1>9 DEF Slot!SlotsNext

\* A Release of a live id gives its slot back.
LEMMA ReleaseGivesBack ==
  ASSUME IndInv, NEW i \in IDs, Release(i)
  PROVE  Slot!SlotsNext
<1> DEFINE u == entries[i].username
<1>1. /\ u \in Users
      /\ i \in Live(u)
      /\ \A v \in Users : Live(v)' = Live(v) \ {i}
      /\ \A v \in Users \ {u} : i \notin Live(v)
  BY LiveAfterRelease DEF Entry
<1>2. HeldSlots' = [HeldSlots EXCEPT ![u] = @ \ {i}]
  <2>1. \A v \in Users : Live(v)' = IF v = u THEN Live(v) \ {i} ELSE Live(v)
    BY <1>1
  <2> QED
    BY <1>1, <2>1 DEF HeldSlots
<1>3. SlotTerm' = SlotTerm
  BY DEF SlotTerm, Release
<1>4. Slot!GiveBack(u, i)
  BY <1>1, <1>2, <1>3 DEF Slot!GiveBack, HeldSlots, SlotTerm
<1> QED
  BY <1>1, <1>4 DEF Slot!SlotsNext

\* The manager implements ConnSlots: whatever its callers do, a slot is
\* granted only to a user that holds fewer slots than the limit it states.
THEOREM ManagerImplementsSlots == Spec => ImplementsSlots
<1>1. Init => Slot!SlotsInit
  BY DEF Init, Slot!SlotsInit, Live
<1>2. ASSUME IndInv, [Next]_vars PROVE [Slot!SlotsNext]_(Slot!slotVars)
  <2> SUFFICES Slot!SlotsNext \/ UNCHANGED <<HeldSlots, SlotTerm>>
    BY DEF Slot!slotVars, HeldSlots, SlotTerm
  <2>1. CASE \E u \in Users, m \in Limits, c \in Closers \cup {NilCloser} : Acquire(u, m, c)
    BY <1>2, <2>1, AcquireGrants
  <2>2. ASSUME NEW i \in IDs, NEW c \in Closers, SetCloser(i, c)
        PROVE  UNCHANGED <<HeldSlots, SlotTerm>>
    BY <1>2, <2>2, LiveAfterSetCloser DEF IndInv, SetCloser, HeldSlots, SlotTerm
  <2>3. CASE \E id \in IDs : Release(id)
    BY <1>2, <2>3, ReleaseGivesBack
  <2>4. ASSUME NEW k \in Kickers,
               \/ \E u \in Users : KickCollect(k, u)
               \/ \E call \in kicking[k].todo : KickRun(k, call)
               \/ KickReturn(k)
        PROVE  UNCHANGED <<HeldSlots, SlotTerm>>
    BY <2>4 DEF KickCollect, KickRun, KickReturn, HeldSlots, SlotTerm, Live
  <2>5. CASE UNCHANGED vars
    BY <2>5 DEF vars, HeldSlots, SlotTerm, Live
  <2> QED
    BY <1>2, <2>1, <2>2, <2>3, <2>4, <2>5 DEF Next
<1> QED
  BY <1>1, <1>2, InvariantHolds, PTL DEF Spec, ImplementsSlots, Slot!SlotsSpec
=============================================================================
