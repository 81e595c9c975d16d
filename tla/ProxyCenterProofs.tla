-------------------------- MODULE ProxyCenterProofs --------------------------
(***************************************************************************)
(* Proofs about ProxyCenter, for every set of users, connections and       *)
(* profiles.  What SessionManagerProofs proves of the manager, for any     *)
(* callers, is taken from there through an INSTANCE; what is new here is   *)
(* how the handlers of the connections use it.                             *)
(***************************************************************************)
EXTENDS ProxyCenter, FiniteSetTheorems, TLAPS

SMP == INSTANCE SessionManagerProofs WITH
         Limits  <- {p.maxConns : p \in Profiles},
         Closers <- {"client", "both"},
         Kickers <- {Enforcer, Admin},
         MaxID   <- Cardinality(Conns)

\* The session ids: no more than connections.
Tokens == 1..Cardinality(Conns)

HandlerType == [pc : BeforeSlot \cup WithSlot, kind : AllKinds,
                acct : Row \cup {NoAccount}, token : 0..Cardinality(Conns),
                client : {"open", "closed"}, remote : {"none", "open", "closed"},
                flow : SUBSET {"up", "down"},
                row : {"none", "open", "leaked"}]

EnforcerType == [pc : {"idle", "round", "usage", "kick", "kicking"}, now : 0..MaxTime,
                 work : SUBSET Users, acct : Row \cup {NoAccount}, user : Users \cup {NoUser}]

AdminType == [pc : {"idle", "authorize", "kick", "kicking", "delete"},
              user : Users \cup {NoUser}, acct : Row \cup {NoAccount},
              then : {"idle", "delete"}]

\* The tables, the clock and the model's bounds; the goroutines that kick know
\* whom they kick.
TablesTyped ==
  /\ accounts \in [Users -> Row \cup {NoAccount}]
  /\ lastUid \in 0..MaxUid
  /\ usage \in [1..MaxUid -> 0..MaxUsage]
  /\ now \in 0..MaxTime
  /\ dbErrors \in 0..MaxDbErrors
  /\ adminOps \in 0..MaxAdminOps

KickersTyped ==
  /\ enf \in EnforcerType
  /\ enf.pc \in {"usage", "kick", "kicking"} => enf.user \in Users
  /\ adm \in AdminType
  /\ adm.pc # "idle" => adm.user \in Users

\* What a handler has at each of its points.
Shape(r) ==
  /\ r.pc \in BeforeSlot \cup {"releasing"} => r.remote # "open" /\ r.row # "open"
  /\ r.pc \in BeforeSlot => r.token = 0
  /\ r.pc \in {"authz", "ready"} \cup WithSlot => r.acct \in Row
  /\ r.pc = "dialed" => r.kind \in Tunnels
  /\ r.pc = "announced" => r.kind = "connect"
  /\ r.pc = "registered" => r.kind = "socks5"

\* The points where both sockets are in the closer of the handler's entry.
FullyClosable(r) == r.pc = "registered" \/ (r.pc = "relay" /\ r.kind \in Tunnels)

\* A handler with a slot has an entry of its own user.
OwnsEntry(r, table) ==
  r.pc \in WithSlot =>
    /\ r.token \in Tokens
    /\ table[r.token] # NoEntry
    /\ table[r.token].username = r.acct.username
    /\ FullyClosable(r) => table[r.token].closer = "both"

HandlersOwn ==
  /\ conn \in [Conns -> HandlerType]
  /\ \A c \in Conns : Shape(conn[c]) /\ OwnsEntry(conn[c], entries)

\* No two handlers share an entry, and no entry is without a handler.
OneOwnerEach ==
  /\ \A c, d \in Conns : (Holds(c) /\ Holds(d) /\ conn[c].token = conn[d].token) => c = d
  /\ \A i \in Tokens : entries[i] # NoEntry => \E c \in Conns : Holds(c) /\ conn[c].token = i

IndInv == SMP!IndInv /\ TablesTyped /\ KickersTyped /\ HandlersOwn /\ OneOwnerEach

-----------------------------------------------------------------------------
(***************************************************************************)
(* The manager under ProxyCenter.                                          *)
(***************************************************************************)

\* The number of connections is a number.
LEMMA ConnsFinite == IsFiniteSet(Conns) /\ Cardinality(Conns) \in Nat
BY CoreAssumption, FS_CardinalityType

\* The constants that the manager is given satisfy its assumption.
LEMMA ManagerAssumption == SMP!SessionAssumption
<1>1. {p.maxConns : p \in Profiles} \subseteq Int
  BY CoreAssumption
<1>2. {"client", "both"} \cup {NilCloser} = {"client", "both", NilCloser}
  OBVIOUS
<1>3. /\ NilCloser \notin {"client", "both"} /\ NoUser \notin Users
      /\ NoEntry \notin [username : Users, closer : {"client", "both"} \cup {NilCloser}]
      /\ NoEntry \notin [username : Users, limit : Int]
  BY <1>2, CoreAssumption
<1> QED
  BY <1>1, <1>3, ConnsFinite DEF SMP!SessionAssumption

\* The two instances of the manager are one: ProxyCenter's, and the one whose
\* theorems are used here.
LEMMA SameManager ==
  /\ SM!TypeOK <=> SMP!TypeOK
  /\ SM!Init <=> SMP!Init
  /\ smVars = SMP!vars
BY DEF SM!TypeOK, SMP!TypeOK, SM!IDs, SMP!IDs, SM!Entry, SMP!Entry,
       SM!Init, SMP!Init, SM!Idle, SMP!Idle, smVars, SMP!vars

\* So are their Acquires,
LEMMA SameAcquire ==
  ASSUME NEW u, NEW m, NEW closer
  PROVE  SM!Acquire(u, m, closer) <=> SMP!Acquire(u, m, closer)
BY DEF SM!Acquire, SMP!Acquire, SM!HasRoom, SMP!HasRoom, SM!EffectiveMax, SMP!EffectiveMax

\* their SetClosers and Releases,
LEMMA SameSetCloserRelease ==
  ASSUME NEW i, NEW closer
  PROVE  /\ SM!SetCloser(i, closer) <=> SMP!SetCloser(i, closer)
         /\ SM!Release(i) <=> SMP!Release(i)
BY DEF SM!SetCloser, SMP!SetCloser, SM!Release, SMP!Release

\* and the steps of their KickUsers.
LEMMA SameKick ==
  ASSUME NEW k, NEW u, NEW call
  PROVE  /\ SM!KickCollect(k, u) <=> SMP!KickCollect(k, u)
         /\ SM!KickRun(k, call) <=> SMP!KickRun(k, call)
         /\ SM!KickReturn(k) <=> SMP!KickReturn(k)
BY DEF SM!KickCollect, SMP!KickCollect, SM!ClosersOf, SMP!ClosersOf,
       SM!KickRun, SMP!KickRun, SM!KickReturn, SMP!KickReturn, SM!Idle, SMP!Idle

\* The entries the manager keeps.
LEMMA EntriesTyped ==
  ASSUME IndInv
  PROVE  /\ entries \in [Tokens -> [username : Users, closer : {"client", "both", NilCloser}]
                                     \cup {NoEntry}]
         /\ nextID \in Nat
         /\ \A i \in Tokens : entries[i] # NoEntry => i <= nextID
<1>1. SMP!TypeOK /\ SMP!HistoryAgrees
  BY DEF IndInv, SMP!IndInv
<1>2. {"client", "both"} \cup {NilCloser} = {"client", "both", NilCloser}
  OBVIOUS
<1> QED
  BY <1>1, <1>2 DEF SMP!TypeOK, SMP!HistoryAgrees, SMP!IDs, SMP!Entry, Tokens

\* The account a handler acts on: its name, and the limit it was loaded with.
LEMMA AcctTyped ==
  ASSUME IndInv, NEW c \in Conns, conn[c].pc \in {"authz", "ready"} \cup WithSlot
  PROVE  /\ conn[c].acct \in Row
         /\ User(c) \in Users
         /\ conn[c].acct.profile.maxConns \in {p.maxConns : p \in Profiles}
         /\ conn[c].acct.id \in 1..MaxUid
<1>1. conn[c].acct \in Row
  BY DEF IndInv, HandlersOwn, Shape
<1> QED
  BY <1>1 DEF Row, User

\* What Acquire does for a handler: an id that was never used gets an entry of
\* the handler's user.
LEMMA AcquireEffect ==
  ASSUME IndInv, NEW c \in Conns, At(c, "ready"),
         SM!Acquire(User(c), conn[c].acct.profile.maxConns, FirstCloser(conn[c].kind))
  PROVE  /\ SMP!Next
         /\ nextID' = nextID + 1 /\ nextID + 1 \in Tokens
         /\ entries[nextID + 1] = NoEntry
         /\ entries' = [entries EXCEPT ![nextID + 1] =
                          [username |-> User(c), closer |-> FirstCloser(conn[c].kind)]]
         /\ [username |-> User(c), closer |-> FirstCloser(conn[c].kind)] # NoEntry
<1> DEFINE m == conn[c].acct.profile.maxConns
           closer == FirstCloser(conn[c].kind)
<1>1. User(c) \in Users /\ m \in {p.maxConns : p \in Profiles}
  BY AcctTyped DEF At
<1>2. closer \in {"client", "both"} \cup {NilCloser}
  BY DEF FirstCloser
<1>3. SMP!Acquire(User(c), m, closer)
  BY SameAcquire
<1>4. SMP!Next
  BY <1>1, <1>2, <1>3 DEF SMP!Next
<1>5. nextID' = nextID + 1 /\ nextID < Cardinality(Conns)
  BY <1>3 DEF SMP!Acquire
<1>6. nextID + 1 \in Tokens /\ entries[nextID + 1] = NoEntry
  BY <1>5, EntriesTyped, ConnsFinite DEF Tokens
<1>7. entries' = [entries EXCEPT ![nextID + 1] = [username |-> User(c), closer |-> closer]]
  BY <1>3, <1>5 DEF SMP!Acquire
<1>8. [username |-> User(c), closer |-> closer] # NoEntry
  <2>1. closer \in {"client", "both", NilCloser}
    BY <1>2
  <2> QED
    BY <1>1, <2>1, CoreAssumption
<1> QED
  BY <1>4, <1>5, <1>6, <1>7, <1>8

\* What SetCloser does for a handler: its entry gets the full closer.
LEMMA SetCloserEffect ==
  ASSUME IndInv, NEW c \in Conns, Holds(c), SM!SetCloser(conn[c].token, "both")
  PROVE  /\ SMP!Next
         /\ \A i \in Tokens : entries'[i] # NoEntry <=> entries[i] # NoEntry
         /\ \A i \in Tokens : entries[i] # NoEntry =>
               /\ entries'[i].username = entries[i].username
               /\ entries[i].closer = "both" => entries'[i].closer = "both"
         /\ entries'[conn[c].token].closer = "both"
<1> DEFINE i == conn[c].token
<1>1. i \in Tokens /\ entries[i] # NoEntry
  BY DEF IndInv, HandlersOwn, OwnsEntry, Holds
<1>2. SMP!SetCloser(i, "both")
  BY SameSetCloserRelease
<1>3. SMP!Next
  BY <1>1, <1>2 DEF SMP!Next, SMP!IDs, Tokens
<1>4. entries' = [entries EXCEPT ![i] = [entries[i] EXCEPT !.closer = "both"]]
  BY <1>2 DEF SMP!SetCloser
<1>5. entries[i] \in [username : Users, closer : {"client", "both", NilCloser}]
  BY <1>1, EntriesTyped
<1>6. [entries[i] EXCEPT !.closer = "both"] \in [username : Users, closer : {"client", "both", NilCloser}]
  BY <1>5
<1>7. [entries[i] EXCEPT !.closer = "both"] # NoEntry
  BY <1>6, CoreAssumption
<1> QED
  BY <1>1, <1>3, <1>4, <1>5, <1>7, EntriesTyped

\* What Release does for a handler: its entry is gone, the others stay.
LEMMA ReleaseEffect ==
  ASSUME IndInv, NEW c \in Conns, Holds(c), SM!Release(conn[c].token)
  PROVE  /\ SMP!Next
         /\ entries' = [entries EXCEPT ![conn[c].token] = NoEntry]
<1>1. conn[c].token \in Tokens
  BY DEF IndInv, HandlersOwn, OwnsEntry, Holds
<1>2. SMP!Release(conn[c].token)
  BY SameSetCloserRelease
<1> QED
  BY <1>1, <1>2 DEF SMP!Next, SMP!IDs, SMP!Release, Tokens

\* The steps of KickUser are the manager's, and leave the entries.
LEMMA KickEffect ==
  ASSUME NEW k \in {Enforcer, Admin},
         \/ \E u \in Users : SM!KickCollect(k, u)
         \/ \E call \in kicking[k].todo : SM!KickRun(k, call)
         \/ SM!KickReturn(k)
  PROVE  SMP!Next /\ UNCHANGED entries
<1>1. CASE \E u \in Users : SM!KickCollect(k, u)
  BY <1>1, SameKick DEF SMP!Next, SMP!KickCollect
<1>2. CASE \E call \in kicking[k].todo : SM!KickRun(k, call)
  BY <1>2, SameKick DEF SMP!Next, SMP!KickRun
<1>3. CASE SM!KickReturn(k)
  BY <1>3, SameKick DEF SMP!Next, SMP!KickReturn
<1> QED
  BY <1>1, <1>2, <1>3

-----------------------------------------------------------------------------
(***************************************************************************)
(* The handlers.                                                           *)
(***************************************************************************)

\* Where a handler stands.
LEMMA HandlerTyped ==
  ASSUME IndInv, NEW c \in Conns
  PROVE  conn[c] \in HandlerType /\ Shape(conn[c]) /\ OwnsEntry(conn[c], entries)
BY DEF IndInv, HandlersOwn

\* A handler moves and no entry does: it keeps its slot if it had one, and its
\* new point is one that it may be at.
LEMMA HandlerMoves ==
  ASSUME IndInv, NEW c \in Conns, NEW r \in HandlerType, Shape(r),
         conn' = [conn EXCEPT ![c] = r], UNCHANGED entries,
         r.pc \in WithSlot <=> Holds(c),
         Holds(c) => r.token = conn[c].token /\ r.acct = conn[c].acct,
         Holds(c) /\ FullyClosable(r) => entries[conn[c].token].closer = "both"
  PROVE  HandlersOwn' /\ OneOwnerEach'
<1>1. conn \in [Conns -> HandlerType] /\ \A d \in Conns : Shape(conn[d]) /\ OwnsEntry(conn[d], entries)
  BY DEF IndInv, HandlersOwn
<1>2. conn' \in [Conns -> HandlerType] /\ conn'[c] = r /\ \A d \in Conns \ {c} : conn'[d] = conn[d]
  BY <1>1
<1>3. OwnsEntry(r, entries)
  BY <1>1 DEF OwnsEntry, Holds
<1>4. \A d \in Conns : Shape(conn'[d]) /\ OwnsEntry(conn'[d], entries')
  BY <1>1, <1>2, <1>3
<1>5. HandlersOwn'
  BY <1>2, <1>4 DEF HandlersOwn, OwnsEntry
<1>6. \A d \in Conns : Holds(d)' <=> Holds(d)
  BY <1>2 DEF Holds
<1>7. \A d \in Conns : Holds(d) => conn'[d].token = conn[d].token
  BY <1>2
<1>8. OneOwnerEach'
  BY <1>6, <1>7 DEF IndInv, OneOwnerEach
<1> QED
  BY <1>5, <1>8

\* A handler that has no slot moves and takes none.
LEMMA MovesWithoutSlot ==
  ASSUME IndInv, NEW c \in Conns, conn[c].pc \in BeforeSlot,
         NEW r \in HandlerType, Shape(r), r.pc \in BeforeSlot,
         conn' = [conn EXCEPT ![c] = r], UNCHANGED entries
  PROVE  HandlersOwn' /\ OneOwnerEach'
<1>1. ~ Holds(c) /\ r.pc \notin WithSlot
  BY DEF Holds, WithSlot, BeforeSlot
<1> QED
  BY <1>1, HandlerMoves

\* A handler that is done has nothing left.
LEMMA DoneTyped ==
  ASSUME NEW row \in {"none", "leaked"}
  PROVE  DoneConn(row) \in HandlerType /\ Shape(DoneConn(row)) /\ DoneConn(row).pc = "done"
<1> DEFINE r == DoneConn(row)
<1>1. 0 \in 0..Cardinality(Conns)
  BY ConnsFinite
<1>2. FreshConn \in HandlerType
  BY <1>1 DEF FreshConn, HandlerType, BeforeSlot, AllKinds
<1>3. /\ r \in HandlerType
      /\ r.pc = "done" /\ r.token = FreshConn.token /\ r.remote = FreshConn.remote /\ r.row = row
  BY <1>2 DEF DoneConn, HandlerType, BeforeSlot
<1>4. Shape(r)
  BY <1>3 DEF FreshConn, Shape, BeforeSlot, WithSlot
<1> QED
  BY <1>3, <1>4

\* The handler before its slot: the handshake, the login, the refusals.
LEMMA BeforeSlotKeeps ==
  ASSUME IndInv, NEW c \in Conns,
         \/ \E k \in Kinds, u \in Users : Authenticate(c, k, u)
         \/ RejectLogin(c)
         \/ Authorize(c)
         \/ HandshakeFails(c)
         \/ RefuseSlot(c)
  PROVE  HandlersOwn' /\ OneOwnerEach'
<1>0. conn[c] \in HandlerType /\ Shape(conn[c]) /\ UNCHANGED entries
  BY HandlerTyped DEF Authenticate, RejectLogin, Authorize, HandshakeFails, RefuseSlot, smVars
<1>1. ASSUME NEW k \in Kinds, NEW u \in Users, Authenticate(c, k, u)
      PROVE  HandlersOwn' /\ OneOwnerEach'
  <2> DEFINE r == [conn[c] EXCEPT !.pc = "authz", !.kind = k, !.acct = accounts[u]]
  <2>1. accounts[u] \in Row
    BY <1>1 DEF Authenticate, Unfit, IndInv, TablesTyped
  <2>2. k \in AllKinds
    BY CoreAssumption
  <2>3. r \in HandlerType
    BY <1>0, <2>1, <2>2 DEF HandlerType, BeforeSlot
  <2>4. conn[c].pc = "new" /\ conn' = [conn EXCEPT ![c] = r]
    BY <1>1 DEF Authenticate, At
  <2>5. Shape(r) /\ r.pc \in BeforeSlot
    BY <1>0, <2>1, <2>4 DEF Shape, HandlerType, BeforeSlot, WithSlot
  <2> QED
    BY <1>0, <2>3, <2>4, <2>5, MovesWithoutSlot DEF BeforeSlot
<1>2. ASSUME conn[c].pc \in BeforeSlot, Ends(c)
      PROVE  HandlersOwn' /\ OneOwnerEach'
  BY <1>0, <1>2, DoneTyped, MovesWithoutSlot DEF Ends, BeforeSlot
<1>3. ASSUME conn[c].pc = "authz", Moves(c, "ready")
      PROVE  HandlersOwn' /\ OneOwnerEach'
  <2> DEFINE r == [conn[c] EXCEPT !.pc = "ready"]
  <2>1. r \in HandlerType /\ Shape(r) /\ r.pc \in BeforeSlot
    BY <1>0, <1>3 DEF HandlerType, Shape, BeforeSlot, WithSlot
  <2>2. conn' = [conn EXCEPT ![c] = r]
    BY <1>3 DEF Moves
  <2> QED
    BY <1>0, <1>3, <2>1, <2>2, MovesWithoutSlot DEF BeforeSlot
<1> QED
  BY <1>1, <1>2, <1>3 DEF RejectLogin, Authorize, HandshakeFails, RefuseSlot, At, BeforeSlot

\* A handler that gets a slot gets the only handler's share of the new entry.
LEMMA AcquireKeeps ==
  ASSUME IndInv, NEW c \in Conns, AcquireSlot(c)
  PROVE  HandlersOwn' /\ OneOwnerEach'
<1>1. PICK row \in {"open", "none"} :
        conn' = [conn EXCEPT ![c] =
                   [conn[c] EXCEPT !.pc = "dialing", !.token = nextID', !.row = row]]
  BY DEF AcquireSlot
<1> DEFINE new == nextID + 1
           r == [conn[c] EXCEPT !.pc = "dialing", !.token = new, !.row = row]
           entry == [username |-> User(c), closer |-> FirstCloser(conn[c].kind)]
<1>2. At(c, "ready") /\ conn[c].pc = "ready"
  BY DEF AcquireSlot, At
<1>3. /\ nextID' = new /\ new \in Tokens /\ entries[new] = NoEntry
      /\ entries' = [entries EXCEPT ![new] = entry] /\ entry # NoEntry
  BY <1>2, AcquireEffect DEF AcquireSlot
<1>4. /\ conn[c] \in HandlerType /\ Shape(conn[c])
      /\ conn \in [Conns -> HandlerType]
      /\ entries \in [Tokens -> [username : Users, closer : {"client", "both", NilCloser}]
                                  \cup {NoEntry}]
  BY HandlerTyped, EntriesTyped DEF IndInv, HandlersOwn
<1>5. r \in HandlerType /\ Shape(r)
  <2>1. new \in 0..Cardinality(Conns)
    BY <1>3, ConnsFinite DEF Tokens
  <2> HIDE DEF new
  <2>2. r \in HandlerType
    BY <1>4, <2>1 DEF HandlerType, WithSlot
  <2>3. Shape(r)
    BY <1>2, <1>4 DEF HandlerType, Shape, BeforeSlot, WithSlot
  <2> QED
    BY <2>2, <2>3
<1>6. conn' = [conn EXCEPT ![c] = r]
  BY <1>1, <1>3
<1>7. /\ conn' \in [Conns -> HandlerType] /\ conn'[c] = r
      /\ \A d \in Conns \ {c} : conn'[d] = conn[d]
  BY <1>4, <1>5, <1>6
<1>8. /\ r.pc = "dialing" /\ r.token = new /\ r.acct = conn[c].acct /\ ~ FullyClosable(r)
      /\ entries'[new] = entry /\ \A i \in Tokens \ {new} : entries'[i] = entries[i]
  BY <1>3, <1>4 DEF HandlerType, FullyClosable
<1>9. \A d \in Conns : Holds(d) => conn[d].token \in Tokens \ {new} /\ d # c
  BY <1>2, <1>3, HandlerTyped DEF OwnsEntry, Holds, WithSlot
<1> HIDE DEF r
<1>10. OwnsEntry(conn'[c], entries')
  BY <1>3, <1>7, <1>8 DEF OwnsEntry, User
<1>11. \A d \in Conns \ {c} : OwnsEntry(conn'[d], entries')
  <2> SUFFICES ASSUME NEW d \in Conns \ {c}, conn[d].pc \in WithSlot
               PROVE  OwnsEntry(conn[d], entries')
    BY <1>7 DEF OwnsEntry
  <2>1. OwnsEntry(conn[d], entries) /\ conn[d].token \in Tokens \ {new} /\ conn'[d] = conn[d]
    BY <1>7, <1>9, HandlerTyped DEF Holds
  <2>2. entries'[conn[d].token] = entries[conn[d].token]
    BY <1>8, <2>1
  <2> QED
    BY <2>1, <2>2 DEF OwnsEntry
<1>12. \A d \in Conns : Shape(conn'[d])
  BY <1>5, <1>7, HandlerTyped
<1>13. HandlersOwn'
  BY <1>7, <1>10, <1>11, <1>12 DEF HandlersOwn, OwnsEntry
<1>14. \A d \in Conns : Holds(d)' <=> (Holds(d) \/ d = c)
  BY <1>7, <1>8 DEF Holds, WithSlot
<1>15. \A d \in Conns : Holds(d) => conn'[d] = conn[d] /\ conn[d].token # new
  BY <1>7, <1>9
<1>16. conn'[c].token = new
  BY <1>7, <1>8
<1>17. \A d, e \in Conns : (Holds(d)' /\ Holds(e)' /\ conn'[d].token = conn'[e].token) => d = e
  BY <1>14, <1>15, <1>16 DEF IndInv, OneOwnerEach
<1>18. \A i \in Tokens : entries'[i] # NoEntry => \E d \in Conns : Holds(d)' /\ conn'[d].token = i
  BY <1>8, <1>14, <1>15, <1>16 DEF IndInv, OneOwnerEach
<1>19. OneOwnerEach'
  BY <1>17, <1>18 DEF OneOwnerEach
<1> QED
  BY <1>13, <1>19

\* The handler between its slot's entry and its Release, where no entry changes:
\* the dial, the replies, the relay and its end.
LEMMA WithSlotKeeps ==
  ASSUME IndInv, NEW c \in Conns,
         \/ Dial(c)
         \/ WriteReply(c)
         \/ \E d \in {"up", "down"} : EndHalf(c, d)
         \/ BodyDone(c)
         \/ Finish(c)
  PROVE  HandlersOwn' /\ OneOwnerEach'
<1>0. /\ conn[c] \in HandlerType /\ Shape(conn[c]) /\ OwnsEntry(conn[c], entries)
      /\ UNCHANGED entries
  BY HandlerTyped DEF Dial, WriteReply, EndHalf, BodyDone, Finish, smVars
<1>1. ASSUME conn[c].pc \in {"dialing", "registered", "dialed", "relay"}, Moves(c, "closing")
      PROVE  HandlersOwn' /\ OneOwnerEach'
  <2> DEFINE r == [conn[c] EXCEPT !.pc = "closing"]
  <2>1. /\ r \in HandlerType /\ r.pc = "closing"
        /\ r.token = conn[c].token /\ r.acct = conn[c].acct
    BY <1>0 DEF HandlerType, WithSlot
  <2>2. Shape(r) /\ ~ FullyClosable(r) /\ r.pc \in WithSlot /\ Holds(c)
    BY <1>0, <1>1, <2>1 DEF Shape, FullyClosable, BeforeSlot, WithSlot, Holds
  <2>3. conn' = [conn EXCEPT ![c] = r]
    BY <1>1 DEF Moves
  <2> HIDE DEF r
  <2> QED
    BY <1>0, <2>1, <2>2, <2>3, HandlerMoves
<1>2. ASSUME conn[c].pc = "dialing",
             conn' = [conn EXCEPT ![c].remote = "open",
                                  ![c].pc = IF conn[c].kind = "plain" THEN "relay" ELSE "dialed"]
      PROVE  HandlersOwn' /\ OneOwnerEach'
  <2> DEFINE r == [conn[c] EXCEPT !.remote = "open",
                                  !.pc = IF conn[c].kind = "plain" THEN "relay" ELSE "dialed"]
  <2>1. /\ r \in HandlerType /\ r.pc = IF conn[c].kind = "plain" THEN "relay" ELSE "dialed"
        /\ r.token = conn[c].token /\ r.acct = conn[c].acct /\ r.kind = conn[c].kind
    BY <1>0 DEF HandlerType, WithSlot
  <2> HIDE DEF r
  <2>2. \/ r.pc = "relay" /\ r.kind = "plain"
        \/ r.pc = "dialed" /\ r.kind \in Tunnels
    BY <1>0, <2>1 DEF HandlerType, AllKinds, Tunnels
  <2>3. Shape(r) /\ ~ FullyClosable(r) /\ r.pc \in WithSlot /\ Holds(c)
    BY <1>0, <1>2, <2>1, <2>2 DEF Shape, FullyClosable, BeforeSlot, WithSlot, Holds, Tunnels
  <2>4. conn' = [conn EXCEPT ![c] = r]
    BY <1>2 DEF r
  <2> QED
    BY <1>0, <2>1, <2>3, <2>4, HandlerMoves
<1>3. ASSUME conn[c].kind = "socks5", conn[c].pc = "registered", StartRelay(c)
      PROVE  HandlersOwn' /\ OneOwnerEach'
  <2> DEFINE r == [conn[c] EXCEPT !.pc = "relay", !.flow = {"up", "down"}]
  <2>1. /\ r \in HandlerType /\ r.pc = "relay"
        /\ r.token = conn[c].token /\ r.acct = conn[c].acct
    BY <1>0 DEF HandlerType, WithSlot
  <2>2. Shape(r) /\ FullyClosable(conn[c]) /\ r.pc \in WithSlot /\ Holds(c)
    BY <1>0, <1>3, <2>1 DEF Shape, FullyClosable, BeforeSlot, WithSlot, Holds
  <2>3. conn' = [conn EXCEPT ![c] = r]
    BY <1>3 DEF StartRelay
  <2>4. entries[conn[c].token].closer = "both"
    BY <1>0, <2>2 DEF OwnsEntry, Holds
  <2> HIDE DEF r
  <2> QED
    BY <1>0, <2>1, <2>2, <2>3, <2>4, HandlerMoves
<1>4. ASSUME conn[c].kind = "connect", conn[c].pc = "dialed", Moves(c, "announced")
      PROVE  HandlersOwn' /\ OneOwnerEach'
  <2> DEFINE r == [conn[c] EXCEPT !.pc = "announced"]
  <2>1. /\ r \in HandlerType /\ r.pc = "announced" /\ r.kind = "connect"
        /\ r.token = conn[c].token /\ r.acct = conn[c].acct
    BY <1>0, <1>4 DEF HandlerType, WithSlot
  <2>2. Shape(r) /\ ~ FullyClosable(r) /\ r.pc \in WithSlot /\ Holds(c)
    BY <1>0, <1>4, <2>1 DEF Shape, FullyClosable, BeforeSlot, WithSlot, Holds
  <2>3. conn' = [conn EXCEPT ![c] = r]
    BY <1>4 DEF Moves
  <2> HIDE DEF r
  <2> QED
    BY <1>0, <2>1, <2>2, <2>3, HandlerMoves
<1>5. ASSUME NEW d \in {"up", "down"}, EndHalf(c, d)
      PROVE  HandlersOwn' /\ OneOwnerEach'
  <2> DEFINE r == [conn[c] EXCEPT !.flow = conn[c].flow \ {d}]
  <2>1. /\ r \in HandlerType /\ r.pc = conn[c].pc /\ conn[c].pc = "relay" /\ r.kind = conn[c].kind
        /\ r.token = conn[c].token /\ r.acct = conn[c].acct
    BY <1>0, <1>5 DEF HandlerType, EndHalf, At
  <2>2. Shape(r) /\ r.pc \in WithSlot /\ Holds(c)
    BY <1>0, <2>1 DEF Shape, BeforeSlot, WithSlot, Holds
  <2>3. conn' = [conn EXCEPT ![c] = r]
    BY <1>5 DEF EndHalf
  <2>4. FullyClosable(r) => entries[conn[c].token].closer = "both"
    BY <1>0, <2>1, <2>2 DEF OwnsEntry, FullyClosable
  <2> HIDE DEF r
  <2> QED
    BY <1>0, <2>1, <2>2, <2>3, <2>4, HandlerMoves
<1>6. ASSUME Finish(c)
      PROVE  HandlersOwn' /\ OneOwnerEach'
  <2>1. PICK row \in {"none", "leaked"} :
          conn' = [conn EXCEPT
             ![c].pc = "releasing",
             ![c].row = IF @ = "open" THEN row ELSE @,
             ![c].remote = IF @ = "open" THEN "closed" ELSE @,
             ![c].client = IF conn[c].kind = "socks5" THEN @ ELSE "closed"]
    BY <1>6 DEF Finish
  <2> DEFINE r == [conn[c] EXCEPT
                     !.pc = "releasing",
                     !.row = IF @ = "open" THEN row ELSE @,
                     !.remote = IF @ = "open" THEN "closed" ELSE @,
                     !.client = IF conn[c].kind = "socks5" THEN @ ELSE "closed"]
  <2>2. /\ r \in HandlerType /\ r.pc = "releasing"
        /\ r.token = conn[c].token /\ r.acct = conn[c].acct
        /\ r.row # "open" /\ r.remote # "open"
    BY <1>0 DEF HandlerType, WithSlot
  <2>3. Holds(c)
    BY <1>6 DEF Finish, At, Holds, WithSlot
  <2>4. Shape(r) /\ ~ FullyClosable(r) /\ r.pc \in WithSlot
    BY <1>0, <2>2, <2>3 DEF Shape, FullyClosable, BeforeSlot, WithSlot, Holds
  <2>5. conn' = [conn EXCEPT ![c] = r]
    BY <1>0, <2>1 DEF IndInv, HandlersOwn
  <2> HIDE DEF r
  <2> QED
    BY <1>0, <2>2, <2>3, <2>4, <2>5, HandlerMoves
<1> QED
  BY <1>1, <1>2, <1>3, <1>4, <1>5, <1>6 DEF Dial, WriteReply, BodyDone, At

\* A handler that registers its full closer is at a point that needs it, and no
\* other handler's entry loses its closer.
LEMMA RegisterKeeps ==
  ASSUME IndInv, NEW c \in Conns, RegisterCloser(c)
  PROVE  HandlersOwn' /\ OneOwnerEach'
<1> DEFINE r == IF conn[c].kind = "socks5"
                  THEN [conn[c] EXCEPT !.pc = "registered"]
                  ELSE [conn[c] EXCEPT !.pc = "relay", !.flow = {"up", "down"}]
<1>0. conn[c] \in HandlerType /\ Shape(conn[c]) /\ OwnsEntry(conn[c], entries)
  BY HandlerTyped
<1>1. conn' = [conn EXCEPT ![c] = r]
  BY DEF RegisterCloser, Moves, StartRelay
<1>2. /\ conn[c].pc \in {"dialed", "announced"} /\ Holds(c)
      /\ conn[c].kind = "socks5" \/ conn[c].kind = "connect"
  BY DEF RegisterCloser, At, Holds, WithSlot
<1>3. /\ r \in HandlerType /\ r.token = conn[c].token /\ r.acct = conn[c].acct
      /\ \/ r.pc = "registered" /\ r.kind = "socks5"
         \/ r.pc = "relay" /\ r.kind = "connect"
  <2>1. CASE conn[c].kind = "socks5"
    BY <1>0, <2>1 DEF HandlerType, WithSlot
  <2>2. CASE conn[c].kind = "connect"
    BY <1>0, <2>2 DEF HandlerType, WithSlot
  <2> QED
    BY <1>2, <2>1, <2>2
<1> HIDE DEF r
<1>4. Shape(r) /\ r.pc \in WithSlot
  BY <1>0, <1>2, <1>3 DEF Shape, BeforeSlot, WithSlot
<1>5. /\ \A i \in Tokens : entries'[i] # NoEntry <=> entries[i] # NoEntry
      /\ \A i \in Tokens : entries[i] # NoEntry =>
            /\ entries'[i].username = entries[i].username
            /\ entries[i].closer = "both" => entries'[i].closer = "both"
      /\ entries'[conn[c].token].closer = "both"
  BY <1>2, SetCloserEffect DEF RegisterCloser
<1>6. /\ conn' \in [Conns -> HandlerType] /\ conn'[c] = r
      /\ \A d \in Conns \ {c} : conn'[d] = conn[d]
  BY <1>1, <1>3 DEF IndInv, HandlersOwn
<1>7. OwnsEntry(r, entries')
  BY <1>0, <1>2, <1>3, <1>5 DEF OwnsEntry, Holds
<1>8. \A d \in Conns : OwnsEntry(conn[d], entries')
  BY <1>5, HandlerTyped DEF OwnsEntry
<1>9. \A d \in Conns : Shape(conn'[d]) /\ OwnsEntry(conn'[d], entries')
  BY <1>4, <1>6, <1>7, <1>8, HandlerTyped
<1>10. HandlersOwn'
  BY <1>6, <1>9 DEF HandlersOwn
<1>11. \A d \in Conns : (Holds(d)' <=> Holds(d)) /\ conn'[d].token = conn[d].token
  BY <1>2, <1>3, <1>4, <1>6 DEF Holds
<1>12. OneOwnerEach'
  BY <1>5, <1>11 DEF IndInv, OneOwnerEach
<1> QED
  BY <1>10, <1>12

\* A handler that releases its slot takes no other handler's entry with it.
LEMMA ReleaseKeeps ==
  ASSUME IndInv, NEW c \in Conns, ReleaseSlot(c)
  PROVE  HandlersOwn' /\ OneOwnerEach'
<1> DEFINE r == DoneConn(conn[c].row)
           gone == conn[c].token
<1>0. conn[c] \in HandlerType /\ Shape(conn[c]) /\ OwnsEntry(conn[c], entries)
  BY HandlerTyped
<1>1. conn' = [conn EXCEPT ![c] = r] /\ conn[c].pc = "releasing" /\ Holds(c)
  BY DEF ReleaseSlot, At, Holds, WithSlot
<1>2. conn[c].row \in {"none", "leaked"}
  BY <1>0, <1>1 DEF HandlerType, Shape
<1>3. r \in HandlerType /\ Shape(r) /\ r.pc = "done"
  BY <1>2, DoneTyped
<1> HIDE DEF r
<1>4. r.pc \notin WithSlot
  BY <1>3 DEF WithSlot
<1>5. gone \in Tokens /\ entries' = [entries EXCEPT ![gone] = NoEntry]
  BY <1>0, <1>1, ReleaseEffect DEF ReleaseSlot, OwnsEntry, Holds
<1>6. entries'[gone] = NoEntry /\ \A i \in Tokens \ {gone} : entries'[i] = entries[i]
  BY <1>5, EntriesTyped
<1>7. /\ conn' \in [Conns -> HandlerType] /\ conn'[c] = r
      /\ \A d \in Conns \ {c} : conn'[d] = conn[d]
  BY <1>1, <1>3 DEF IndInv, HandlersOwn
<1>8. \A d \in Conns \ {c} : Holds(d) => conn[d].token \in Tokens \ {gone}
  BY <1>1, HandlerTyped DEF IndInv, OneOwnerEach, OwnsEntry, Holds
<1>9. \A d \in Conns \ {c} : OwnsEntry(conn[d], entries')
  BY <1>6, <1>8, HandlerTyped DEF OwnsEntry, Holds
<1>10. OwnsEntry(r, entries')
  BY <1>4 DEF OwnsEntry
<1>11. HandlersOwn'
  BY <1>3, <1>7, <1>9, <1>10, HandlerTyped DEF HandlersOwn
<1>12. \A d \in Conns : Holds(d)' <=> (Holds(d) /\ d # c)
  BY <1>4, <1>7 DEF Holds
<1>13. OneOwnerEach'
  BY <1>6, <1>7, <1>12 DEF IndInv, OneOwnerEach
<1> QED
  BY <1>11, <1>13

\* A closer that is called changes sockets, and closes them only: no handler's
\* point, slot or account.
LEMMA RunCloserKeeps ==
  ASSUME IndInv, NEW k \in {Enforcer, Admin}, RunCloser(k)
  PROVE  HandlersOwn' /\ OneOwnerEach'
<1>1. PICK call \in kicking[k].todo :
        /\ SM!KickRun(k, call)
        /\ conn' = [c \in Conns |->
                      IF c \notin OwnerOf(call[1]) THEN conn[c]
                      ELSE [conn[c] EXCEPT
                              !.client = "closed",
                              !.remote = IF call[2] = "both" THEN "closed" ELSE @]]
  BY DEF RunCloser
<1>2. UNCHANGED entries
  BY <1>1, KickEffect
<1>3. ASSUME NEW c \in Conns
      PROVE  /\ conn'[c] \in HandlerType
             /\ conn'[c].pc = conn[c].pc /\ conn'[c].kind = conn[c].kind
             /\ conn'[c].acct = conn[c].acct /\ conn'[c].token = conn[c].token
             /\ conn'[c].row = conn[c].row
             /\ conn'[c].remote = "open" => conn[c].remote = "open"
  <2>1. conn[c] \in HandlerType
    BY HandlerTyped
  <2>2. conn'[c] = IF c \notin OwnerOf(call[1]) THEN conn[c]
                   ELSE [conn[c] EXCEPT
                           !.client = "closed",
                           !.remote = IF call[2] = "both" THEN "closed" ELSE conn[c].remote]
    BY <1>1
  <2> QED
    BY <2>1, <2>2 DEF HandlerType
<1>4. conn' \in [Conns -> HandlerType]
  <2>1. conn' = [c \in Conns |-> conn'[c]]
    BY <1>1
  <2> QED
    BY <1>3, <2>1
<1>5. \A c \in Conns : Shape(conn'[c])
  BY <1>3, HandlerTyped DEF Shape
<1>6. \A c \in Conns : OwnsEntry(conn'[c], entries')
  BY <1>2, <1>3, HandlerTyped DEF OwnsEntry, FullyClosable
<1>7. HandlersOwn'
  BY <1>4, <1>5, <1>6 DEF HandlersOwn
<1>8. \A c \in Conns : (Holds(c)' <=> Holds(c)) /\ conn'[c].token = conn[c].token
  BY <1>3 DEF Holds
<1>9. OneOwnerEach'
  BY <1>2, <1>8 DEF IndInv, OneOwnerEach
<1> QED
  BY <1>7, <1>9

\* Where neither a handler nor an entry changes.
LEMMA NobodyMoves ==
  ASSUME IndInv, UNCHANGED <<conn, entries>>
  PROVE  HandlersOwn' /\ OneOwnerEach'
BY DEF IndInv, HandlersOwn, OneOwnerEach, OwnsEntry, Holds

-----------------------------------------------------------------------------
(***************************************************************************)
(* The tables and the goroutines that kick.                                *)
(***************************************************************************)

\* The bounds are numbers.
LEMMA Bounds ==
  /\ MaxTime \in Nat /\ MaxUsage \in Nat /\ MaxUid \in Nat
  /\ MaxDbErrors \in Nat /\ MaxAdminOps \in Nat
  /\ Cardinality(Users) \in Nat /\ Cardinality(Users) <= MaxUid
BY CoreAssumption, FS_CardinalityType

\* An AddUsage keeps the counters within the bound.
LEMMA MeterTyped ==
  ASSUME TablesTyped, NEW id \in 1..MaxUid, Meter(id, 1)
  PROVE  usage' \in [1..MaxUid -> 0..MaxUsage]
<1>1. usage \in [1..MaxUid -> 0..MaxUsage] /\ usage[id] \in 0..MaxUsage
  BY DEF TablesTyped
<1>2. usage[id] + 1 \in 0..MaxUsage
  BY <1>1, Bounds DEF Meter
<1> QED
  BY <1>1, <1>2 DEF Meter

\* A database call that succeeds, or fails, keeps within the bound of errors.
LEMMA ErrorsTyped ==
  ASSUME TablesTyped, DbOK \/ DbError
  PROVE  dbErrors' \in 0..MaxDbErrors
BY Bounds DEF TablesTyped, DbOK, DbError

\* What a handler does to the rest: it meters, and it may meet an error.
LEMMA HandlerLeavesTables ==
  ASSUME IndInv, NEW c \in Conns, HandlerRuns(c) \/ PeerActs(c)
  PROVE  TablesTyped' /\ KickersTyped'
<1>1. /\ UNCHANGED <<accounts, lastUid, enf, adm, now, adminOps>>
      /\ DbOK \/ DbError
      /\ \/ UNCHANGED usage
         \/ conn[c].pc = "relay" /\ Meter(conn[c].acct.id, 1)
  BY DEF HandlerRuns, PeerActs, Authenticate, RejectLogin, Authorize, HandshakeFails,
         AcquireSlot, RefuseSlot, Dial, RegisterCloser, WriteReply, Chunk, EndHalf, BodyDone,
         Finish, ReleaseSlot, dbVars, At
<1>2. TablesTyped /\ KickersTyped
  BY DEF IndInv
<1>3. usage' \in [1..MaxUid -> 0..MaxUsage]
  <2>1. CASE UNCHANGED usage
    BY <1>2, <2>1 DEF TablesTyped
  <2>2. CASE conn[c].pc = "relay" /\ Meter(conn[c].acct.id, 1)
    BY <1>2, <2>2, AcctTyped, MeterTyped DEF WithSlot
  <2> QED
    BY <1>1, <2>1, <2>2
<1> QED
  BY <1>1, <1>2, <1>3, ErrorsTyped DEF TablesTyped, KickersTyped

\* The enforcer: whom it is about to kick is a user, and the tables stay.
LEMMA EnforcerTyped ==
  ASSUME IndInv, EnforcerRuns
  PROVE  TablesTyped' /\ KickersTyped'
<1>1. /\ UNCHANGED <<accounts, lastUid, usage, adm, now, adminOps>>
      /\ DbOK \/ DbError
  BY DEF EnforcerRuns, EnfTick, EnfLoad, EnfUsage, EnfKick, RunCloser, EnfKicked, EnfRoundEnd,
         dbVars
<1>2. TablesTyped /\ KickersTyped
  BY DEF IndInv
<1>3. enf \in EnforcerType /\ EnfIdle \in EnforcerType /\ now \in 0..MaxTime
  BY <1>2, Bounds DEF KickersTyped, TablesTyped, EnforcerType, EnfIdle
<1>4. enf' \in EnforcerType /\ (enf'.pc \in {"usage", "kick", "kicking"} => enf'.user \in Users)
  <2>1. CASE EnfTick
    <3>1. SM!ActiveUsernames \subseteq Users
      BY DEF SM!ActiveUsernames
    <3> QED
      BY <1>3, <2>1, <3>1 DEF EnfTick, EnforcerType
  <2>2. ASSUME NEW u \in Users, EnfLoad(u)
        PROVE  enf' \in EnforcerType
               /\ (enf'.pc \in {"usage", "kick", "kicking"} => enf'.user \in Users)
    <3> DEFINE next == [enf EXCEPT !.work = enf.work \ {u}]
    <3>1. next \in EnforcerType /\ next.pc = "round"
      BY <1>3, <2>2 DEF EnforcerType, EnfLoad
    <3>2. \/ enf' = [next EXCEPT !.pc = "kick", !.user = u]
          \/ ~ Unfit(accounts[u], enf.now)
             /\ enf' = [next EXCEPT !.pc = "usage", !.user = u, !.acct = accounts[u]]
          \/ enf' = next
      BY <2>2 DEF EnfLoad
    <3>3. ~ Unfit(accounts[u], enf.now) => accounts[u] \in Row
      BY <1>2 DEF Unfit, TablesTyped
    <3> HIDE DEF next
    <3> QED
      BY <3>1, <3>2, <3>3 DEF EnforcerType
  <2>3. CASE EnfUsage
    BY <1>2, <1>3, <2>3 DEF EnfUsage, EnfRowDone, EnforcerType, KickersTyped
  <2>4. CASE EnfKick
    BY <1>2, <1>3, <2>4 DEF EnfKick, EnforcerType, KickersTyped
  <2>5. CASE RunCloser(Enforcer)
    BY <1>2, <1>3, <2>5 DEF RunCloser, KickersTyped
  <2>6. CASE EnfKicked
    BY <1>3, <2>6 DEF EnfKicked, EnfRowDone, EnforcerType
  <2>7. CASE EnfRoundEnd
    BY <1>3, <2>7 DEF EnfRoundEnd, EnfIdle
  <2> QED
    BY <2>1, <2>2, <2>3, <2>4, <2>5, <2>6, <2>7 DEF EnforcerRuns
<1> QED
  BY <1>1, <1>2, <1>4, ErrorsTyped DEF TablesTyped, KickersTyped

\* An admin's request: the row it writes is a row, and the user it is about to
\* kick is a user.
LEMMA RequestTyped ==
  ASSUME IndInv, AdminAsks
  PROVE  TablesTyped' /\ KickersTyped'
<1>1. TablesTyped /\ KickersTyped
  BY DEF IndInv
<1>2. /\ accounts \in [Users -> Row \cup {NoAccount}] /\ lastUid \in 0..MaxUid
      /\ usage \in [1..MaxUid -> 0..MaxUsage] /\ 0 \in 0..MaxUsage
      /\ adm \in AdminType
  BY <1>1, Bounds DEF TablesTyped, KickersTyped
<1>3. PICK u \in Users :
        \/ \E p \in Profiles : AdmCreate(u, p) \/ AdmUpdate(u, p)
        \/ AdmKickUser(u)
        \/ AdmDelete(u)
        \/ AdmResetUsage(u)
  BY DEF AdminAsks
<1>4. UNCHANGED <<enf, now>> /\ DbOK /\ adminOps' \in 0..MaxAdminOps /\ adm.pc = "idle"
  <2>1. AdmBegins(u)
    BY <1>3 DEF AdmCreate, AdmUpdate, AdmKickUser, AdmDelete, AdmResetUsage
  <2> QED
    BY <1>1, <2>1, Bounds DEF AdmBegins, TablesTyped
<1>5. AdmIdle \in AdminType /\ AdmIdle.pc = "idle" /\ AdmIdle.then = "idle"
  BY DEF AdmIdle, AdminType
<1> DEFINE Typed == /\ accounts' \in [Users -> Row \cup {NoAccount}]
                    /\ lastUid' \in 0..MaxUid
                    /\ usage' \in [1..MaxUid -> 0..MaxUsage]
                    /\ adm' \in AdminType /\ (adm'.pc # "idle" => adm'.user \in Users)
<1>6. Typed
  <2>1. ASSUME NEW p \in Profiles, AdmCreate(u, p)
        PROVE  Typed
    <3>1. lastUid + 1 \in 1..MaxUid /\ lastUid' = lastUid + 1
      BY <1>2, <2>1, Bounds DEF AdmCreate
    <3>2. [id |-> lastUid', username |-> u, profile |-> p] \in Row
      BY <3>1 DEF Row
    <3>3. accounts' \in [Users -> Row \cup {NoAccount}]
      BY <1>2, <2>1, <3>2 DEF AdmCreate
    <3>4. UNCHANGED <<usage, adm>>
      BY <2>1 DEF AdmCreate
    <3>5. lastUid' \in 0..MaxUid
      BY <3>1, Bounds
    <3> QED
      BY <1>2, <1>4, <3>3, <3>4, <3>5
  <2>2. ASSUME NEW p \in Profiles, AdmUpdate(u, p)
        PROVE  Typed
    <3> DEFINE row == [accounts[u] EXCEPT !.profile = p]
    <3>1. row \in Row
      BY <1>2, <2>2 DEF AdmUpdate, Row
    <3>2. /\ accounts' = [accounts EXCEPT ![u] = row]
          /\ \/ adm' = [AdmIdle EXCEPT !.pc = "kick", !.user = u]
             \/ adm' = [AdmIdle EXCEPT !.pc = "authorize", !.user = u, !.acct = row]
          /\ UNCHANGED <<lastUid, usage>>
      BY <2>2 DEF AdmUpdate
    <3> HIDE DEF row
    <3>3. accounts' \in [Users -> Row \cup {NoAccount}]
      BY <1>2, <3>1, <3>2
    <3>4. adm' \in AdminType /\ adm'.user \in Users
      BY <1>5, <3>1, <3>2 DEF AdminType
    <3> QED
      BY <1>2, <3>2, <3>3, <3>4
  <2>3. CASE AdmKickUser(u)
    BY <1>2, <1>5, <2>3 DEF AdmKickUser, dbVars, AdminType
  <2>4. CASE AdmDelete(u)
    BY <1>2, <1>5, <2>4 DEF AdmDelete, dbVars, AdminType
  <2>5. CASE AdmResetUsage(u)
    BY <1>2, <1>4, <2>5 DEF AdmResetUsage
  <2> QED
    BY <1>3, <2>1, <2>2, <2>3, <2>4, <2>5
<1> QED
  BY <1>1, <1>4, <1>6, ErrorsTyped DEF TablesTyped, KickersTyped

\* The rest of an admin's request: the deleted row is gone, and its counter.
LEMMA AdminTyped ==
  ASSUME IndInv, AdminRuns
  PROVE  TablesTyped' /\ KickersTyped'
<1>1. TablesTyped /\ KickersTyped
  BY DEF IndInv
<1>2. UNCHANGED <<lastUid, enf, now, adminOps>> /\ (DbOK \/ DbError)
  BY DEF AdminRuns, AdmAuthorize, AdmKick, RunCloser, AdmKicked, AdmDeleteRow, dbVars
<1>3. adm \in AdminType /\ AdmIdle \in AdminType /\ AdmIdle.pc = "idle"
      /\ (adm.pc # "idle" => adm.user \in Users)
  BY <1>1 DEF KickersTyped, AdmIdle, AdminType
<1>4. adm' \in AdminType /\ (adm'.pc # "idle" => adm'.user \in Users)
  BY <1>3 DEF AdminRuns, AdmAuthorize, AdmKick, RunCloser, AdmKicked, AdmDeleteRow, AdminType
<1>5. accounts' \in [Users -> Row \cup {NoAccount}] /\ usage' \in [1..MaxUid -> 0..MaxUsage]
  <2>1. CASE AdmDeleteRow
    <3>1. 0 \in 0..MaxUsage
      BY Bounds
    <3> QED
      BY <1>1, <2>1, <3>1 DEF AdmDeleteRow, TablesTyped
  <2>2. CASE UNCHANGED <<accounts, usage>>
    BY <1>1, <2>2 DEF TablesTyped
  <2> QED
    BY <2>1, <2>2 DEF AdminRuns, AdmAuthorize, AdmKick, RunCloser, AdmKicked, dbVars
<1> QED
  BY <1>1, <1>2, <1>3, <1>4, <1>5, ErrorsTyped DEF TablesTyped, KickersTyped

-----------------------------------------------------------------------------
(***************************************************************************)
(* The invariant.                                                          *)
(***************************************************************************)

\* Every step of the program is one step of the manager or none.
LEMMA StepOfManager ==
  ASSUME IndInv, [Next]_vars
  PROVE  [SMP!Next]_(SMP!vars)
<1> SUFFICES SMP!Next \/ UNCHANGED smVars
  BY SameManager DEF smVars, SMP!vars
<1>1. ASSUME NEW c \in Conns, HandlerRuns(c) \/ PeerActs(c)
      PROVE  SMP!Next \/ UNCHANGED smVars
  <2>1. CASE AcquireSlot(c)
    BY <2>1, AcquireEffect DEF AcquireSlot
  <2>2. CASE RegisterCloser(c)
    <3>1. Holds(c)
      BY <2>2 DEF RegisterCloser, At, Holds, WithSlot
    <3> QED
      BY <2>2, <3>1, SetCloserEffect DEF RegisterCloser
  <2>3. CASE ReleaseSlot(c)
    <3>1. Holds(c)
      BY <2>3 DEF ReleaseSlot, At, Holds, WithSlot
    <3> QED
      BY <2>3, <3>1, ReleaseEffect DEF ReleaseSlot
  <2> QED
    BY <1>1, <2>1, <2>2, <2>3 DEF HandlerRuns, PeerActs, Authenticate, RejectLogin, Authorize,
       HandshakeFails, RefuseSlot, Dial, WriteReply, Chunk, EndHalf, BodyDone, Finish
<1>2. ASSUME NEW k \in {Enforcer, Admin}, RunCloser(k)
      PROVE  SMP!Next
  BY <1>2, KickEffect DEF RunCloser
<1>3. CASE EnforcerRuns
  <2>1. CASE EnfKick
    <3>1. enf.user \in Users
      BY <2>1 DEF IndInv, KickersTyped, EnfKick
    <3> QED
      BY <2>1, <3>1, KickEffect DEF EnfKick
  <2>2. CASE EnfKicked
    BY <2>2, KickEffect DEF EnfKicked
  <2> QED
    BY <1>2, <1>3, <2>1, <2>2 DEF EnforcerRuns, EnfTick, EnfLoad, EnfUsage, EnfRoundEnd
<1>4. CASE AdminAsks
  BY <1>4 DEF AdminAsks, AdmCreate, AdmUpdate, AdmKickUser, AdmDelete, AdmResetUsage
<1>5. CASE AdminRuns
  <2>1. CASE AdmKick
    <3>1. adm.user \in Users
      BY <2>1 DEF IndInv, KickersTyped, AdmKick
    <3> QED
      BY <2>1, <3>1, KickEffect DEF AdmKick
  <2>2. CASE AdmKicked
    BY <2>2, KickEffect DEF AdmKicked
  <2> QED
    BY <1>2, <1>5, <2>1, <2>2 DEF AdminRuns, AdmAuthorize, AdmDeleteRow
<1>6. CASE Tick \/ UNCHANGED vars
  BY <1>6 DEF Tick, vars
<1> QED
  BY <1>1, <1>3, <1>4, <1>5, <1>6 DEF Next

\* What the kicking goroutines and the clock do to the handlers: closers.
LEMMA OthersKeep ==
  ASSUME IndInv, EnforcerRuns \/ AdminAsks \/ AdminRuns \/ Tick
  PROVE  HandlersOwn' /\ OneOwnerEach'
<1>1. CASE \E k \in {Enforcer, Admin} : RunCloser(k)
  BY <1>1, RunCloserKeeps
<1>2. CASE UNCHANGED <<conn, entries>>
  BY <1>2, NobodyMoves
<1>3. CASE EnforcerRuns
  <2>1. CASE EnfKick \/ EnfKicked
    <3>1. enf.pc = "kick" => enf.user \in Users
      BY DEF IndInv, KickersTyped
    <3> QED
      BY <1>2, <2>1, <3>1, KickEffect DEF EnfKick, EnfKicked
  <2> QED
    BY <1>1, <1>2, <1>3, <2>1 DEF EnforcerRuns, EnfTick, EnfLoad, EnfUsage, EnfRoundEnd, smVars
<1>4. CASE AdminAsks \/ Tick
  BY <1>2, <1>4 DEF AdminAsks, AdmBegins, AdmCreate, AdmUpdate, AdmKickUser, AdmDelete,
                    AdmResetUsage, Tick, smVars
<1>5. CASE AdminRuns
  <2>1. CASE AdmKick \/ AdmKicked
    <3>1. adm.pc = "kick" => adm.user \in Users
      BY DEF IndInv, KickersTyped
    <3> QED
      BY <1>2, <2>1, <3>1, KickEffect DEF AdmKick, AdmKicked
  <2> QED
    BY <1>1, <1>2, <1>5, <2>1 DEF AdminRuns, AdmAuthorize, AdmDeleteRow, smVars
<1> QED
  BY <1>3, <1>4, <1>5

\* The program starts with an empty manager, no handler with a slot, and tables of
\* at most one row per name.
THEOREM InitEstablishesInv == Init => IndInv
<1> SUFFICES ASSUME Init PROVE IndInv
  OBVIOUS
<1>1. SMP!Init
  BY SameManager DEF Init
<1>2. SMP!IndInv
  BY <1>1, ManagerAssumption, SMP!InitEstablishesInv
<1>3. TablesTyped
  BY Bounds DEF Init, TablesTyped
<1>4. KickersTyped
  BY Bounds DEF Init, KickersTyped, EnforcerType, AdminType, EnfIdle, AdmIdle
<1>5. FreshConn \in HandlerType /\ FreshConn.pc = "new"
  BY ConnsFinite DEF FreshConn, HandlerType, BeforeSlot, AllKinds
<1>6. Shape(FreshConn) /\ OwnsEntry(FreshConn, entries) /\ FreshConn.pc \notin WithSlot
  BY <1>5 DEF FreshConn, Shape, OwnsEntry, BeforeSlot, WithSlot
<1>7. HandlersOwn
  BY <1>5, <1>6 DEF Init, HandlersOwn
<1>8. OneOwnerEach
  BY <1>1, <1>6 DEF Init, OneOwnerEach, Holds, SMP!Init, SMP!IDs, Tokens
<1> QED
  BY <1>2, <1>3, <1>4, <1>7, <1>8 DEF IndInv

\* IndInv is inductive.
THEOREM NextPreservesInv == IndInv /\ [Next]_vars => IndInv'
<1> SUFFICES ASSUME IndInv, [Next]_vars PROVE IndInv'
  OBVIOUS
<1>1. SMP!IndInv'
  BY StepOfManager, ManagerAssumption, SMP!NextPreservesInv DEF IndInv
<1> SUFFICES TablesTyped' /\ KickersTyped' /\ HandlersOwn' /\ OneOwnerEach'
  BY <1>1 DEF IndInv
<1>2. ASSUME NEW c \in Conns, HandlerRuns(c) \/ PeerActs(c)
      PROVE  TablesTyped' /\ KickersTyped' /\ HandlersOwn' /\ OneOwnerEach'
  <2>1. CASE Chunk(c)
    BY <1>2, <2>1, NobodyMoves, HandlerLeavesTables DEF Chunk, smVars
  <2> QED
    BY <1>2, <2>1, BeforeSlotKeeps, AcquireKeeps, WithSlotKeeps, RegisterKeeps, ReleaseKeeps,
       HandlerLeavesTables DEF HandlerRuns, PeerActs
<1>3. CASE EnforcerRuns
  BY <1>3, OthersKeep, EnforcerTyped
<1>4. CASE AdminAsks
  BY <1>4, OthersKeep, RequestTyped
<1>5. CASE AdminRuns
  BY <1>5, OthersKeep, AdminTyped
<1>6. CASE Tick
  <2>1. TablesTyped' /\ KickersTyped'
    BY <1>6, Bounds DEF Tick, dbVars, DbOK, IndInv, TablesTyped, KickersTyped
  <2> QED
    BY <1>6, <2>1, OthersKeep
<1>7. CASE UNCHANGED vars
  <2>1. TablesTyped' /\ KickersTyped'
    BY <1>7 DEF vars, dbVars, IndInv, TablesTyped, KickersTyped
  <2> QED
    BY <1>7, <2>1, NobodyMoves DEF vars, smVars
<1> QED
  BY <1>2, <1>3, <1>4, <1>5, <1>6, <1>7 DEF Next

\* The strengthening holds in every reachable state.
THEOREM InvariantHolds == Spec => []IndInv
BY InitEstablishesInv, NextPreservesInv, PTL DEF Spec

\* Every variable keeps its type.
THEOREM TypeCorrect == Spec => []TypeOK
<1>1. IndInv => TypeOK
  BY SameManager DEF IndInv, SMP!IndInv, TypeOK, TablesTyped, KickersTyped, HandlersOwn,
                     EnforcerType, AdminType, HandlerType
<1> QED
  BY InvariantHolds, <1>1, PTL

\* Whatever its client, the enforcer and the administrator do, a connection has a
\* server's socket or a sessions row open only while the manager counts it.
THEOREM NothingOutsideSlots == Spec => []ResourcesHeldUnderSlot
<1>1. ASSUME IndInv PROVE ResourcesHeldUnderSlot
  <2> SUFFICES ASSUME NEW c \in Conns, conn[c].remote = "open" \/ conn[c].row = "open"
               PROVE  conn[c].token # 0 /\ entries[conn[c].token] # NoEntry
    BY DEF ResourcesHeldUnderSlot
  <2>1. conn[c] \in HandlerType /\ Shape(conn[c]) /\ OwnsEntry(conn[c], entries)
    BY <1>1, HandlerTyped
  <2>2. conn[c].pc \in WithSlot
    BY <2>1 DEF HandlerType, Shape
  <2> QED
    BY <2>1, <2>2, ConnsFinite DEF OwnsEntry, Tokens
<1> QED
  BY InvariantHolds, <1>1, PTL

\* A kick that starts while a tunnel relays closes both its sockets.
THEOREM RelayedTunnelsAreKickable == Spec => []RelayedTunnelKickable
<1>1. ASSUME IndInv PROVE RelayedTunnelKickable
  <2> SUFFICES ASSUME NEW c \in Conns, At(c, "relay"), conn[c].kind \in Tunnels
               PROVE  entries[conn[c].token].closer = "both"
    BY DEF RelayedTunnelKickable
  <2>1. OwnsEntry(conn[c], entries)
    BY <1>1, HandlerTyped
  <2> QED
    BY <2>1 DEF OwnsEntry, FullyClosable, At, WithSlot
<1> QED
  BY InvariantHolds, <1>1, PTL

\* The Cardinality of the manager's instance is the one used here.
LEMMA SameCardinality ==
  ASSUME NEW S
  PROVE  SMP!Cardinality(S) = Cardinality(S)
BY DEF SMP!Cardinality, Cardinality

\* The tokens of a user's handlers are its live ids, each once.
LEMMA HandlersAreLive ==
  ASSUME IndInv, NEW u \in Users
  PROVE  Cardinality({c \in Conns : Holds(c) /\ User(c) = u}) = Cardinality(SMP!Live(u))
<1> DEFINE H == {c \in Conns : Holds(c) /\ User(c) = u}
           L == SMP!Live(u)
           token == [c \in H |-> conn[c].token]
<1>1. L = {i \in Tokens : entries[i] # NoEntry /\ entries[i].username = u}
  BY DEF SMP!Live, SMP!IDs, Tokens
<1>2. \A c \in H : conn[c].token \in L
  BY <1>1, HandlerTyped DEF OwnsEntry, Holds, User
<1>3. \A c, d \in H : conn[c].token = conn[d].token => c = d
  BY DEF IndInv, OneOwnerEach
<1>4. \A i \in L : \E c \in H : conn[c].token = i
  <2> SUFFICES ASSUME NEW i \in L PROVE \E c \in H : conn[c].token = i
    OBVIOUS
  <2>1. PICK c \in Conns : Holds(c) /\ conn[c].token = i
    BY <1>1 DEF IndInv, OneOwnerEach
  <2>2. User(c) = u
    BY <1>1, <2>1, HandlerTyped DEF OwnsEntry, Holds, User
  <2> QED
    BY <2>1, <2>2
<1>5. IsFiniteSet(H)
  BY ConnsFinite, FS_Subset
<1> HIDE DEF H, L
<1>6. token \in [H -> L]
  BY <1>2
<1>7. token \in Bijection(H, L)
  BY <1>3, <1>4, <1>6 DEF Bijection, Injection, Surjection, IsInjective
<1>8. ExistsBijection(H, L)
  BY <1>7 DEF ExistsBijection
<1> QED
  BY <1>5, <1>8, FS_Bijection DEF H, L

\* The counter that limits a user is the number of its handlers that hold a slot:
\* none leaks its slot, none returns it twice, none acts on another's entry.
THEOREM SlotsAlwaysMatch == Spec => []SlotsMatchHandlers
<1>1. ASSUME IndInv PROVE SlotsMatchHandlers
  <2>1. ASSUME NEW u \in Users
        PROVE  active[u] = Cardinality({c \in Conns : Holds(c) /\ User(c) = u})
    <3>1. active[u] = SMP!Cardinality(SMP!Live(u))
      BY <1>1 DEF IndInv, SMP!IndInv, SMP!MapsAgree
    <3> QED
      BY <1>1, <3>1, SameCardinality, HandlersAreLive
  <2>2. ASSUME NEW c \in Conns, Holds(c)
        PROVE  /\ conn[c].token # 0
               /\ entries[conn[c].token] # NoEntry
               /\ entries[conn[c].token].username = User(c)
    BY <1>1, <2>2, HandlerTyped, ConnsFinite DEF OwnsEntry, Holds, User, Tokens
  <2> QED
    BY <2>1, <2>2 DEF SlotsMatchHandlers
<1> QED
  BY InvariantHolds, <1>1, PTL

\* The program uses its manager as the manager's specification allows, so all that
\* SessionManagerProofs proves of the manager holds in the program.
THEOREM ProgramDrivesManager == Spec => SMP!Spec
<1>1. Init => SMP!Init
  BY SameManager DEF Init
<1> QED
  BY <1>1, StepOfManager, InvariantHolds, PTL DEF Spec, SMP!Spec

\* In particular every connection that is served is within the limit that the row
\* its handler loaded had, and slots are granted as ConnSlots promises.
THEOREM ConnectionsWithinLimit == Spec => []SMP!WithinGrantedLimit /\ SMP!ImplementsSlots
<1>1. SMP!Spec => []SMP!WithinGrantedLimit
  BY ManagerAssumption, SMP!LimitsRespected
<1>2. SMP!Spec => SMP!ImplementsSlots
  BY ManagerAssumption, SMP!ManagerImplementsSlots
<1> QED
  BY <1>1, <1>2, ProgramDrivesManager, PTL
=============================================================================
