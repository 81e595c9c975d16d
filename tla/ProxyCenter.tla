---------------------------- MODULE ProxyCenter -----------------------------
(***************************************************************************)
(* The running proxy: client connections (internal/proxy), the policy      *)
(* enforcer (internal/policy), the admin console (internal/web) and the    *)
(* account tables (internal/store), over one session manager.              *)
(*                                                                         *)
(* A connection is one goroutine: it loads the account row, reads the      *)
(* usage counters, acquires a slot, dials, registers its closer, relays,   *)
(* and releases the slot.  The row it loaded is a copy: it acts on it      *)
(* however the table changes afterwards.  The enforcer and the admin       *)
(* handlers read the tables and kick while connections are at any of these *)
(* points.                                                                 *)
(*                                                                         *)
(* The day, month and total counters of an account are one counter here,   *)
(* usage, and its three quotas one quota, in units of the quota.  Module   *)
(* UsageCounters has the three, and the transaction that updates them.     *)
(***************************************************************************)
EXTENDS Integers, FiniteSets

CONSTANTS Users, Conns,
          Kinds,        \* the protocols clients use, a subset of AllKinds
          Profiles,     \* what an admin may set an account to
          Enforcer, Admin,
          NilCloser, NoEntry, NoUser, NoAccount,
          MaxTime,      \* bound: the clock
          MaxUsage,     \* bound: the counter of one account
          MaxUid,       \* bound: accounts ever created
          MaxDbErrors,  \* bound: failing database calls
          MaxAdminOps   \* bound: admin requests

AllKinds == {"socks5", "connect", "plain"}

ASSUME CoreAssumption ==
  /\ Kinds \subseteq AllKinds
  /\ \A p \in Profiles : /\ p.enabled \in BOOLEAN
                         /\ p.expiresAt \in Nat
                         /\ p.maxConns \in Nat \ {0}
                         /\ p.quota \in Nat
  /\ IsFiniteSet(Conns)
  /\ Enforcer # Admin
  /\ NilCloser \notin {"client", "both"} /\ NoUser \notin Users
  /\ NoEntry \notin [username : Users, closer : {"client", "both", NilCloser}]
  /\ NoEntry \notin [username : Users, limit : Int]
  /\ IsFiniteSet(Users) /\ Cardinality(Users) <= MaxUid
  /\ {MaxTime, MaxUsage, MaxUid, MaxDbErrors, MaxAdminOps} \subseteq Nat

VARIABLES nextID, active, entries, byUser, issued, kicking, \* the session manager
          accounts,  \* table users: per name, its row or NoAccount
          lastUid,   \* AUTOINCREMENT of users.id
          usage,     \* table usage_counters: per users.id, its counter
          conn,      \* the connection handlers
          enf,       \* the enforcer's goroutine
          adm,       \* the admin handler
          now,       \* the clock, in steps of the expiry dates
          dbErrors, adminOps

smVars == <<nextID, active, entries, byUser, issued, kicking>>

dbVars == <<accounts, lastUid, usage>>

vars == <<smVars, dbVars, conn, enf, adm, now, dbErrors, adminOps>>

SM == INSTANCE SessionManager WITH
        Limits  <- {p.maxConns : p \in Profiles},
        Closers <- {"client", "both"},
        Kickers <- {Enforcer, Admin},
        MaxID   <- Cardinality(Conns)

Row == [id : 1..MaxUid, username : Users, profile : Profiles]

Tunnels == {"socks5", "connect"}

\* Where a connection's handler stands.  Field row is its row of table
\* sessions: "none" if there is none or it has an end, "leaked" if nobody
\* will end it any more.
BeforeSlot == {"new", "authz", "ready", "done"}
WithSlot   == {"dialing", "dialed", "announced", "registered", "relay", "closing", "releasing"}

FreshConn == [pc |-> "new", kind |-> "socks5", acct |-> NoAccount, token |-> 0,
              client |-> "open", remote |-> "none", flow |-> {}, row |-> "none"]

DoneConn(row) == [FreshConn EXCEPT !.pc = "done", !.client = "closed", !.row = row]

EnfIdle == [pc |-> "idle", now |-> 0, work |-> {}, acct |-> NoAccount, user |-> NoUser]

AdmIdle == [pc |-> "idle", user |-> NoUser, acct |-> NoAccount, then |-> "idle"]

TypeOK ==
  /\ SM!TypeOK
  /\ accounts \in [Users -> Row \cup {NoAccount}]
  /\ lastUid \in 0..MaxUid
  /\ usage \in [1..MaxUid -> 0..MaxUsage]
  /\ conn \in [Conns -> [pc : BeforeSlot \cup WithSlot, kind : AllKinds,
                         acct : Row \cup {NoAccount}, token : 0..Cardinality(Conns),
                         client : {"open", "closed"}, remote : {"none", "open", "closed"},
                         flow : SUBSET {"up", "down"},
                         row : {"none", "open", "leaked"}]]
  /\ enf \in [pc : {"idle", "round", "usage", "kick", "kicking"}, now : 0..MaxTime,
              work : SUBSET Users, acct : Row \cup {NoAccount}, user : Users \cup {NoUser}]
  /\ adm \in [pc : {"idle", "authorize", "kick", "kicking", "delete"},
              user : Users \cup {NoUser}, acct : Row \cup {NoAccount},
              then : {"idle", "delete"}]
  /\ now \in 0..MaxTime
  /\ dbErrors \in 0..MaxDbErrors
  /\ adminOps \in 0..MaxAdminOps

Init ==
  /\ SM!Init
  /\ accounts \in [Users -> Row \cup {NoAccount}]
  /\ \A u \in Users : accounts[u] # NoAccount =>
        /\ accounts[u].username = u
        /\ accounts[u].id <= Cardinality(Users)
        /\ \A v \in Users \ {u} : accounts[v] # NoAccount => accounts[v].id # accounts[u].id
  /\ lastUid = Cardinality(Users)
  /\ usage = [i \in 1..MaxUid |-> 0]
  /\ conn = [c \in Conns |-> FreshConn]
  /\ enf = EnfIdle
  /\ adm = AdmIdle
  /\ now = 0
  /\ dbErrors = 0
  /\ adminOps = 0

(***************************************************************************)
(* auth.Service.Authorize, in its two halves: what the loaded row decides  *)
(* at the captured time, and what the usage read afterwards decides.       *)
(***************************************************************************)
RowRefuses(r, t) ==
  \/ ~ r.profile.enabled
  \/ r.profile.expiresAt > 0 /\ t >= r.profile.expiresAt

\* The table has no such row, or one that refuses.
Unfit(row, t) == IF row = NoAccount THEN TRUE ELSE RowRefuses(row, t)

OverLimit(used, limit) == limit > 0 /\ used >= limit

OverQuota(r) == OverLimit(usage[r.id], r.profile.quota)

\* A database call fails: no matter why, it costs one of the errors.
DbError == dbErrors < MaxDbErrors /\ dbErrors' = dbErrors + 1

DbOK == UNCHANGED dbErrors

(***************************************************************************)
(* Connections                                                             *)
(***************************************************************************)
At(c, pc) == conn[c].pc = pc

User(c) == conn[c].acct.username

Moves(c, pc) == conn' = [conn EXCEPT ![c].pc = pc]

Ends(c) == conn' = [conn EXCEPT ![c] = DoneConn("none")]

\* GetUserByUsername, the password, and the row's half of Authorize.
Authenticate(c, k, u) ==
  /\ At(c, "new")
  /\ ~ Unfit(accounts[u], now)
  /\ conn' = [conn EXCEPT ![c].pc = "authz", ![c].kind = k, ![c].acct = accounts[u]]
  /\ DbOK
  /\ UNCHANGED <<smVars, dbVars, enf, adm, now, adminOps>>

\* No credentials, wrong ones, an unknown, disabled or expired account.
RejectLogin(c) ==
  /\ At(c, "new")
  /\ Ends(c)
  /\ DbOK
  /\ UNCHANGED <<smVars, dbVars, enf, adm, now, adminOps>>

\* GetUsage and the quota's half of Authorize; an error refuses as well.
Authorize(c) ==
  /\ At(c, "authz")
  /\ \/ ~ OverQuota(conn[c].acct) /\ Moves(c, "ready") /\ DbOK
     \/ OverQuota(conn[c].acct) /\ Ends(c) /\ DbOK
     \/ Ends(c) /\ DbError
  /\ UNCHANGED <<smVars, dbVars, enf, adm, now, adminOps>>

\* A SOCKS5 client sends no good CONNECT request within the 20 s deadline.
HandshakeFails(c) ==
  /\ At(c, "ready")
  /\ conn[c].kind = "socks5"
  /\ Ends(c)
  /\ DbOK
  /\ UNCHANGED <<smVars, dbVars, enf, adm, now, adminOps>>

\* SOCKS5 registers a closer for the client side at once, HTTP none.
FirstCloser(kind) == IF kind = "socks5" THEN "client" ELSE NilCloser

\* Mutant: the handler returns when InsertSessionStart fails, and Release is
\* not deferred yet.
AcquireSlotNeedsRow(c) ==
  /\ At(c, "ready")
  /\ SM!Acquire(User(c), conn[c].acct.profile.maxConns, FirstCloser(conn[c].kind))
  /\ \/ /\ conn' = [conn EXCEPT ![c].pc = "dialing", ![c].token = nextID', ![c].row = "open"]
        /\ DbOK
     \/ Ends(c) /\ DbError
  /\ UNCHANGED <<dbVars, enf, adm, now, adminOps>>

\* Acquire with the loaded max_conns, then InsertSessionStart.
AcquireSlot(c) ==
  /\ At(c, "ready")
  /\ SM!Acquire(User(c), conn[c].acct.profile.maxConns, FirstCloser(conn[c].kind))
  /\ \E row \in {"open", "none"} :
       /\ conn' = [conn EXCEPT ![c].pc = "dialing", ![c].token = nextID', ![c].row = row]
       /\ IF row = "open" THEN DbOK ELSE DbError
  /\ UNCHANGED <<dbVars, enf, adm, now, adminOps>>

RefuseSlot(c) ==
  /\ At(c, "ready")
  /\ ~ SM!HasRoom(User(c), conn[c].acct.profile.maxConns)
  /\ Ends(c)
  /\ DbOK
  /\ UNCHANGED <<smVars, dbVars, enf, adm, now, adminOps>>

\* Mutant: the handler returns without its deferred calls when the dial fails.
DialLeaks(c) ==
  /\ At(c, "dialing")
  /\ \/ conn' = [conn EXCEPT ![c].remote = "open",
                             ![c].pc = IF conn[c].kind = "plain" THEN "relay" ELSE "dialed"]
     \/ Ends(c)
  /\ DbOK
  /\ UNCHANGED <<smVars, dbVars, enf, adm, now, adminOps>>

\* router.DialContext; for plain HTTP the whole RoundTrip, whose response
\* body is then copied to the client.
Dial(c) ==
  /\ At(c, "dialing")
  /\ \/ conn' = [conn EXCEPT ![c].remote = "open",
                             ![c].pc = IF conn[c].kind = "plain" THEN "relay" ELSE "dialed"]
     \/ Moves(c, "closing")
  /\ DbOK
  /\ UNCHANGED <<smVars, dbVars, enf, adm, now, adminOps>>

StartRelay(c) ==
  conn' = [conn EXCEPT ![c].pc = "relay", ![c].flow = {"up", "down"}]

\* Mutant: CONNECT registers no closer.
RegisterCloserSocksOnly(c) ==
  /\ \/ /\ conn[c].kind = "socks5"
        /\ At(c, "dialed")
        /\ Moves(c, "registered")
        /\ SM!SetCloser(conn[c].token, "both")
     \/ conn[c].kind = "connect" /\ At(c, "announced") /\ StartRelay(c) /\ UNCHANGED smVars
  /\ DbOK
  /\ UNCHANGED <<dbVars, enf, adm, now, adminOps>>

\* SetCloser with both sockets: before the reply in SOCKS5, after it in
\* CONNECT.
RegisterCloser(c) ==
  /\ \/ conn[c].kind = "socks5" /\ At(c, "dialed") /\ Moves(c, "registered")
     \/ conn[c].kind = "connect" /\ At(c, "announced") /\ StartRelay(c)
  /\ SM!SetCloser(conn[c].token, "both")
  /\ DbOK
  /\ UNCHANGED <<dbVars, enf, adm, now, adminOps>>

\* The reply that tells the client its tunnel is up.  The write fails when
\* a closer closed the client side, and may fail because the client left.
WriteReply(c) ==
  /\ \/ /\ conn[c].client = "open"
        /\ \/ conn[c].kind = "socks5" /\ At(c, "registered") /\ StartRelay(c)
           \/ conn[c].kind = "connect" /\ At(c, "dialed") /\ Moves(c, "announced")
     \/ /\ \/ conn[c].kind = "socks5" /\ At(c, "registered")
           \/ conn[c].kind = "connect" /\ At(c, "dialed")
        /\ Moves(c, "closing")
  /\ DbOK
  /\ UNCHANGED <<smVars, dbVars, enf, adm, now, adminOps>>

(***************************************************************************)
(* relayBidirectional: a goroutine per direction reads its source, writes  *)
(* to the other side and meters what it wrote.                             *)
(***************************************************************************)
\* AddUsage fails, and changes nothing, once the row of the id is deleted.
Meter(id, n) ==
  /\ \E u \in Users : accounts[u] # NoAccount /\ accounts[u].id = id
  /\ usage[id] + n <= MaxUsage
  /\ usage' = [usage EXCEPT ![id] = @ + n]

Chunk(c) ==
  /\ At(c, "relay")
  /\ conn[c].flow # {}
  /\ conn[c].client = "open"
  /\ conn[c].remote = "open"
  /\ Meter(conn[c].acct.id, 1)
  /\ DbOK
  /\ UNCHANGED <<smVars, accounts, lastUid, conn, enf, adm, now, adminOps>>

\* A direction ends: its peer closed, or a read or write failed.
EndHalf(c, d) ==
  /\ At(c, "relay")
  /\ d \in conn[c].flow
  /\ conn' = [conn EXCEPT ![c].flow = @ \ {d}]
  /\ DbOK
  /\ UNCHANGED <<smVars, dbVars, enf, adm, now, adminOps>>

\* Plain HTTP: the body is copied; only now is its traffic metered.
BodyDone(c) ==
  /\ At(c, "relay")
  /\ conn[c].kind = "plain"
  /\ Moves(c, "closing")
  /\ \/ Meter(conn[c].acct.id, 1) /\ UNCHANGED <<accounts, lastUid>>
     \/ UNCHANGED dbVars
  /\ DbOK
  /\ UNCHANGED <<smVars, enf, adm, now, adminOps>>

\* Mutant: Release is called before EndSession, which may fail, and not after.
FinishReleases(c) ==
  /\ \/ At(c, "closing")
     \/ At(c, "relay") /\ conn[c].kind \in Tunnels /\ conn[c].flow = {}
  /\ SM!Release(conn[c].token)
  /\ Moves(c, "releasing")
  /\ DbOK
  /\ UNCHANGED <<dbVars, enf, adm, now, adminOps>>

\* EndSession and the deferred Closes, before the deferred Release.  The
\* SOCKS5 handler closes its client last of all.
Finish(c) ==
  /\ \/ At(c, "closing")
     \/ At(c, "relay") /\ conn[c].kind \in Tunnels /\ conn[c].flow = {}
  /\ \E row \in {"none", "leaked"} :
       /\ row = "leaked" => conn[c].row = "open"
       /\ conn' = [conn EXCEPT
             ![c].pc = "releasing",
             ![c].row = IF @ = "open" THEN row ELSE @,
             ![c].remote = IF @ = "open" THEN "closed" ELSE @,
             ![c].client = IF conn[c].kind = "socks5" THEN @ ELSE "closed"]
       /\ IF row = "leaked" THEN DbError ELSE DbOK
  /\ UNCHANGED <<smVars, dbVars, enf, adm, now, adminOps>>

ReleaseSlot(c) ==
  /\ At(c, "releasing")
  /\ SM!Release(conn[c].token)
  /\ conn' = [conn EXCEPT ![c] = DoneConn(@.row)]
  /\ DbOK
  /\ UNCHANGED <<dbVars, enf, adm, now, adminOps>>

(***************************************************************************)
(* A closer that KickUser collected is called, whatever its connection has *)
(* become in the meantime.  Closing a closed socket does nothing.          *)
(***************************************************************************)
OwnerOf(token) == {c \in Conns : conn[c].token = token}

\* Mutant: the full closer closes the client side only.
RunCloserOneSide(k) ==
  /\ \E call \in kicking[k].todo :
       /\ SM!KickRun(k, call)
       /\ conn' = [c \in Conns |->
                     IF c \in OwnerOf(call[1]) THEN [conn[c] EXCEPT !.client = "closed"]
                     ELSE conn[c]]
  /\ DbOK
  /\ UNCHANGED <<dbVars, enf, adm, now, adminOps>>

RunCloser(k) ==
  /\ \E call \in kicking[k].todo :
       /\ SM!KickRun(k, call)
       /\ conn' = [c \in Conns |->
                     IF c \notin OwnerOf(call[1]) THEN conn[c]
                     ELSE [conn[c] EXCEPT
                             !.client = "closed",
                             !.remote = IF call[2] = "both" THEN "closed" ELSE @]]
  /\ DbOK
  /\ UNCHANGED <<dbVars, enf, adm, now, adminOps>>

(***************************************************************************)
(* The enforcer: runOnce, and again on every tick of its 2 s ticker.       *)
(***************************************************************************)
EnfTick ==
  /\ enf.pc = "idle"
  /\ enf' = [EnfIdle EXCEPT !.pc = "round", !.now = now, !.work = SM!ActiveUsernames]
  /\ DbOK
  /\ UNCHANGED <<smVars, dbVars, conn, adm, now, adminOps>>

\* Mutant: an unknown user is skipped like an error.
EnfLoadSkipsUnknown(u) ==
  /\ enf.pc = "round"
  /\ u \in enf.work
  /\ LET next == [enf EXCEPT !.work = @ \ {u}]
         row == accounts[u]
     IN  \/ row # NoAccount /\ Unfit(row, enf.now)
            /\ enf' = [next EXCEPT !.pc = "kick", !.user = u] /\ DbOK
         \/ row # NoAccount /\ ~ Unfit(row, enf.now)
            /\ enf' = [next EXCEPT !.pc = "usage", !.user = u, !.acct = row] /\ DbOK
         \/ row = NoAccount /\ enf' = next /\ DbOK
         \/ enf' = next /\ DbError
  /\ UNCHANGED <<smVars, dbVars, conn, adm, now, adminOps>>

\* GetUserByUsername, in the order of the map.  An unknown user is kicked,
\* an error skips the user until the next round.
EnfLoad(u) ==
  /\ enf.pc = "round"
  /\ u \in enf.work
  /\ LET next == [enf EXCEPT !.work = @ \ {u}]
         row == accounts[u]
     IN  \/ /\ Unfit(row, enf.now)
            /\ enf' = [next EXCEPT !.pc = "kick", !.user = u]
            /\ DbOK
         \/ /\ ~ Unfit(row, enf.now)
            /\ enf' = [next EXCEPT !.pc = "usage", !.user = u, !.acct = row]
            /\ DbOK
         \/ enf' = next /\ DbError
  /\ UNCHANGED <<smVars, dbVars, conn, adm, now, adminOps>>

EnfRowDone == [enf EXCEPT !.pc = "round", !.user = NoUser, !.acct = NoAccount]

\* GetUsage: over the quota of the row loaded before, or an error: kicked.
EnfUsage ==
  /\ enf.pc = "usage"
  /\ \/ OverQuota(enf.acct) /\ enf' = [enf EXCEPT !.pc = "kick", !.acct = NoAccount] /\ DbOK
     \/ ~ OverQuota(enf.acct) /\ enf' = EnfRowDone /\ DbOK
     \/ enf' = [enf EXCEPT !.pc = "kick", !.acct = NoAccount] /\ DbError
  /\ UNCHANGED <<smVars, dbVars, conn, adm, now, adminOps>>

EnfKick ==
  /\ enf.pc = "kick"
  /\ SM!KickCollect(Enforcer, enf.user)
  /\ enf' = [enf EXCEPT !.pc = "kicking"]
  /\ DbOK
  /\ UNCHANGED <<dbVars, conn, adm, now, adminOps>>

EnfKicked ==
  /\ enf.pc = "kicking"
  /\ SM!KickReturn(Enforcer)
  /\ enf' = EnfRowDone
  /\ DbOK
  /\ UNCHANGED <<dbVars, conn, adm, now, adminOps>>

EnfRoundEnd ==
  /\ enf.pc = "round"
  /\ enf.work = {}
  /\ enf' = EnfIdle
  /\ DbOK
  /\ UNCHANGED <<smVars, dbVars, conn, adm, now, adminOps>>

(***************************************************************************)
(* The admin console, one request at a time.                               *)
(***************************************************************************)
AdmBegins(u) ==
  /\ adm.pc = "idle"
  /\ adminOps < MaxAdminOps
  /\ adminOps' = adminOps + 1
  /\ DbOK
  /\ UNCHANGED <<conn, enf, now>>

\* POST /users: a name that is free gets a row with a new id.
AdmCreate(u, p) ==
  /\ AdmBegins(u)
  /\ accounts[u] = NoAccount
  /\ lastUid < MaxUid
  /\ lastUid' = lastUid + 1
  /\ accounts' = [accounts EXCEPT ![u] =
                    [id |-> lastUid', username |-> u, profile |-> p]]
  /\ UNCHANGED <<usage, smVars, adm>>

\* PATCH /users/{u}: the row is updated.  A max_conns in the payload, or a
\* row that refuses, kicks; else the usage is read first.
AdmUpdate(u, p) ==
  /\ AdmBegins(u)
  /\ accounts[u] # NoAccount
  /\ \E maxConnsGiven \in BOOLEAN :
       LET row == [accounts[u] EXCEPT !.profile = p]
       IN  /\ maxConnsGiven \/ p.maxConns = accounts[u].profile.maxConns
           /\ accounts' = [accounts EXCEPT ![u] = row]
           /\ adm' = IF maxConnsGiven \/ RowRefuses(row, now)
                       THEN [AdmIdle EXCEPT !.pc = "kick", !.user = u]
                       ELSE [AdmIdle EXCEPT !.pc = "authorize", !.user = u, !.acct = row]
  /\ UNCHANGED <<lastUid, usage, smVars>>

AdmAuthorize ==
  /\ adm.pc = "authorize"
  /\ LET kick == [AdmIdle EXCEPT !.pc = "kick", !.user = adm.user]
     IN  \/ OverQuota(adm.acct) /\ adm' = kick /\ DbOK
         \/ ~ OverQuota(adm.acct) /\ adm' = AdmIdle /\ DbOK
         \/ adm' = kick /\ DbError
  /\ UNCHANGED <<smVars, dbVars, conn, enf, now, adminOps>>

\* POST /users/{u}/kick
AdmKickUser(u) ==
  /\ AdmBegins(u)
  /\ adm' = [AdmIdle EXCEPT !.pc = "kick", !.user = u]
  /\ UNCHANGED <<smVars, dbVars>>

\* DELETE /users/{u}: the sessions are kicked, then the row is deleted.
AdmDelete(u) ==
  /\ AdmBegins(u)
  /\ accounts[u] # NoAccount
  /\ adm' = [AdmIdle EXCEPT !.pc = "kick", !.user = u, !.then = "delete"]
  /\ UNCHANGED <<smVars, dbVars>>

\* POST /users/{u}/reset-usage; a new day does the same to the day counter.
AdmResetUsage(u) ==
  /\ AdmBegins(u)
  /\ accounts[u] # NoAccount
  /\ usage' = [usage EXCEPT ![accounts[u].id] = 0]
  /\ UNCHANGED <<smVars, accounts, lastUid, adm>>

AdmKick ==
  /\ adm.pc = "kick"
  /\ SM!KickCollect(Admin, adm.user)
  /\ adm' = [adm EXCEPT !.pc = "kicking"]
  /\ DbOK
  /\ UNCHANGED <<dbVars, conn, enf, now, adminOps>>

AdmKicked ==
  /\ adm.pc = "kicking"
  /\ SM!KickReturn(Admin)
  /\ adm' = IF adm.then = "delete" THEN [adm EXCEPT !.pc = "delete"] ELSE AdmIdle
  /\ DbOK
  /\ UNCHANGED <<dbVars, conn, enf, now, adminOps>>

\* The usage row goes with the account row: ON DELETE CASCADE.
AdmDeleteRow ==
  /\ adm.pc = "delete"
  /\ usage' = [usage EXCEPT ![accounts[adm.user].id] = 0]
  /\ accounts' = [accounts EXCEPT ![adm.user] = NoAccount]
  /\ adm' = AdmIdle
  /\ DbOK
  /\ UNCHANGED <<smVars, lastUid, conn, enf, now, adminOps>>

Tick ==
  /\ now < MaxTime
  /\ now' = now + 1
  /\ DbOK
  /\ UNCHANGED <<smVars, dbVars, conn, enf, adm, adminOps>>

(***************************************************************************)
(* Specifications                                                          *)
(***************************************************************************)
\* A direction surely ends once the sockets it reads and writes are closed
\* here; with one of them open it may still block in that one.
Cut(c) == conn[c].client = "closed" /\ conn[c].remote = "closed"

\* What a handler does without waiting for its peers, up to the deadlines
\* of the SOCKS5 handshake and of the dial.
HandlerRuns(c) ==
  \/ Authorize(c)
  \/ HandshakeFails(c)
  \/ AcquireSlot(c)
  \/ RefuseSlot(c)
  \/ conn[c].kind \in Tunnels /\ Dial(c)
  \/ RegisterCloser(c)
  \/ WriteReply(c)
  \/ Cut(c) /\ \E d \in {"up", "down"} : EndHalf(c, d)
  \/ Finish(c)
  \/ ReleaseSlot(c)

\* What waits for the client or the server.
PeerActs(c) ==
  \/ \E k \in Kinds, u \in Users : Authenticate(c, k, u)
  \/ RejectLogin(c)
  \/ conn[c].kind = "plain" /\ Dial(c)
  \/ Chunk(c)
  \/ ~ Cut(c) /\ \E d \in {"up", "down"} : EndHalf(c, d)
  \/ BodyDone(c)

EnforcerRuns ==
  \/ EnfTick
  \/ \E u \in Users : EnfLoad(u)
  \/ EnfUsage
  \/ EnfKick
  \/ RunCloser(Enforcer)
  \/ EnfKicked
  \/ EnfRoundEnd

AdminAsks ==
  \E u \in Users :
    \/ \E p \in Profiles : AdmCreate(u, p) \/ AdmUpdate(u, p)
    \/ AdmKickUser(u)
    \/ AdmDelete(u)
    \/ AdmResetUsage(u)

AdminRuns ==
  \/ AdmAuthorize
  \/ AdmKick
  \/ RunCloser(Admin)
  \/ AdmKicked
  \/ AdmDeleteRow

Next ==
  \/ \E c \in Conns : HandlerRuns(c) \/ PeerActs(c)
  \/ EnforcerRuns
  \/ AdminAsks
  \/ AdminRuns
  \/ Tick

Spec == Init /\ [][Next]_vars

\* The Go scheduler runs every goroutine that can run.  Nothing is assumed
\* of clients, servers and administrators.
FairSpec ==
  /\ Spec
  /\ \A c \in Conns : WF_vars(HandlerRuns(c))
  /\ WF_vars(EnforcerRuns)
  /\ WF_vars(AdminRuns)

(***************************************************************************)
(* Properties                                                              *)
(***************************************************************************)
Holds(c) == conn[c].pc \in WithSlot

\* The count that limits a user is the number of its running handlers: no
\* path through a handler, failing or kicked, leaks its slot or returns it
\* twice.
SlotsMatchHandlers ==
  /\ \A u \in Users : active[u] = Cardinality({c \in Conns : Holds(c) /\ User(c) = u})
  /\ \A c \in Conns : Holds(c) =>
       /\ conn[c].token # 0
       /\ entries[conn[c].token] # NoEntry
       /\ entries[conn[c].token].username = User(c)

\* While a tunnel relays, a kick that starts now closes both its sockets.
RelayedTunnelKickable ==
  \A c \in Conns : (At(c, "relay") /\ conn[c].kind \in Tunnels) =>
     entries[conn[c].token].closer = "both"

\* Traffic only under a slot: a connection to a server is open only while
\* its handler holds a slot, and a sessions row is open only as long.
ResourcesHeldUnderSlot ==
  \A c \in Conns : (conn[c].remote = "open" \/ conn[c].row = "open") =>
     conn[c].token # 0 /\ entries[conn[c].token] # NoEntry

\* What Authorize would say of u now.
Refused(u) ==
  Unfit(accounts[u], now) \/ OverQuota(accounts[u])

Served(u, kinds) == \E c \in Conns : Holds(c) /\ User(c) = u /\ conn[c].kind \in kinds

\* A user who stays deleted, disabled, expired or over quota ends up without
\* a tunnel, whatever it was doing when it became so: also a tunnel whose
\* closer was missing or out of date when it was first kicked.
PolicyCutsTunnels == \A u \in Users : <>[]Refused(u) => <>[]~ Served(u, Tunnels)

\* A kick that has a tunnel's full closer in hand ends that tunnel.
KickEndsTunnel ==
  \A c \in Conns :
    (\E k \in {Enforcer, Admin} : <<conn[c].token, "both">> \in kicking[k].todo)
      ~> At(c, "done")

\* As documented, of every protocol: users who are refused are cut.
PolicyCutsEverySession == \A u \in Users : <>[]Refused(u) => <>[]~ Served(u, AllKinds)

\* As documented, the number of connections of an account is limited: once
\* no request and no kick is under way and all its sessions relay, a user
\* has no more of them than its max_conns.
SettledWithinLimit ==
  \A u \in Users :
    (/\ accounts[u] # NoAccount
     /\ adm.pc = "idle"
     /\ \A k \in {Enforcer, Admin} : kicking[k].user = NoUser
     /\ \A c \in Conns : (Holds(c) /\ User(c) = u) =>
          At(c, "relay") /\ conn[c].client = "open" /\ conn[c].remote = "open")
      => active[u] <= accounts[u].profile.maxConns
=============================================================================
