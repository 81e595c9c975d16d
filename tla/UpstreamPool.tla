---------------------------- MODULE UpstreamPool ----------------------------
(***************************************************************************)
(* The way out of the proxy: the configuration (internal/config), the pool *)
(* of upstream proxies, its health checks and the weighted pick            *)
(* (internal/upstream).                                                    *)
(*                                                                         *)
(* One goroutine probes the nodes one by one and sets their health flags;  *)
(* any number of handlers dial: each reads the flags one by one, takes the *)
(* next value of a shared counter and connects to the one node it has      *)
(* picked.  Nodes go down and come back at any time.                       *)
(***************************************************************************)
EXTENDS Integers, Sequences, FiniteSets, FiniteSetsExt, SequencesExt

CONSTANTS Addrs,         \* what may stand as the host of an upstream proxy
          Portless,      \* those of them without a port: no dial to them succeeds
          NoAddr,        \* an empty host
          Envs,          \* the environments the process is started in
          Dialers,       \* handlers that call DialContext
          MaxInt,        \* the greatest int, 2^63 - 1 in most builds
          CounterRange   \* bound: the values of the counter, 2^64 in the code

ASSUME PoolAssumption ==
  /\ IsFiniteSet(Addrs) /\ NoAddr \notin Addrs /\ Portless \subseteq Addrs
  /\ {MaxInt, CounterRange} \subseteq Nat \ {0}
  /\ \A e \in Envs :
        /\ e.mode \in STRING
        /\ e.addr \in Addrs \cup {NoAddr}
        /\ e.pool \in Seq([blank : BOOLEAN, scheme : STRING, host : Addrs \cup {NoAddr},
                           weight : Seq(Int)])

VARIABLES env,     \* the environment variables
          phase,   \* of the process
          mode,    \* cfg.EgressMode
          pool,    \* Router.pool, without the flags
          health,  \* the atomic flag of each node
          rr,      \* Router.rr
          up,      \* the addresses that accept connections now
          probe,   \* the goroutine of Router.Start
          dial,    \* the handlers
          turn     \* history: picks since the candidates last changed

vars == <<env, phase, mode, pool, health, rr, up, probe, dial, turn>>

-----------------------------------------------------------------------------
(***************************************************************************)
(* config.Load and parsePool.                                              *)
(***************************************************************************)
Modes == {"direct", "http-upstream", "socks5-upstream", "pool"}

\* strings.ToLower, on the spellings that are used.
Lower(text) ==
  CASE text \in {"Pool", "POOL"} -> "pool"
    [] text = "Direct"           -> "direct"
    [] OTHER                     -> text

\* strings.EqualFold, on the same.
EqualFold(text1, text2) == Lower(text1) = Lower(text2)

\* Load: what becomes of the mode, and when it returns an error.
LoadedMode(e) == Lower(e.mode)

LoadFails(e) ==
  \/ LoadedMode(e) \notin Modes
  \/ LoadedMode(e) \in {"http-upstream", "socks5-upstream"} /\ e.addr = NoAddr
  \/ LoadedMode(e) = "pool" /\ e.pool = <<>>

\* The items parsePool does not skip, in their order.
Items(text) ==
  LET kept[n \in 0..Len(text)] ==
        IF n = 0 THEN <<>>
        ELSE IF text[n].blank THEN kept[n - 1] ELSE Append(kept[n - 1], text[n])
  IN  kept[Len(text)]

ModeOf(scheme) ==
  CASE scheme \in {"http", "https"}   -> "http-upstream"
    [] scheme \in {"socks", "socks5"} -> "socks5-upstream"
    [] OTHER                          -> "unsupported"

\* Mutant: any number is a weight.
ItemBadIfAway(item) == ModeOf(item.scheme) = "unsupported" \/ item.host = NoAddr

\* A weight must be one that strconv.Atoi reads and be positive; a host need only
\* be there.
ItemBad(item) ==
  \/ ModeOf(item.scheme) = "unsupported"
  \/ item.host = NoAddr
  \/ item.weight # <<>> /\ Head(item.weight) \notin 1..MaxInt

\* Mutant: a text of blank items is taken.
ParseFailsOnItem(text) == \E item \in ToSet(Items(text)) : ItemBad(item)

ParseFails(text) == Items(text) = <<>> \/ \E item \in ToSet(Items(text)) : ItemBad(item)

ParsePool(text) ==
  [i \in DOMAIN Items(text) |->
     LET item == Items(text)[i]
     IN  [mode |-> ModeOf(item.scheme), addr |-> item.host,
          weight |-> IF item.weight = <<>> THEN 1 ELSE Head(item.weight)]]

-----------------------------------------------------------------------------
(***************************************************************************)
(* The weighted pick among a set of nodes.                                 *)
(***************************************************************************)
Nodes == DOMAIN pool

PoolAddrs == {pool[i].addr : i \in Nodes}

Weight == [i \in Nodes |-> IF pool[i].weight <= 0 THEN 1 ELSE pool[i].weight]

\* The sum of the weights, as a number and as the int that additions leave.
Total(S) == SumFunctionOnSet(Weight, S)

Fits(S) == Total(S) <= MaxInt

AsInt(n) == ((n + MaxInt + 1) % (2 * (MaxInt + 1))) - (MaxInt + 1)

Sum(S) == AsInt(Total(S))

\* Mutant: the flags are not looked at.
CandidatesAll(healthy) == Nodes

Candidates(healthy) == IF healthy = {} THEN Nodes ELSE healthy

\* Mutant: the running sum may be equal to pos.
NodeAtOrAfter(S, pos) == Min({i \in S : pos <= Sum({j \in S : j <= i})})

\* The first candidate whose running sum exceeds pos; the last one's is sumWeight.
NodeAt(S, pos) == Min({i \in S : pos < Sum({j \in S : j <= i})})

IdleDial == [pc |-> "idle", i |-> 0, healthy |-> {}, node |-> 0]

NoTurn == [cands |-> {}, picks |-> <<>>]

TypeOK ==
  /\ env \in Envs
  /\ phase \in {"boot", "serving", "failed"}
  /\ mode \in Modes \cup {"unset"}
  /\ pool \in Seq([mode : {"http-upstream", "socks5-upstream"}, addr : Addrs, weight : 1..MaxInt])
  /\ health \in [Nodes -> BOOLEAN]
  /\ rr \in 0..(CounterRange - 1)
  /\ up \subseteq Addrs \ Portless
  /\ probe \in [pc : {"idle", "dial", "store"}, i : Nodes \cup {0}, ok : BOOLEAN]
  /\ dial \in [Dialers -> [pc : {"idle", "load", "pick", "connect", "failed", "noroute"},
                           i : Nodes \cup {0}, healthy : SUBSET Nodes, node : Nodes \cup {0}]]
  /\ turn.cands \subseteq Nodes

Init ==
  /\ env \in Envs
  /\ phase = "boot" /\ mode = "unset"
  /\ pool = <<>> /\ health = <<>>
  /\ rr = 0
  /\ up = Addrs \ Portless
  /\ probe = [pc |-> "idle", i |-> 0, ok |-> FALSE]
  /\ dial = [d \in Dialers |-> IdleDial]
  /\ turn = NoTurn

\* main up to the servers: Load, then NewRouter.
Boot ==
  /\ phase = "boot"
  /\ LET isPool == EqualFold(LoadedMode(env), "pool")
     IN  IF LoadFails(env) \/ (isPool /\ ParseFails(env.pool))
         THEN phase' = "failed" /\ UNCHANGED <<mode, pool, health>>
         ELSE /\ phase' = "serving" /\ mode' = LoadedMode(env)
              /\ pool' = IF isPool THEN ParsePool(env.pool) ELSE <<>>
              /\ health' = [i \in DOMAIN pool' |-> TRUE]
  /\ UNCHANGED <<env, rr, up, probe, dial, turn>>

NodeFlips(a) ==
  /\ a \in PoolAddrs
  /\ up' = IF a \in up THEN up \ {a} ELSE up \cup {a}
  /\ UNCHANGED <<env, phase, mode, pool, health, rr, probe, dial, turn>>

-----------------------------------------------------------------------------
(***************************************************************************)
(* Router.Start: checkAll at once and on every tick; each node is dialled, *)
(* and its flag stored when the answer is there.                           *)
(***************************************************************************)
CheckStarts ==
  /\ phase = "serving" /\ Nodes # {}
  /\ probe.pc = "idle"
  /\ probe' = [probe EXCEPT !.pc = "dial", !.i = 1]
  /\ UNCHANGED <<env, phase, mode, pool, health, rr, up, dial, turn>>

ProbeNode ==
  /\ probe.pc = "dial"
  /\ probe' = [probe EXCEPT !.pc = "store", !.ok = pool[probe.i].addr \in up]
  /\ UNCHANGED <<env, phase, mode, pool, health, rr, up, dial, turn>>

\* Mutant: a flag that is down stays down.
StoreHealthDown ==
  /\ probe.pc = "store"
  /\ health' = [health EXCEPT ![probe.i] = @ /\ probe.ok]
  /\ probe' = IF probe.i < Len(pool)
              THEN [pc |-> "dial", i |-> probe.i + 1, ok |-> FALSE]
              ELSE [pc |-> "idle", i |-> 0, ok |-> FALSE]
  /\ UNCHANGED <<env, phase, mode, pool, rr, up, dial, turn>>

StoreHealth ==
  /\ probe.pc = "store"
  /\ health' = [health EXCEPT ![probe.i] = probe.ok]
  /\ probe' = IF probe.i < Len(pool)
              THEN [pc |-> "dial", i |-> probe.i + 1, ok |-> FALSE]
              ELSE [pc |-> "idle", i |-> 0, ok |-> FALSE]
  /\ UNCHANGED <<env, phase, mode, pool, rr, up, dial, turn>>

-----------------------------------------------------------------------------
(***************************************************************************)
(* Router.DialContext.  Outside pool mode there is nothing to choose, and  *)
(* the connection succeeds or fails.                                       *)
(***************************************************************************)
DialStarts(d) ==
  /\ phase = "serving"
  /\ dial[d].pc = "idle"
  /\ dial' = [dial EXCEPT ![d] =
        IF mode = "pool"
        THEN [@ EXCEPT !.pc = IF pool = <<>> THEN "noroute" ELSE "load", !.i = 1]
        ELSE [@ EXCEPT !.pc = IF mode \in Modes THEN "connect" ELSE "noroute"]]
  /\ UNCHANGED <<env, phase, mode, pool, health, rr, up, probe, turn>>

LoadFlag(d) ==
  /\ dial[d].pc = "load"
  /\ LET q    == dial[d]
         seen == IF health[q.i] THEN q.healthy \cup {q.i} ELSE q.healthy
     IN  dial' = [dial EXCEPT ![d].healthy = seen,
                              ![d].pc = IF q.i < Len(pool) THEN "load" ELSE "pick",
                              ![d].i  = IF q.i < Len(pool) THEN q.i + 1 ELSE 0]
  /\ UNCHANGED <<env, phase, mode, pool, health, rr, up, probe, turn>>

\* The history of a pick: it counts towards the current turn if the candidates
\* are the same, the turn is not over and the counter has not wrapped.
Counted(S, i) ==
  LET goes == turn.cands = S /\ rr' # 0 /\ SumFunctionOnSet(turn.picks, S) < Total(S)
      old  == IF goes THEN turn.picks ELSE [j \in S |-> 0]
  IN  turn' = [cands |-> S, picks |-> [old EXCEPT ![i] = @ + 1]]

\* pickNode once it has the flags.
Pick(d) ==
  /\ dial[d].pc = "pick"
  /\ LET S == Candidates(dial[d].healthy)
         i == NodeAt(S, rr' % Sum(S))
     IN  /\ Sum(S) > 0
         /\ rr' = (rr + 1) % CounterRange
         /\ dial' = [dial EXCEPT ![d].pc = "connect", ![d].healthy = {}, ![d].node = i]
         /\ Counted(S, i)
  /\ UNCHANGED <<env, phase, mode, pool, health, up, probe>>

\* The weights add up to an int that is not positive: "pool has invalid weight setup".
PickFails(d) ==
  /\ dial[d].pc = "pick"
  /\ Sum(Candidates(dial[d].healthy)) <= 0
  /\ dial' = [dial EXCEPT ![d].pc = "noroute", ![d].healthy = {}]
  /\ UNCHANGED <<env, phase, mode, pool, health, rr, up, probe, turn>>

\* One attempt, at one node: a handler whose dial fails gives up.
Connect(d) ==
  /\ dial[d].pc = "connect"
  /\ \E ok \in IF dial[d].node = 0 THEN BOOLEAN ELSE {pool[dial[d].node].addr \in up} :
        dial' = [dial EXCEPT ![d] = IF ok THEN IdleDial ELSE [IdleDial EXCEPT !.pc = "failed"]]
  /\ UNCHANGED <<env, phase, mode, pool, health, rr, up, probe, turn>>

DialFails(d) ==
  /\ dial[d].pc \in {"failed", "noroute"}
  /\ dial' = [dial EXCEPT ![d] = IdleDial]
  /\ UNCHANGED <<env, phase, mode, pool, health, rr, up, probe, turn>>

Prober == CheckStarts \/ ProbeNode \/ StoreHealth

Dials(d) == LoadFlag(d) \/ Pick(d) \/ PickFails(d) \/ Connect(d) \/ DialFails(d)

Next ==
  \/ Boot \/ Prober
  \/ \E a \in Addrs \ Portless : NodeFlips(a)
  \/ \E d \in Dialers : DialStarts(d) \/ Dials(d)

Spec == Init /\ [][Next]_vars

\* The process boots, the ticker ticks, and goroutines are scheduled.
FairSpec == Spec /\ WF_vars(Boot) /\ WF_vars(Prober) /\ \A d \in Dialers : WF_vars(Dials(d))

-----------------------------------------------------------------------------
(***************************************************************************)
(* What the way out keeps.                                                 *)
(***************************************************************************)

\* A process that serves can always choose where to connect, whichever of its nodes
\* are flagged, if all its weights together fit an int: what Load and NewRouter
\* have compared without regard to case, DialContext finds spelt as it compares it;
\* a pool has nodes though items may be blank; and no sum of weights overflows to
\* what pickNode refuses.
RouteAlwaysFound == Fits(Nodes) => \A d \in Dialers : dial[d].pc # "noroute"

\* As long as the candidates stay the same, a full turn of the counter gives each
\* node as many dials as its weight, whoever dials and wherever the counter
\* stands (pickNode; only the wrap of the 64-bit counter starts a new turn), if
\* the candidates' weights fit an int.
SharesFollowWeights ==
  Fits(turn.cands) => \A i \in turn.cands : turn.picks[i] <= Weight[i]

\* Failover by health checks: once nodes stop going down and coming back, and one
\* of them is up, dials stop failing, whatever the flags and the handlers had
\* read when that began (checkAll on every tick, and pickNode's choice among
\* the flagged nodes).
FailoverSettles ==
  \A U \in SUBSET (Addrs \ Portless) :
     <>[](up = U /\ U \cap PoolAddrs # {} /\ Fits(Nodes))
        => <>[](\A d \in Dialers : dial[d].pc \notin {"failed", "noroute"})

Dialling(S) ==
  \E d \in Dialers : dial[d].pc = "connect" /\ dial[d].node # 0 /\ pool[dial[d].node].addr \in S

\* When all nodes that can be dialled stay up and handlers keep dialling, each of
\* them is dialled again and again, also one that was down before: its flag comes
\* back, and the shared counter visits it.
EveryNodeServes ==
  \A a \in Addrs \ Portless :
     <>[](up = Addrs \ Portless /\ a \in PoolAddrs /\ Fits(Nodes)) /\ []<>Dialling(PoolAddrs)
        => []<>Dialling({a})
=============================================================================
