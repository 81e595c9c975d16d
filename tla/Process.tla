------------------------------ MODULE Process ------------------------------
(***************************************************************************)
(* The life of the process: cmd/proxyd/main.go brings it up, runs three    *)
(* servers and takes it down in the order of its deferred calls, and       *)
(* internal/traffic/recorder.go writes the domain log meanwhile.           *)
(*                                                                         *)
(* A handler is only what the log sees of it: module ProxyCenter follows   *)
(* one in detail.  The enforcer and the health checks, which main neither  *)
(* waits for nor is delayed by, are in ProxyCenter and UpstreamPool.       *)
(***************************************************************************)
EXTENDS Integers, FiniteSets, Sequences, SequencesExt

CONSTANTS Handlers,   \* handlers that may be alive at once
          Buffer,     \* capacity of the recorder's channel (2048 in main)
          MaxEvents,  \* bound: domain events recorded
          MaxBoots    \* bound: processes run one after the other on the same database

ASSUME ProcessAssumption == {Buffer, MaxEvents, MaxBoots} \subseteq Nat \ {0}

VARIABLES main,       \* where main() is
          boots,      \* processes so far
          ctx,        \* of signal.NotifyContext
          cancelled,  \* cancel() of runCtx was called
          start,      \* the goroutine that runs a server's Start
          errCh,      \* errors in the channel
          store,      \* the database handle
          recorder,   \* its loop
          live,       \* the handlers
          queue, hand, \* events in Recorder.ch, and the one in handle()
          log,        \* the rows of domain_logs
          recorded,   \* events recorded so far
          lossy       \* an event was dropped somewhere

process == <<main, boots, ctx, cancelled, start, errCh, store>>
events == <<queue, hand, log, recorded, lossy>>
vars == <<process, recorder, live, events>>

Servers == {"http", "socks5", "web"}
BootSteps == <<"config", "store", "notify", "migrate", "admin", "router">>
Unwinding == {"close recorder", "stop notify", "close store", "exit"}

TypeOK ==
  /\ main \in {"down", "select", "wait"} \cup Unwinding \cup ToSet(BootSteps)
  /\ boots \in 0..MaxBoots
  /\ ctx \in {"none", "live", "done"} /\ cancelled \in BOOLEAN
  /\ start \in [Servers -> {"off", "starting", "listening", "failed", "returned"}]
  /\ errCh \in 0..Cardinality(Servers)
  /\ store \in {"closed", "open"}
  /\ recorder \in {"off", "running", "stopping"}
  /\ live \in [Handlers -> {"none", "accepted", "admitted"}]
  /\ recorded \in 0..MaxEvents /\ lossy \in BOOLEAN
  /\ {queue, hand, log} \subseteq UNION {[1..n -> 1..recorded] : n \in 0..recorded}
  /\ Len(queue) <= Buffer /\ Len(hand) <= 1

Init ==
  /\ main = "down" /\ boots = 0
  /\ ctx = "none" /\ cancelled = FALSE
  /\ start = [s \in Servers |-> "off"] /\ errCh = 0
  /\ store = "closed" /\ recorder = "off"
  /\ live = [h \in Handlers |-> "none"]
  /\ queue = <<>> /\ hand = <<>> /\ log = <<>> /\ recorded = 0 /\ lossy = FALSE

RunDone == ctx = "done" \/ cancelled

-----------------------------------------------------------------------------
(***************************************************************************)
(* Coming up.                                                              *)
(***************************************************************************)

\* The process is gone: with it all but the database, in which the statement
\* under way may or may not have taken effect.
Die ==
  /\ main' = "down"
  /\ ctx' = "none" /\ cancelled' = FALSE
  /\ start' = [s \in Servers |-> "off"] /\ errCh' = 0
  /\ store' = "closed" /\ recorder' = "off"
  /\ live' = [h \in Handlers |-> "none"]
  /\ queue' = <<>> /\ hand' = <<>> /\ log' \in {log, log \o hand}
  /\ lossy' = (lossy \/ queue \o hand # <<>>)
  /\ UNCHANGED <<boots, recorded>>

Launch ==
  /\ main = "down" /\ boots < MaxBoots
  /\ main' = "config" /\ boots' = boots + 1
  /\ UNCHANGED <<ctx, cancelled, start, errCh, store, recorder, live, events>>

\* One step of main() before its select, and what it has then set up.  Migrate and
\* EnsureAdmin do not succeed under a context that is done.
BootStep ==
  \E i \in DOMAIN BootSteps :
     LET step == BootSteps[i]
     IN  /\ main = step
         /\ step \in {"migrate", "admin"} => ctx = "live"
         /\ main' = IF step = "router" THEN "select" ELSE BootSteps[i + 1]
         /\ store' = IF step = "store" THEN "open" ELSE store
         /\ ctx' = IF step = "notify" THEN "live" ELSE ctx
         /\ recorder' = IF step = "admin" THEN "running" ELSE recorder
         /\ start' = IF step = "router" THEN [s \in Servers |-> "starting"] ELSE start
         /\ UNCHANGED <<boots, cancelled, errCh, live, events>>

\* log.Fatalf: no deferred call runs.
BootFails == main \in ToSet(BootSteps) \ {"notify"} /\ Die

-----------------------------------------------------------------------------
(***************************************************************************)
(* The three servers.                                                      *)
(***************************************************************************)
Starts(s, from, to) ==
  /\ start[s] \in from
  /\ start' = [start EXCEPT ![s] = to]
  /\ UNCHANGED <<main, boots, ctx, cancelled, store, recorder, live, events>>

\* net.Listen; a server of net/http that was shut down before does not listen.
Listens(s) == Starts(s, {"starting"}, "listening") /\ UNCHANGED errCh

\* The address is taken, or, under net/http only, Accept has failed for good.
Fails(s) ==
  Starts(s, {"starting"} \cup (IF s = "socks5" THEN {} ELSE {"listening"}), "failed")
    /\ UNCHANGED errCh

\* The context is done: Shutdown, or the closed listener, ends the loop at once;
\* the connections are not waited for.  The SOCKS5 server first listens.
Closes(s) ==
  RunDone /\ Starts(s, {"listening"} \cup (IF s = "socks5" THEN {} ELSE {"starting"}), "returned")
    /\ UNCHANGED errCh

\* Mutant: the room of errCh, one.
ErrRoomOne == 1

\* The capacity of errCh.
ErrRoom == 3

\* errCh <- err, which blocks while the channel is full; then wg.Done.
Reports(s) == errCh < ErrRoom /\ Starts(s, {"failed"}, "returned") /\ errCh' = errCh + 1

-----------------------------------------------------------------------------
(***************************************************************************)
(* Going down.                                                             *)
(***************************************************************************)

\* SIGINT or SIGTERM: only cancels ctx once NotifyContext has been called and until
\* its stop is; else it ends the process.  A second one changes nothing.
Signal ==
  /\ main # "down"
  /\ IF ctx = "none"
     THEN Die
     ELSE /\ ctx' = "done"
          /\ UNCHANGED <<main, boots, cancelled, start, errCh, store, recorder, live, events>>

\* SIGKILL, or the machine stops.
Killed == main # "down" /\ Die

\* The select, and cancel().
Wakes ==
  /\ main = "select"
  /\ \/ ctx = "done" /\ UNCHANGED errCh
     \/ errCh > 0 /\ errCh' = errCh - 1
  /\ main' = "wait" /\ cancelled' = TRUE
  /\ UNCHANGED <<boots, ctx, start, store, recorder, live, events>>

\* Mutant: wg.Wait is left out.
WaitsForNone ==
  /\ main = "wait"
  /\ main' = "close recorder"
  /\ UNCHANGED <<boots, ctx, cancelled, start, errCh, store, recorder, live, events>>

\* wg.Wait.
Waits ==
  /\ main = "wait" /\ \A s \in Servers : start[s] = "returned"
  /\ main' = "close recorder"
  /\ UNCHANGED <<boots, ctx, cancelled, start, errCh, store, recorder, live, events>>

\* The deferred calls, last first; then main returns.
Unwind ==
  \/ /\ main = "close recorder" /\ main' = "stop notify" /\ recorder' = "stopping"
     /\ UNCHANGED <<boots, ctx, cancelled, start, errCh, store, live, events>>
  \/ /\ main = "stop notify" /\ main' = "close store" /\ ctx' = "none"
     /\ UNCHANGED <<boots, cancelled, start, errCh, store, recorder, live, events>>
  \/ /\ main = "close store" /\ main' = "exit" /\ store' = "closed"
     /\ UNCHANGED <<boots, ctx, cancelled, start, errCh, recorder, live, events>>
  \/ main = "exit" /\ Die

-----------------------------------------------------------------------------
(***************************************************************************)
(* Handlers: net/http's and SOCKS5's run on though their Start has         *)
(* returned, until the process is gone.                                    *)
(***************************************************************************)
Moves(h, from, to) ==
  live[h] \in from /\ live' = [live EXCEPT ![h] = to] /\ UNCHANGED <<process, recorder>>

Accepted(h) ==
  /\ \E s \in Servers \ {"web"} : start[s] = "listening"
  /\ Moves(h, {"none"}, "accepted") /\ UNCHANGED events

\* AuthenticateAndAuthorize reads the account.
Admitted(h) == store = "open" /\ Moves(h, {"accepted"}, "admitted") /\ UNCHANGED events

Leaves(h) == Moves(h, {"accepted", "admitted"}, "none") /\ UNCHANGED events

\* Mutant: the queue has no bound.
RecordAlways(h) ==
  /\ live[h] = "admitted" /\ recorded < MaxEvents
  /\ recorded' = recorded + 1
  /\ queue' = Append(queue, recorded + 1)
  /\ UNCHANGED <<process, recorder, live, hand, log, lossy>>

\* Recorder.RecordDomain, which never waits.
RecordDomain(h) ==
  /\ live[h] = "admitted" /\ recorded < MaxEvents
  /\ recorded' = recorded + 1
  /\ IF Len(queue) < Buffer
     THEN queue' = Append(queue, recorded + 1) /\ UNCHANGED lossy
     ELSE lossy' = TRUE /\ UNCHANGED queue
  /\ UNCHANGED <<process, recorder, live, hand, log>>

\* The loop takes the next event, also after Close while it has not chosen to
\* stop; on a closed database LogDomain fails.
Take ==
  /\ recorder # "off" /\ hand = <<>> /\ queue # <<>>
  /\ queue' = Tail(queue)
  /\ IF store = "open" THEN hand' = <<Head(queue)>> /\ UNCHANGED lossy
                       ELSE lossy' = TRUE /\ UNCHANGED hand
  /\ UNCHANGED <<process, recorder, live, log, recorded>>

\* Mutant: an event that could not be written goes back to the queue.
HandleAgain ==
  /\ hand # <<>> /\ hand' = <<>>
  /\ \/ log' = log \o hand /\ UNCHANGED <<queue, lossy>>
     \/ queue' = queue \o hand /\ UNCHANGED <<log, lossy>>
  /\ UNCHANGED <<process, recorder, live, recorded>>

\* LogDomain; its error is dropped with the event (the user is deleted, the five
\* seconds are over, the database is closed).  The log is what was ever inserted:
\* in the database the rows of an account go when the account is deleted (the
\* schema's cascade), and nothing else removes any.
Handle ==
  /\ hand # <<>> /\ hand' = <<>>
  /\ \/ log' = log \o hand /\ UNCHANGED lossy
     \/ lossy' = TRUE /\ UNCHANGED log
  /\ UNCHANGED <<process, recorder, live, queue, recorded>>

\* The select in loop() has chosen the closed stop channel.
LoopEnds ==
  /\ recorder = "stopping" /\ hand = <<>>
  /\ recorder' = "off"
  /\ UNCHANGED <<process, live, events>>

-----------------------------------------------------------------------------
Main == BootStep \/ BootFails \/ Wakes \/ Waits \/ Unwind

Loop == Take \/ Handle \/ LoopEnds

Next ==
  \/ Launch \/ Main \/ Signal \/ Killed \/ Loop
  \/ \E s \in Servers : Listens(s) \/ Fails(s) \/ Closes(s) \/ Reports(s)
  \/ \E h \in Handlers : Accepted(h) \/ Admitted(h) \/ Leaves(h) \/ RecordDomain(h)

Spec == Init /\ [][Next]_vars

\* Every goroutine of the process is scheduled.  Nothing is assumed of signals,
\* failures, clients, or of whoever launches the process.
FairSpec ==
  /\ Spec
  /\ WF_vars(Main) /\ WF_vars(Loop)
  /\ \A s \in Servers : WF_vars(Closes(s)) /\ WF_vars(Reports(s)) /\ WF_vars(Listens(s))

-----------------------------------------------------------------------------
(***************************************************************************)
(* What main and the recorder keep.                                        *)
(***************************************************************************)

\* While a server starts, listens or has an error to report, the store is open, the
\* recorder takes events, and signals are caught, in spite of the servers' being
\* stopped by the same context that main waits on: no connection is accepted
\* whose account could not be looked up (the order of main's steps, wg.Wait, and
\* the order of its deferred calls).
ServersRunInsideStore ==
  \A s \in Servers :
     start[s] \in {"starting", "listening", "failed"} =>
        store = "open" /\ recorder = "running" /\ ctx # "none"

\* A signal, or the failure of any server, takes the whole process down, whatever
\* the other servers do in the meantime, all three failing at once included: no
\* goroutine waits for ever for room in errCh, nor main for a server that nobody
\* stops, when signals no longer end the process (the select, cancel, wg.Wait and
\* errCh of main).
ShutdownCompletes ==
  (ctx = "done" \/ \E s \in Servers : start[s] = "failed") ~> main = "down"

\* What is in the log, in handle() and in the queue are recorded events in their
\* order, none twice, over restarts too, though the order in which clients record
\* them is not that in which the store answers; and as long as nothing was dropped
\* none is missing from enqueue to the INSERT (enqueue, loop and handle of the
\* Recorder); what becomes of the rows afterwards is not said.
DomainLogInOrder ==
  LET kept == log \o hand \o queue
  IN  /\ \A i, j \in DOMAIN kept : i < j => kept[i] < kept[j]
      /\ ~ lossy => Len(kept) = recorded
=============================================================================
