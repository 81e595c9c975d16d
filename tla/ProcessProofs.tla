---------------------------- MODULE ProcessProofs ----------------------------
(***************************************************************************)
(* Proofs about Process, for every set of handlers, every capacity of the  *)
(* recorder's channel and every number of events and restarts.             *)
(***************************************************************************)
EXTENDS Process, FiniteSetTheorems, SequenceTheorems, TLAPS

Booting == {"config", "store", "notify", "migrate", "admin", "router"}

\* The six steps, and what main goes on with after each.
LEMMA BootStepCases ==
  ASSUME BootStep
  PROVE  /\ \/ main = "config" /\ main' = "store"
            \/ main = "store" /\ main' = "notify"
            \/ main = "notify" /\ main' = "migrate"
            \/ main = "migrate" /\ main' = "admin"
            \/ main = "admin" /\ main' = "router"
            \/ main = "router" /\ main' = "select"
         /\ store' = IF main = "store" THEN "open" ELSE store
         /\ ctx' = IF main = "notify" THEN "live" ELSE ctx
         /\ recorder' = IF main = "admin" THEN "running" ELSE recorder
         /\ start' = IF main = "router" THEN [s \in Servers |-> "starting"] ELSE start
         /\ UNCHANGED <<boots, cancelled, errCh, live, events>>
<1>1. DOMAIN BootSteps = 1..6
  BY DEF BootSteps
<1>2. /\ BootSteps[1] = "config" /\ BootSteps[2] = "store" /\ BootSteps[3] = "notify"
      /\ BootSteps[4] = "migrate" /\ BootSteps[5] = "admin" /\ BootSteps[6] = "router"
  BY DEF BootSteps
<1>3. PICK i \in 1..6 :
         LET step == BootSteps[i]
         IN  /\ main = step
             /\ main' = IF step = "router" THEN "select" ELSE BootSteps[i + 1]
             /\ store' = IF step = "store" THEN "open" ELSE store
             /\ ctx' = IF step = "notify" THEN "live" ELSE ctx
             /\ recorder' = IF step = "admin" THEN "running" ELSE recorder
             /\ start' = IF step = "router" THEN [s \in Servers |-> "starting"] ELSE start
             /\ UNCHANGED <<boots, cancelled, errCh, live, events>>
  BY <1>1 DEF BootStep
<1>4. i \in {1, 2, 3, 4, 5, 6}
  OBVIOUS
<1>5. CASE i = 1  BY <1>2, <1>3, <1>5
<1>6. CASE i = 2  BY <1>2, <1>3, <1>6
<1>7. CASE i = 3  BY <1>2, <1>3, <1>7
<1>8. CASE i = 4  BY <1>2, <1>3, <1>8
<1>9. CASE i = 5  BY <1>2, <1>3, <1>9
<1>10. CASE i = 6 BY <1>2, <1>3, <1>10
<1> QED
  BY <1>4, <1>5, <1>6, <1>7, <1>8, <1>9, <1>10

\* The steps before the select, as a set.
LEMMA BootStepsSet == ToSet(BootSteps) = Booting
<1>1. BootSteps \in Seq(Booting) /\ Len(BootSteps) = 6
  BY DEF BootSteps, Booting
<1>2. ToSet(BootSteps) = {BootSteps[i] : i \in 1..6}
  BY <1>1 DEF ToSet
<1>3. {BootSteps[i] : i \in 1..6} \subseteq Booting
  BY <1>1, ElementOfSeq
<1>4. /\ BootSteps[1] = "config" /\ BootSteps[2] = "store" /\ BootSteps[3] = "notify"
      /\ BootSteps[4] = "migrate" /\ BootSteps[5] = "admin" /\ BootSteps[6] = "router"
  BY DEF BootSteps
<1>5. Booting \subseteq {BootSteps[i] : i \in 1..6}
  <2>1. "config" \in {BootSteps[i] : i \in 1..6} BY <1>4
  <2>2. "store" \in {BootSteps[i] : i \in 1..6} BY <1>4
  <2>3. "notify" \in {BootSteps[i] : i \in 1..6} BY <1>4
  <2>4. "migrate" \in {BootSteps[i] : i \in 1..6} BY <1>4
  <2>5. "admin" \in {BootSteps[i] : i \in 1..6} BY <1>4
  <2>6. "router" \in {BootSteps[i] : i \in 1..6} BY <1>4
  <2> QED BY <2>1, <2>2, <2>3, <2>4, <2>5, <2>6 DEF Booting
<1> QED
  BY <1>2, <1>3, <1>5

-----------------------------------------------------------------------------
(***************************************************************************)
(* Sequences of numbers in increasing order.                               *)
(***************************************************************************)
Increasing(s) == \A i, j \in DOMAIN s : i < j => s[i] < s[j]

\* What is left of an increasing sequence when a piece is taken out is increasing.
LEMMA IncreasingWithout ==
  ASSUME NEW a \in Seq(Nat), NEW b \in Seq(Nat), NEW c \in Seq(Nat),
         Increasing(a \o b \o c)
  PROVE  Increasing(a \o c)
<1> DEFINE ab == a \o b
           all == ab \o c
           ac == a \o c
<1>1. /\ ab \in Seq(Nat) /\ Len(ab) = Len(a) + Len(b)
      /\ \A i \in 1..Len(a) + Len(b) : ab[i] = IF i <= Len(a) THEN a[i] ELSE b[i - Len(a)]
  BY ConcatProperties
<1>2. /\ all \in Seq(Nat) /\ Len(all) = Len(ab) + Len(c)
      /\ \A i \in 1..Len(ab) + Len(c) : all[i] = IF i <= Len(ab) THEN ab[i] ELSE c[i - Len(ab)]
  BY <1>1, ConcatProperties
<1>3. /\ ac \in Seq(Nat) /\ Len(ac) = Len(a) + Len(c)
      /\ \A i \in 1..Len(a) + Len(c) : ac[i] = IF i <= Len(a) THEN a[i] ELSE c[i - Len(a)]
  BY ConcatProperties
<1>4. Len(a) \in Nat /\ Len(b) \in Nat /\ Len(c) \in Nat
  BY LenProperties
<1> DEFINE at(i) == IF i <= Len(a) THEN i ELSE i + Len(b)
<1>5. ASSUME NEW i \in 1..Len(a) + Len(c)
      PROVE  at(i) \in 1..Len(all) /\ ac[i] = all[at(i)]
  <2>1. at(i) \in 1..Len(ab) + Len(c)
    BY <1>1, <1>4
  <2>2. CASE i <= Len(a)
    BY <1>1, <1>2, <1>3, <1>4, <2>1, <2>2
  <2>3. CASE i > Len(a)
    <3>1. ac[i] = c[i - Len(a)]
      BY <1>3, <1>4, <2>3
    <3>2. all[at(i)] = c[at(i) - Len(ab)]
      BY <1>1, <1>2, <1>4, <2>1, <2>3
    <3>3. at(i) - Len(ab) = i - Len(a)
      BY <1>1, <1>4, <2>3
    <3> QED
      BY <1>2, <2>1, <3>1, <3>2, <3>3
  <2> QED
    BY <1>4, <2>2, <2>3
<1>6. \A i, j \in 1..Len(a) + Len(c) : i < j => at(i) < at(j)
  BY <1>4
<1>7. DOMAIN ac = 1..Len(a) + Len(c) /\ DOMAIN all = 1..Len(all)
  BY <1>2, <1>3
<1> HIDE DEF ac, all, at
<1>8. Increasing(all)
  BY DEF all, ab
<1>9. \A i, j \in 1..Len(a) + Len(c) : i < j => ac[i] < ac[j]
  BY <1>5, <1>6, <1>7, <1>8 DEF Increasing
<1> QED
  BY <1>7, <1>9 DEF Increasing, ac

\* A number larger than all may follow.
LEMMA IncreasingAppend ==
  ASSUME NEW n \in Nat, NEW s \in Seq(1..n), Increasing(s)
  PROVE  Increasing(Append(s, n + 1))
<1>1. s \in Seq(Nat) /\ n + 1 \in Nat
  BY SeqMonotonic
<1>2. /\ Len(Append(s, n + 1)) = Len(s) + 1
      /\ \A i \in 1..Len(s) : Append(s, n + 1)[i] = s[i]
      /\ Append(s, n + 1)[Len(s) + 1] = n + 1
      /\ DOMAIN Append(s, n + 1) = 1..Len(s) + 1
  BY <1>1, AppendProperties, LenProperties
<1>3. Len(s) \in Nat /\ DOMAIN s = 1..Len(s) /\ \A i \in 1..Len(s) : s[i] \in 1..n
  BY LenProperties, ElementOfSeq
<1> QED
  BY <1>2, <1>3 DEF Increasing

\* A sequence is its head and its tail.
LEMMA HeadAndTail ==
  ASSUME NEW S, NEW s \in Seq(S), s # <<>>
  PROVE  s = <<Head(s)>> \o Tail(s)
<1>1. Len(s) \in Nat /\ Len(s) >= 1
  BY EmptySeq, LenProperties
<1>2. SubSeq(s, 1, Len(s)) = <<s[1]>> \o SubSeq(s, 2, Len(s))
  BY <1>1, SubSeqRecursiveFirst
<1> QED
  BY <1>1, <1>2, SubSeqFull, TailIsSubSeq, HeadTailOfSubSeq

-----------------------------------------------------------------------------
(***************************************************************************)
(* The inductive invariant.                                                *)
(***************************************************************************)

\* What main has set up, and not yet taken down, at each of its steps.
Phases ==
  /\ main \in {"down", "select", "wait"} \cup Unwinding \cup Booting
  /\ store \in {"closed", "open"}
  /\ store = "closed" <=> main \in {"down", "config", "store", "exit"}
  /\ ctx \in {"none", "live", "done"}
  /\ ctx = "none" <=> main \in {"down", "config", "store", "notify", "close store", "exit"}
  /\ recorder \in {"off", "running", "stopping"}
  /\ recorder = "running" <=> main \in {"router", "select", "wait", "close recorder"}
  /\ recorder = "stopping" => main \in {"stop notify", "close store", "exit"}
  /\ cancelled \in BOOLEAN
  /\ cancelled <=> main \in {"wait"} \cup Unwinding

\* The servers run between the last step of the start and the end of wg.Wait.
Serving ==
  /\ start \in [Servers -> {"off", "starting", "listening", "failed", "returned"}]
  /\ \A s \in Servers :
        /\ main \in {"down"} \cup Booting => start[s] = "off"
        /\ main \in Unwinding => start[s] = "returned"

Returned == {s \in Servers : start[s] = "returned"}

\* Every error in errCh is that of a server that has reported it and returned.
ErrorsCounted == errCh \in Nat /\ errCh <= Cardinality(Returned)

\* The events are recorded ones, in order; and no more of them than were recorded.
EventsKept ==
  /\ recorded \in 0..MaxEvents /\ lossy \in BOOLEAN
  /\ log \in Seq(1..recorded) /\ hand \in Seq(1..recorded) /\ queue \in Seq(1..recorded)
  /\ Len(hand) <= 1 /\ Len(queue) <= Buffer
  /\ Len(log) + Len(hand) + Len(queue) <= recorded
  /\ ~ lossy => Len(log) + Len(hand) + Len(queue) = recorded
  /\ Increasing(log \o hand \o queue)

MainInv == boots \in 0..MaxBoots /\ Phases /\ Serving /\ ErrorsCounted

HandlersTyped == live \in [Handlers -> {"none", "accepted", "admitted"}]

IndInv == MainInv /\ HandlersTyped /\ EventsKept

\* The bounds are numbers.
LEMMA Bounds == Buffer \in Nat /\ MaxEvents \in Nat /\ MaxBoots \in Nat /\ Buffer >= 1
BY ProcessAssumption

\* There are three servers, so errCh has room for each.
LEMMA ThreeServers ==
  /\ IsFiniteSet(Servers) /\ Cardinality(Servers) = 3
  /\ \A S \in SUBSET Servers : IsFiniteSet(S) /\ Cardinality(S) \in 0..3
<1>1. IsFiniteSet({}) /\ Cardinality({}) = 0
  BY FS_EmptySet
<1>2. IsFiniteSet({"http"}) /\ Cardinality({"http"}) = 1
  BY FS_Singleton
<1>3. IsFiniteSet({"http"} \cup {"socks5"}) /\ Cardinality({"http"} \cup {"socks5"}) = 2
  BY <1>2, FS_AddElement
<1>4. /\ IsFiniteSet(({"http"} \cup {"socks5"}) \cup {"web"})
      /\ Cardinality(({"http"} \cup {"socks5"}) \cup {"web"}) = 3
  BY <1>3, FS_AddElement
<1>5. Servers = ({"http"} \cup {"socks5"}) \cup {"web"}
  BY DEF Servers
<1>6. IsFiniteSet(Servers) /\ Cardinality(Servers) = 3
  BY <1>4, <1>5
<1>7. ASSUME NEW S \in SUBSET Servers
      PROVE  IsFiniteSet(S) /\ Cardinality(S) \in 0..3
  BY <1>6, <1>7, FS_Subset, FS_CardinalityType
<1> QED
  BY <1>6, <1>7

\* A server that has not returned has room in errCh to report its error.
LEMMA RoomToReport ==
  ASSUME ErrorsCounted, NEW s \in Servers, start[s] # "returned"
  PROVE  errCh < ErrRoom
<1>1. Returned \subseteq Servers \ {s}
  BY DEF Returned
<1>2. IsFiniteSet(Servers \ {s}) /\ Cardinality(Servers \ {s}) = 2
  BY ThreeServers, FS_RemoveElement
<1>3. Cardinality(Returned) <= 2 /\ Cardinality(Returned) \in Nat
  BY <1>1, <1>2, FS_Subset, FS_CardinalityType
<1> QED
  BY <1>3 DEF ErrorsCounted, ErrRoom

-----------------------------------------------------------------------------
(***************************************************************************)
(* main and the servers.                                                   *)
(***************************************************************************)

\* The process before it is launched, or after it is gone.
Down ==
  /\ main = "down" /\ ctx = "none" /\ cancelled = FALSE
  /\ start = [s \in Servers |-> "off"] /\ errCh = 0
  /\ store = "closed" /\ recorder = "off"

\* A process that is down satisfies what is kept of main.
LEMMA DownIsFine ==
  ASSUME boots \in 0..MaxBoots, Down
  PROVE  MainInv
<1>1. Phases
  BY DEF Down, Phases, Unwinding, Booting
<1>2. Serving
  BY DEF Down, Serving, Unwinding, Booting
<1>3. ErrorsCounted
  BY ThreeServers DEF Down, ErrorsCounted, Returned
<1> QED
  BY <1>1, <1>2, <1>3 DEF MainInv

\* Nothing of main moves: nothing kept of it is disturbed.
LEMMA MainUndisturbed ==
  ASSUME MainInv, UNCHANGED <<process, recorder>>
  PROVE  MainInv'
BY DEF MainInv, Phases, Serving, ErrorsCounted, Returned, process

\* The process dies, at whatever step.
LEMMA DiePreservesMain ==
  ASSUME MainInv, Die
  PROVE  MainInv'
<1>1. boots' \in 0..MaxBoots
  BY DEF MainInv, Die
<1>2. /\ main' = "down" /\ ctx' = "none" /\ cancelled' = FALSE
      /\ start' = [s \in Servers |-> "off"] /\ errCh' = 0
      /\ store' = "closed" /\ recorder' = "off"
  BY DEF Die
<1>3. Phases'
  BY <1>2 DEF Phases, Unwinding, Booting
<1>4. Serving'
  BY <1>2 DEF Serving, Unwinding, Booting
<1>5. ErrorsCounted'
  BY <1>2, ThreeServers DEF ErrorsCounted, Returned
<1> QED
  BY <1>1, <1>3, <1>4, <1>5 DEF MainInv

\* main goes on by a step that leaves the servers and errCh alone.
LEMMA MainMoves ==
  ASSUME MainInv,
         \/ Launch \/ Waits \/ (Signal /\ ctx # "none") \/ (Unwind /\ main # "exit")
         \/ BootStep /\ main # "router"
  PROVE  MainInv'
<1>1. boots' \in 0..MaxBoots
  <2>1. CASE Launch
    BY <2>1, Bounds DEF MainInv, Launch
  <2>2. CASE ~ Launch
    <3>1. boots' = boots
      BY <2>2, BootStepCases DEF Waits, Signal, Unwind
    <3> QED
      BY <3>1 DEF MainInv
  <2> QED
    BY <2>1, <2>2
<1>2. UNCHANGED <<start, errCh>>
  BY BootStepCases DEF Launch, Waits, Signal, Unwind
<1>3. Phases'
  <2> USE DEF MainInv, Phases, Unwinding, Booting
  <2>1. CASE Launch
    BY <2>1 DEF Launch
  <2>2. CASE Waits
    BY <2>2 DEF Waits
  <2>3. CASE Signal /\ ctx # "none"
    BY <2>3 DEF Signal
  <2>4. CASE Unwind /\ main = "close recorder"
    BY <2>4 DEF Unwind
  <2>5. CASE Unwind /\ main = "stop notify"
    BY <2>5 DEF Unwind
  <2>6. CASE Unwind /\ main = "close store"
    BY <2>6 DEF Unwind
  <2>7. CASE BootStep /\ main = "config"
    BY <2>7, BootStepCases
  <2>8. CASE BootStep /\ main = "store"
    BY <2>8, BootStepCases
  <2>9. CASE BootStep /\ main = "notify"
    BY <2>9, BootStepCases
  <2>10. CASE BootStep /\ main = "migrate"
    BY <2>10, BootStepCases
  <2>11. CASE BootStep /\ main = "admin"
    BY <2>11, BootStepCases
  <2>12. Unwind /\ main # "exit" => main \in {"close recorder", "stop notify", "close store"}
    BY DEF Unwind
  <2>13. BootStep /\ main # "router" =>
           main \in {"config", "store", "notify", "migrate", "admin"}
    BY BootStepCases
  <2> HIDE DEF MainInv, Phases, Unwinding, Booting
  <2> QED
    BY <2>1, <2>2, <2>3, <2>4, <2>5, <2>6, <2>7, <2>8, <2>9, <2>10, <2>11, <2>12, <2>13
<1>4. Serving'
  <2> USE <1>2 DEF MainInv, Serving, Unwinding, Booting
  <2>1. CASE Launch
    BY <2>1 DEF Launch
  <2>2. CASE Waits
    BY <2>2 DEF Waits
  <2>3. CASE Signal /\ ctx # "none"
    BY <2>3 DEF Signal
  <2>4. CASE Unwind /\ main # "exit"
    BY <2>4 DEF Unwind
  <2>5. CASE BootStep /\ main # "router"
    BY <2>5, BootStepCases
  <2> QED
    BY <2>1, <2>2, <2>3, <2>4, <2>5
<1>5. ErrorsCounted'
  BY <1>2 DEF MainInv, ErrorsCounted, Returned
<1> QED
  BY <1>1, <1>3, <1>4, <1>5 DEF MainInv

\* The last step of the start: the servers' goroutines are created.
LEMMA RouterPreservesMain ==
  ASSUME MainInv, BootStep, main = "router"
  PROVE  MainInv'
<1>1. /\ boots' = boots /\ main' = "select" /\ cancelled' = cancelled /\ errCh' = errCh
      /\ store' = store /\ ctx' = ctx /\ recorder' = recorder
      /\ start' = [s \in Servers |-> "starting"]
  BY BootStepCases
<1>2. Phases'
  BY <1>1 DEF MainInv, Phases, Unwinding, Booting
<1>3. Serving'
  BY <1>1 DEF Serving, Unwinding, Booting
<1>4. errCh = 0
  <2>1. Returned = {}
    BY DEF MainInv, Serving, Returned, Booting
  <2> QED
    BY <2>1, FS_EmptySet DEF MainInv, ErrorsCounted
<1>5. ErrorsCounted'
  BY <1>1, <1>4, ThreeServers DEF ErrorsCounted, Returned
<1> QED
  BY <1>1, <1>2, <1>3, <1>5 DEF MainInv

\* The select takes an error, or sees that ctx is done.
LEMMA WakesPreservesMain ==
  ASSUME MainInv, Wakes
  PROVE  MainInv'
<1>1. /\ main = "select" /\ main' = "wait" /\ cancelled' = TRUE
      /\ UNCHANGED <<boots, ctx, start, store, recorder>>
  BY DEF Wakes
<1>2. Phases'
  BY <1>1 DEF MainInv, Phases, Unwinding, Booting
<1>3. Serving'
  BY <1>1 DEF MainInv, Serving, Unwinding, Booting
<1>4. ErrorsCounted'
  BY <1>1, ThreeServers DEF MainInv, ErrorsCounted, Returned, Wakes
<1> QED
  BY <1>1, <1>2, <1>3, <1>4 DEF MainInv

\* A server starts, fails, or returns: main is then at select or at wg.Wait.
LEMMA ServerPreservesMain ==
  ASSUME MainInv, NEW s \in Servers, Listens(s) \/ Fails(s) \/ Closes(s) \/ Reports(s)
  PROVE  MainInv'
<1>1. /\ start[s] \in {"starting", "listening", "failed"}
      /\ \E to \in {"listening", "failed", "returned"} : start' = [start EXCEPT ![s] = to]
      /\ UNCHANGED <<main, boots, ctx, cancelled, store, recorder>>
  BY DEF Listens, Fails, Closes, Reports, Starts
<1>2. PICK to \in {"listening", "failed", "returned"} : start' = [start EXCEPT ![s] = to]
  BY <1>1
<1>3. main \in {"select", "wait"}
  BY <1>1 DEF MainInv, Phases, Serving, Unwinding, Booting
<1>4. Phases'
  BY <1>1 DEF MainInv, Phases
<1>5. Serving'
  BY <1>1, <1>2, <1>3 DEF MainInv, Serving, Unwinding, Booting
<1>6. Returned' = IF to = "returned" THEN Returned \cup {s} ELSE Returned
  BY <1>1, <1>2 DEF MainInv, Serving, Returned
<1>7. s \notin Returned /\ Returned \in SUBSET Servers
  BY <1>1 DEF Returned
<1>8. IsFiniteSet(Returned) /\ Cardinality(Returned) \in Nat
  BY <1>7, ThreeServers, FS_CardinalityType
<1>9. Cardinality(Returned \cup {s}) = Cardinality(Returned) + 1
  BY <1>7, <1>8, FS_AddElement
<1>10. errCh' = errCh \/ (errCh' = errCh + 1 /\ to = "returned")
  <2>1. CASE Reports(s)
    <3>1. start' = [start EXCEPT ![s] = "returned"] /\ errCh' = errCh + 1
      BY <2>1 DEF Reports, Starts
    <3>2. start'[s] = "returned" /\ start'[s] = to
      BY <1>2, <3>1 DEF MainInv, Serving
    <3> QED
      BY <3>1, <3>2
  <2>2. CASE Listens(s) \/ Fails(s) \/ Closes(s)
    BY <2>2 DEF Listens, Fails, Closes
  <2> QED
    BY <2>1, <2>2
<1>11. ErrorsCounted'
  BY <1>6, <1>8, <1>9, <1>10 DEF MainInv, ErrorsCounted
<1> QED
  BY <1>1, <1>4, <1>5, <1>11 DEF MainInv

\* The recorder's loop ends after Close.
LEMMA LoopEndsPreservesMain ==
  ASSUME MainInv, LoopEnds
  PROVE  MainInv'
<1>1. Phases'
  BY DEF MainInv, Phases, LoopEnds, process, Unwinding, Booting
<1> QED
  BY <1>1 DEF MainInv, Serving, ErrorsCounted, Returned, LoopEnds, process

\* Each step keeps what is kept of main.
LEMMA NextPreservesMain == MainInv /\ [Next]_vars => MainInv'
<1> SUFFICES ASSUME MainInv, [Next]_vars PROVE MainInv'
  OBVIOUS
<1>1. CASE Launch
  BY <1>1, MainMoves
<1>2. CASE BootStep
  BY <1>2, MainMoves, RouterPreservesMain
<1>3. CASE BootFails \/ Killed
  BY <1>3, DiePreservesMain DEF BootFails, Killed
<1>4. CASE Wakes
  BY <1>4, WakesPreservesMain
<1>5. CASE Waits
  BY <1>5, MainMoves
<1>6. CASE Unwind
  <2>1. CASE main = "exit"
    BY <1>6, <2>1, DiePreservesMain DEF Unwind
  <2> QED
    BY <1>6, <2>1, MainMoves
<1>7. CASE Signal
  <2>1. CASE ctx = "none"
    BY <1>7, <2>1, DiePreservesMain DEF Signal
  <2> QED
    BY <1>7, <2>1, MainMoves
<1>8. CASE Loop
  BY <1>8, MainUndisturbed, LoopEndsPreservesMain DEF Loop, Take, Handle
<1>9. CASE \E s \in Servers : Listens(s) \/ Fails(s) \/ Closes(s) \/ Reports(s)
  BY <1>9, ServerPreservesMain
<1>10. CASE \E h \in Handlers : Accepted(h) \/ Admitted(h) \/ Leaves(h) \/ RecordDomain(h)
  BY <1>10, MainUndisturbed DEF Accepted, Admitted, Leaves, RecordDomain, Moves
<1>11. CASE UNCHANGED vars
  BY <1>11, MainUndisturbed DEF vars
<1> QED
  BY <1>1, <1>2, <1>3, <1>4, <1>5, <1>6, <1>7, <1>8, <1>9, <1>10, <1>11 DEF Next, Main

-----------------------------------------------------------------------------
(***************************************************************************)
(* The recorder.                                                           *)
(***************************************************************************)

\* The three pieces together, and sequences of recorded events as ones of numbers.
LEMMA KeptTogether ==
  ASSUME EventsKept
  PROVE  /\ recorded \in Nat
         /\ log \in Seq(Nat) /\ hand \in Seq(Nat) /\ queue \in Seq(Nat)
         /\ Len(log) \in Nat /\ Len(hand) \in Nat /\ Len(queue) \in Nat
         /\ log \o hand \o queue \in Seq(1..recorded)
         /\ Len(log \o hand \o queue) = Len(log) + Len(hand) + Len(queue)
<1>1. recorded \in Nat
  BY DEF EventsKept
<1>2. log \in Seq(1..recorded) /\ hand \in Seq(1..recorded) /\ queue \in Seq(1..recorded)
  BY DEF EventsKept
<1>3. (1..recorded) \subseteq Nat
  BY <1>1
<1>4. log \in Seq(Nat) /\ hand \in Seq(Nat) /\ queue \in Seq(Nat)
  BY <1>2, <1>3, SeqMonotonic
<1>5. Len(log) \in Nat /\ Len(hand) \in Nat /\ Len(queue) \in Nat
  BY <1>2, LenProperties
<1>6. log \o hand \in Seq(1..recorded) /\ Len(log \o hand) = Len(log) + Len(hand)
  BY <1>2, ConcatProperties
<1>7. /\ log \o hand \o queue \in Seq(1..recorded)
      /\ Len(log \o hand \o queue) = Len(log \o hand) + Len(queue)
  BY <1>2, <1>6, ConcatProperties
<1> QED
  BY <1>1, <1>4, <1>5, <1>6, <1>7

\* Steps that leave the events alone.
LEMMA EventsUndisturbed ==
  ASSUME EventsKept, UNCHANGED events
  PROVE  EventsKept'
BY DEF EventsKept, events

\* A process that dies leaves the log, with or without the event in handle().
LEMMA DiePreservesEvents ==
  ASSUME EventsKept, Die
  PROVE  EventsKept'
<1> USE DEF EventsKept
<1>1. /\ recorded' = recorded /\ queue' = <<>> /\ hand' = <<>>
      /\ log' = log \/ log' = log \o hand
      /\ lossy' = (lossy \/ queue \o hand # <<>>)
  BY DEF Die
<1>2. <<>> \in Seq(1..recorded) /\ Len(<<>>) = 0
  BY EmptySeq
<1>3. log' \in Seq(1..recorded) /\ Len(log') \in {Len(log), Len(log) + Len(hand)}
  BY <1>1, ConcatProperties
<1>4. log' \o <<>> \o <<>> = log'
  <2>1. log' \o <<>> = log'
    BY <1>3, ConcatEmptySeq
  <2> QED
    BY <2>1
<1>5. Increasing(log \o hand) /\ Increasing(log)
  <2>1. log \in Seq(Nat) /\ hand \in Seq(Nat) /\ queue \in Seq(Nat) /\ <<>> \in Seq(Nat)
    BY KeptTogether, EmptySeq
  <2>2. log \o hand \in Seq(Nat)
    BY <2>1, ConcatProperties
  <2>3. (log \o hand) \o queue \o <<>> = log \o hand \o queue
    BY <2>1, <2>2, ConcatProperties, ConcatEmptySeq
  <2>4. Increasing((log \o hand) \o <<>>)
    BY <2>1, <2>2, <2>3, IncreasingWithout
  <2>5. Increasing(log \o hand)
    BY <2>2, <2>4, ConcatEmptySeq
  <2>6. log \o hand \o <<>> = log \o hand
    BY <2>2, ConcatEmptySeq
  <2>7. Increasing(log \o <<>>)
    BY <2>1, <2>5, <2>6, IncreasingWithout
  <2> QED
    BY <2>1, <2>5, <2>7, ConcatEmptySeq
<1>6. ~ lossy' => ~ lossy /\ Len(queue) = 0 /\ Len(hand) = 0
  <2>1. ASSUME queue \o hand = <<>> PROVE queue = <<>> /\ hand = <<>>
    BY <2>1, ConcatEqualIffEmpty
  <2> QED
    BY <1>1, <1>2, <2>1
<1>7. Len(log) \in Nat /\ Len(hand) \in Nat /\ Len(queue) \in Nat
  BY KeptTogether
<1>8. Increasing((log \o hand \o queue)')
  BY <1>1, <1>4, <1>5
<1>9. /\ Len(log') <= recorded /\ Len(log') \in Nat
      /\ ~ lossy' => Len(log') = recorded
  BY <1>1, <1>3, <1>6, <1>7
<1>10. Len(hand') = 0 /\ Len(queue') = 0
  BY <1>1, <1>2
<1>11. lossy' \in BOOLEAN /\ recorded' \in 0..MaxEvents
  BY <1>1
<1>12. /\ log' \in Seq(1..recorded') /\ hand' \in Seq(1..recorded')
       /\ queue' \in Seq(1..recorded')
  BY <1>1, <1>2, <1>3
<1> QED
  BY <1>1, <1>8, <1>9, <1>10, <1>11, <1>12, Bounds

\* RecordDomain puts a new event last, or drops it.
LEMMA RecordPreservesEvents ==
  ASSUME EventsKept, NEW h \in Handlers, RecordDomain(h)
  PROVE  EventsKept'
<1>1. /\ recorded' = recorded + 1 /\ recorded < MaxEvents
      /\ log' = log /\ hand' = hand
      /\ \/ Len(queue) < Buffer /\ queue' = Append(queue, recorded + 1) /\ lossy' = lossy
         \/ queue' = queue /\ lossy' = TRUE
  BY DEF RecordDomain
<1>2. recorded \in Nat /\ recorded' \in 0..MaxEvents /\ lossy' \in BOOLEAN
  <2>1. recorded \in 0..MaxEvents /\ lossy \in BOOLEAN
    BY DEF EventsKept
  <2>2. recorded \in Nat /\ recorded' \in 0..MaxEvents
    BY <1>1, <2>1, Bounds
  <2>3. lossy' \in BOOLEAN
    BY <1>1, <2>1
  <2> QED
    BY <2>2, <2>3
<1>3. (1..recorded) \subseteq 1..recorded' /\ recorded + 1 \in 1..recorded'
  BY <1>1, <1>2
<1>4. log \in Seq(1..recorded') /\ hand \in Seq(1..recorded') /\ queue \in Seq(1..recorded')
  BY <1>3, SeqMonotonic DEF EventsKept
<1>5. Len(log) \in Nat /\ Len(hand) \in Nat /\ Len(queue) \in Nat
  BY KeptTogether
<1>6. CASE queue' = queue /\ lossy' = TRUE
  <2>1. Increasing((log \o hand \o queue)')
    BY <1>1, <1>6 DEF EventsKept
  <2> QED
    BY <1>1, <1>2, <1>4, <1>5, <1>6, <2>1 DEF EventsKept
<1>7. CASE Len(queue) < Buffer /\ queue' = Append(queue, recorded + 1) /\ lossy' = lossy
  <2>1. queue' \in Seq(1..recorded') /\ Len(queue') = Len(queue) + 1
    BY <1>3, <1>4, <1>7, AppendProperties
  <2>2. Increasing(Append(log \o hand \o queue, recorded + 1))
    BY <1>2, KeptTogether, IncreasingAppend DEF EventsKept
  <2>3. Append(log \o hand \o queue, recorded + 1) = log \o hand \o queue'
    <3>1. queue' = queue \o <<recorded + 1>>
      BY <1>3, <1>4, <1>7, AppendIsConcat
    <3>2. log \o hand \in Seq(1..recorded') /\ <<recorded + 1>> \in Seq(1..recorded')
      BY <1>3, <1>4, ConcatProperties
    <3>3. (log \o hand) \o (queue \o <<recorded + 1>>) = (log \o hand \o queue) \o <<recorded + 1>>
      BY <1>4, <3>2, ConcatAssociative
    <3>4. log \o hand \o queue \in Seq(1..recorded')
      BY <1>4, <3>2, ConcatProperties
    <3>5. Append(log \o hand \o queue, recorded + 1) = (log \o hand \o queue) \o <<recorded + 1>>
      BY <1>3, <3>4, AppendIsConcat
    <3> QED
      BY <3>1, <3>3, <3>5
  <2>4. Increasing((log \o hand \o queue)')
    BY <1>1, <2>2, <2>3
  <2>5. /\ Len(queue') <= Buffer
        /\ Len(log') + Len(hand') + Len(queue') <= recorded'
        /\ ~ lossy' => Len(log') + Len(hand') + Len(queue') = recorded'
        /\ Len(hand') <= 1
    <3>1. /\ Len(log) + Len(hand) + Len(queue) <= recorded
          /\ ~ lossy => Len(log) + Len(hand) + Len(queue) = recorded
          /\ Len(hand) <= 1
      BY DEF EventsKept
    <3> QED
      BY <1>1, <1>2, <1>5, <1>7, <2>1, <3>1, Bounds
  <2> QED
    BY <1>1, <1>2, <1>4, <2>1, <2>4, <2>5 DEF EventsKept
<1> QED
  BY <1>1, <1>6, <1>7

\* The loop takes the first event of the queue, which follows those in the log.
LEMMA TakePreservesEvents ==
  ASSUME EventsKept, Take
  PROVE  EventsKept'
<1>1. /\ hand = <<>> /\ queue # <<>> /\ queue' = Tail(queue)
      /\ log' = log /\ recorded' = recorded
      /\ \/ hand' = <<Head(queue)>> /\ lossy' = lossy
         \/ hand' = <<>> /\ lossy' = TRUE
  BY DEF Take
<1>2. /\ Head(queue) \in 1..recorded /\ Tail(queue) \in Seq(1..recorded)
      /\ Len(Tail(queue)) = Len(queue) - 1
  BY <1>1, HeadTailProperties DEF EventsKept
<1>3. /\ Len(<<>>) = 0 /\ <<>> \in Seq(1..recorded)
      /\ Len(<<Head(queue)>>) = 1 /\ <<Head(queue)>> \in Seq(1..recorded)
  BY <1>2, EmptySeq
<1>4. /\ recorded \in Nat /\ log \in Seq(Nat) /\ queue \in Seq(Nat)
      /\ Len(log) \in Nat /\ Len(queue) \in Nat
      /\ log \in Seq(1..recorded) /\ queue \in Seq(1..recorded)
  BY KeptTogether DEF EventsKept
<1>5. Tail(queue) \in Seq(Nat) /\ <<Head(queue)>> \in Seq(Nat)
  <2>1. (1..recorded) \subseteq Nat
    BY <1>4
  <2> QED
    BY <1>2, <1>3, <2>1, SeqMonotonic
<1>6. log \o <<>> = log
  BY <1>4, ConcatEmptySeq
<1>7. queue = <<Head(queue)>> \o Tail(queue)
  BY <1>1, <1>4, HeadAndTail
<1>8. log \o <<Head(queue)>> \o Tail(queue) = log \o queue
  <2>1. (log \o <<Head(queue)>>) \o Tail(queue) = log \o (<<Head(queue)>> \o Tail(queue))
    <3>1. /\ log \in Seq(Nat) /\ <<Head(queue)>> \in Seq(Nat) /\ Tail(queue) \in Seq(Nat)
      BY <1>4, <1>5
    <3> QED
      BY <3>1, ConcatAssociative
  <2> QED
    BY <1>7, <2>1
<1>9. Increasing(log \o queue)
  BY <1>1, <1>6 DEF EventsKept
<1>10. Increasing(log \o Tail(queue))
  BY <1>4, <1>5, <1>8, <1>9, IncreasingWithout
<1>11. Increasing((log \o hand \o queue)')
  <2>1. CASE hand' = <<Head(queue)>>
    BY <1>1, <1>8, <1>9, <2>1
  <2>2. CASE hand' = <<>>
    BY <1>1, <1>6, <1>10, <2>2
  <2> QED
    BY <1>1, <2>1, <2>2
<1>12. hand' \in Seq(1..recorded) /\ Len(hand') <= 1 /\ Len(hand') \in Nat
  <2>1. CASE hand' = <<>>
    BY <1>3, <2>1
  <2>2. CASE hand' = <<Head(queue)>>
    BY <1>3, <2>2
  <2> QED
    BY <1>1, <2>1, <2>2
<1>13. /\ Len(log) + Len(hand') + Len(Tail(queue)) <= recorded
       /\ ~ lossy' => Len(log) + Len(hand') + Len(Tail(queue)) = recorded
  <2>1. Len(log) + Len(queue) <= recorded /\ (~ lossy => Len(log) + Len(queue) = recorded)
    BY <1>1, <1>3, <1>4 DEF EventsKept
  <2>2. CASE hand' = <<Head(queue)>> /\ lossy' = lossy
    <3>1. Len(hand') = 1
      BY <1>3, <2>2
    <3>2. /\ Len(Tail(queue)) = Len(queue) - 1 /\ lossy' = lossy
          /\ recorded \in Nat /\ Len(log) \in Nat /\ Len(queue) \in Nat
      BY <1>2, <1>4, <2>2
    <3>3. Len(log) + 1 + (Len(queue) - 1) = Len(log) + Len(queue)
      BY <3>2
    <3>4. Len(log) + Len(hand') + Len(Tail(queue)) = Len(log) + Len(queue)
      BY <3>1, <3>2, <3>3
    <3> QED
      BY <2>1, <3>2, <3>4
  <2>3. CASE hand' = <<>> /\ lossy' = TRUE
    <3>1. Len(hand') = 0
      BY <1>3, <2>3
    <3> QED
      BY <1>2, <1>4, <2>1, <2>3, <3>1
  <2> QED
    BY <1>1, <2>2, <2>3
<1>14. Len(Tail(queue)) <= Buffer
  <2>1. Len(queue) <= Buffer
    BY DEF EventsKept
  <2> QED
    BY <1>2, <1>4, <2>1, Bounds
<1>15. lossy' \in BOOLEAN
  BY <1>1 DEF EventsKept
<1> QED
  BY <1>1, <1>2, <1>4, <1>11, <1>12, <1>13, <1>14, <1>15 DEF EventsKept

\* handle() writes its event to the end of the log, or drops it.
LEMMA HandlePreservesEvents ==
  ASSUME EventsKept, Handle
  PROVE  EventsKept'
<1>1. /\ hand # <<>> /\ hand' = <<>> /\ queue' = queue /\ recorded' = recorded
      /\ \/ log' = log \o hand /\ lossy' = lossy
         \/ log' = log /\ lossy' = TRUE
  BY DEF Handle
<1>2. /\ recorded \in Nat
      /\ log \in Seq(Nat) /\ hand \in Seq(Nat) /\ queue \in Seq(Nat)
      /\ Len(log) \in Nat /\ Len(hand) \in Nat /\ Len(queue) \in Nat
      /\ log \in Seq(1..recorded) /\ hand \in Seq(1..recorded) /\ queue \in Seq(1..recorded)
  BY KeptTogether DEF EventsKept
<1>3. <<>> \in Seq(1..recorded) /\ Len(<<>>) = 0
  BY EmptySeq
<1>4. log \o hand \in Seq(1..recorded) /\ Len(log \o hand) = Len(log) + Len(hand)
  BY <1>2, ConcatProperties
<1>5. (log \o hand) \o <<>> = log \o hand /\ log \o <<>> = log
  BY <1>2, <1>4, ConcatEmptySeq
<1>6. Increasing(log \o hand \o queue) /\ Increasing(log \o queue)
  BY <1>2, IncreasingWithout DEF EventsKept
<1>7. Increasing((log \o hand \o queue)')
  BY <1>1, <1>5, <1>6
<1>8. log' \in Seq(1..recorded) /\ Len(log') + Len(queue) <= recorded
      /\ (~ lossy' => Len(log') + Len(queue) = recorded) /\ Len(log') \in Nat
  <2>1. /\ Len(log) + Len(hand) + Len(queue) <= recorded
        /\ ~ lossy => Len(log) + Len(hand) + Len(queue) = recorded
    BY DEF EventsKept
  <2>2. CASE log' = log \o hand /\ lossy' = lossy
    BY <1>2, <1>4, <2>1, <2>2
  <2>3. CASE log' = log /\ lossy' = TRUE
    BY <1>2, <2>1, <2>3
  <2> QED
    BY <1>1, <2>2, <2>3
<1>9. recorded \in 0..MaxEvents /\ Len(queue) <= Buffer /\ lossy' \in BOOLEAN
  BY <1>1 DEF EventsKept
<1>10. /\ hand' \in Seq(1..recorded) /\ Len(hand') <= 1
       /\ Len(log') + Len(hand') + Len(queue) = Len(log') + Len(queue)
  BY <1>1, <1>2, <1>3, <1>8
<1>11. /\ Len(log') + Len(hand') + Len(queue) <= recorded
       /\ ~ lossy' => Len(log') + Len(hand') + Len(queue) = recorded
  BY <1>8, <1>10
<1> QED
  BY <1>1, <1>2, <1>7, <1>8, <1>9, <1>10, <1>11 DEF EventsKept

\* Each step keeps what is kept of the events.
LEMMA NextPreservesEvents == EventsKept /\ [Next]_vars => EventsKept'
<1> SUFFICES ASSUME EventsKept, [Next]_vars PROVE EventsKept'
  OBVIOUS
<1>1. CASE UNCHANGED events
  BY <1>1, EventsUndisturbed
<1>2. CASE Die
  BY <1>2, DiePreservesEvents
<1>3. CASE Take
  BY <1>3, TakePreservesEvents
<1>4. CASE Handle
  BY <1>4, HandlePreservesEvents
<1>5. CASE \E h \in Handlers : RecordDomain(h)
  BY <1>5, RecordPreservesEvents
<1>6. Main \/ Launch \/ Signal \/ Killed => UNCHANGED events \/ Die
  <2>1. BootStep => UNCHANGED events
    BY BootStepCases
  <2> QED
    BY <2>1 DEF Main, Launch, Signal, Killed, BootFails, Wakes, Waits, Unwind
<1>7. LoopEnds => UNCHANGED events
  BY DEF LoopEnds
<1>8. \A s \in Servers : Listens(s) \/ Fails(s) \/ Closes(s) \/ Reports(s) => UNCHANGED events
  BY DEF Listens, Fails, Closes, Reports, Starts
<1>9. \A h \in Handlers : Accepted(h) \/ Admitted(h) \/ Leaves(h) => UNCHANGED events
  BY DEF Accepted, Admitted, Leaves
<1>10. UNCHANGED vars => UNCHANGED events
  BY DEF vars
<1> QED
  BY <1>1, <1>2, <1>3, <1>4, <1>5, <1>6, <1>7, <1>8, <1>9, <1>10 DEF Next, Loop

-----------------------------------------------------------------------------
(***************************************************************************)
(* The results.                                                            *)
(***************************************************************************)

\* The initial state: nothing runs, nothing is recorded.
THEOREM InitEstablishesInv == Init => IndInv
<1> SUFFICES ASSUME Init PROVE IndInv
  OBVIOUS
<1>1. MainInv
  <2>1. Down
    BY DEF Init, Down
  <2>2. boots \in 0..MaxBoots
    BY Bounds DEF Init
  <2> QED
    BY <2>1, <2>2, DownIsFine
<1>2. HandlersTyped
  BY DEF Init, HandlersTyped
<1>3. EventsKept
  <2>1. <<>> \in Seq(1..0) /\ Len(<<>>) = 0 /\ <<>> \o <<>> \o <<>> = <<>>
    BY EmptySeq, ConcatEmptySeq
  <2>2. Increasing(<<>>)
    BY DEF Increasing
  <2>3. Increasing(log \o hand \o queue)
    BY <2>1, <2>2 DEF Init
  <2>4. /\ recorded = 0 /\ lossy = FALSE /\ log = <<>> /\ hand = <<>> /\ queue = <<>>
    BY DEF Init
  <2>5. 0 \in 0..MaxEvents /\ 0 <= Buffer
    BY Bounds
  <2>6. Len(log) + Len(hand) + Len(queue) = 0
    BY <2>1, <2>4
  <2>7. /\ log \in Seq(1..recorded) /\ hand \in Seq(1..recorded) /\ queue \in Seq(1..recorded)
        /\ Len(hand) = 0 /\ Len(queue) = 0
    BY <2>1, <2>4
  <2> QED
    <3>1. /\ recorded \in 0..MaxEvents /\ lossy \in BOOLEAN
          /\ Len(hand) <= 1 /\ Len(queue) <= Buffer
          /\ Len(log) + Len(hand) + Len(queue) <= recorded
          /\ Len(log) + Len(hand) + Len(queue) = recorded
      <4>1. recorded \in 0..MaxEvents /\ lossy \in BOOLEAN
        BY <2>4, <2>5
      <4>2. Len(hand) <= 1 /\ Len(queue) <= Buffer
        BY <2>5, <2>7
      <4>3. Len(log) + Len(hand) + Len(queue) = recorded /\ recorded \in Nat
        BY <2>4, <2>6
      <4> QED
        BY <4>1, <4>2, <4>3
    <3> QED
      BY <2>3, <2>7, <3>1 DEF EventsKept
<1> QED
  BY <1>1, <1>2, <1>3 DEF IndInv

\* The inductive invariant is kept by every step.
THEOREM NextPreservesInv == IndInv /\ [Next]_vars => IndInv'
<1> SUFFICES ASSUME IndInv, [Next]_vars PROVE IndInv'
  OBVIOUS
<1>1. MainInv' /\ EventsKept'
  BY NextPreservesMain, NextPreservesEvents DEF IndInv
<1>2. HandlersTyped'
  <2> USE DEF IndInv, HandlersTyped
  <2>1. CASE Die
    BY <2>1 DEF Die
  <2>2. CASE UNCHANGED live
    BY <2>2
  <2>3. \A h \in Handlers : Accepted(h) \/ Admitted(h) \/ Leaves(h) => HandlersTyped'
    BY DEF Accepted, Admitted, Leaves, Moves
  <2>4. BootStep => UNCHANGED live
    BY BootStepCases
  <2>5. \A s \in Servers : Listens(s) \/ Fails(s) \/ Closes(s) \/ Reports(s) => UNCHANGED live
    BY DEF Listens, Fails, Closes, Reports, Starts
  <2>6. Main \/ Launch \/ Signal \/ Killed \/ Loop => UNCHANGED live \/ Die
    BY <2>4 DEF Main, Launch, Signal, Killed, BootFails, Wakes, Waits, Unwind,
                Loop, Take, Handle, LoopEnds
  <2>7. \A h \in Handlers : RecordDomain(h) => UNCHANGED live
    BY DEF RecordDomain
  <2>8. UNCHANGED vars => UNCHANGED live
    BY DEF vars
  <2> QED
    BY <2>1, <2>2, <2>3, <2>5, <2>6, <2>7, <2>8 DEF Next
<1> QED
  BY <1>1, <1>2 DEF IndInv

\* The inductive invariant holds in every reachable state.
THEOREM InvariantHolds == Spec => []IndInv
BY InitEstablishesInv, NextPreservesInv, PTL DEF Spec

\* Every variable stays in its type: in particular errCh never holds more errors
\* than there are servers, and the recorder's queue never more than its capacity.
THEOREM TypeCorrect == Spec => []TypeOK
<1>1. IndInv => TypeOK
  <2> SUFFICES ASSUME IndInv PROVE TypeOK
    OBVIOUS
  <2>1. main \in {"down", "select", "wait"} \cup Unwinding \cup ToSet(BootSteps)
    BY BootStepsSet DEF IndInv, MainInv, Phases
  <2>2. errCh \in 0..Cardinality(Servers)
    <3>1. Returned \in SUBSET Servers
      BY DEF Returned
    <3> QED
      BY <3>1, ThreeServers DEF IndInv, MainInv, ErrorsCounted
  <2>3. ASSUME NEW s \in Seq(1..recorded), Len(s) <= recorded, recorded \in Nat
        PROVE  s \in UNION {[1..n -> 1..recorded] : n \in 0..recorded}
    <3>1. Len(s) \in 0..recorded /\ s \in [1..Len(s) -> 1..recorded]
      BY <2>3, LenProperties
    <3> QED
      BY <3>1
  <2>4. /\ Len(log) \in Nat /\ Len(hand) \in Nat /\ Len(queue) \in Nat /\ recorded \in Nat
        /\ Len(log) + Len(hand) + Len(queue) <= recorded
    BY KeptTogether DEF IndInv, EventsKept
  <2>5. Len(log) <= recorded /\ Len(hand) <= recorded /\ Len(queue) <= recorded
    BY <2>4
  <2>6. {queue, hand, log} \subseteq UNION {[1..n -> 1..recorded] : n \in 0..recorded}
    BY <2>3, <2>4, <2>5 DEF IndInv, EventsKept
  <2> QED
    BY <2>1, <2>2, <2>6
       DEF TypeOK, IndInv, MainInv, Phases, Serving, HandlersTyped, EventsKept
<1> QED
  BY <1>1, InvariantHolds, PTL

\* Connections are only taken between the opening of the store and the first of the
\* deferred calls, because main returns from wg.Wait after the last of the servers.
THEOREM ServersInsideStore == Spec => []ServersRunInsideStore
<1>1. IndInv => ServersRunInsideStore
  BY DEF IndInv, MainInv, Phases, Serving, Unwinding, Booting, ServersRunInsideStore
<1> QED
  BY <1>1, InvariantHolds, PTL

\* The domain log, with what is still to be written to it, holds recorded events in
\* their order, none twice, over any number of crashes and restarts, and all of
\* them as long as none was dropped.
THEOREM DomainLogOrdered == Spec => []DomainLogInOrder
<1>1. IndInv => DomainLogInOrder
  BY KeptTogether DEF IndInv, EventsKept, DomainLogInOrder, Increasing
<1> QED
  BY <1>1, InvariantHolds, PTL

\* No server's goroutine waits for room in errCh, so wg.Wait waits for none that
\* cannot return: the send never blocks, all three servers failing at once included.
NoReportBlocks == \A s \in Servers : start[s] = "failed" => errCh < ErrRoom

\* errCh has room for every error that can be sent before main reads it.
THEOREM ReportsNeverBlock == Spec => []NoReportBlocks
<1>1. IndInv => NoReportBlocks
  BY RoomToReport DEF IndInv, MainInv, NoReportBlocks
<1> QED
  BY <1>1, InvariantHolds, PTL

=============================================================================
