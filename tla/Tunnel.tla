------------------------------- MODULE Tunnel -------------------------------
(***************************************************************************)
(* One tunnel, from the accepted client to its end: the client's request   *)
(* (internal/proxy), the handshake with an upstream proxy                  *)
(* (internal/upstream), and the relay of both directions with its          *)
(* half-closes (internal/proxy/relay.go).                                  *)
(*                                                                         *)
(* Bytes are chunks, numbered per direction; a socket is a queue of        *)
(* bounded length.  The client, the upstream and the target send, stop,    *)
(* stop reading and vanish whenever they like.  Accounts, slots and        *)
(* metering are in modules ProxyCenter and UsageCounters.                  *)
(***************************************************************************)
EXTENDS Integers, Sequences, SequencesExt

CONSTANTS Entries,    \* how clients ask: "socks5", "connect"
          Egresses,   \* how the proxy connects: "direct", "http-upstream", "socks5-upstream"
          MaxChunks,  \* bound: chunks sent in one direction
          Window      \* bound: chunks a socket holds for a peer that does not read

ASSUME TunnelAssumption ==
  /\ Entries \subseteq {"socks5", "connect"}
  /\ Egresses \subseteq {"direct", "http-upstream", "socks5-upstream"}
  /\ {MaxChunks, Window} \subseteq Nat \ {0}

VARIABLES entry, egress,
          pc,        \* the handler
          answer,    \* of the upstream to the exchange under way
          socket,    \* the proxy's two sockets
          deadline,  \* the sockets with a deadline
          gone,      \* the peers that have vanished
          kicked,    \* a closer has run
          flow       \* the two directions

vars == <<entry, egress, pc, answer, socket, deadline, gone, kicked, flow>>

Sides == {"client", "remote"}
Dirs == {"up", "down"}
Src(d) == IF d = "up" THEN "client" ELSE "remote"
Dst(d) == IF d = "up" THEN "remote" ELSE "client"

\* The exchanges with an upstream proxy; an HTTP upstream has only the last.
Exchanges == {"greeting", "auth", "connect"}

\* From the slot on; "refused" when DialContext has returned an error.
Setup == {"dialing", "refused", "reply"} \cup Exchanges

\* A direction: what its source has sent, what the proxy has not read yet, the
\* chunk in copyMetered's buffer, what it has written and the destination has
\* not read, and what the destination has read.  eof: the source is done, and
\* the proxy has told the destination so.
FreshFlow == [sent |-> 0, fin |-> FALSE, in |-> <<>>, buf |-> <<>>, out |-> <<>>, got |-> <<>>,
              eof |-> FALSE, copying |-> TRUE]

Chunks == UNION {[1..n -> 1..MaxChunks] : n \in 0..MaxChunks}

TypeOK ==
  /\ entry \in Entries /\ egress \in Egresses
  /\ pc \in {"request", "relay", "done"} \cup Setup
  /\ answer \in {"none", "yes", "no"}
  /\ socket \in [Sides -> {"none", "open", "closed"}]
  /\ deadline \subseteq Sides /\ gone \subseteq Sides
  /\ kicked \in BOOLEAN
  /\ flow \in [Dirs -> [sent : 0..MaxChunks, fin : BOOLEAN, in : Chunks, buf : Chunks,
                        out : Chunks, got : Chunks, eof : BOOLEAN, copying : BOOLEAN]]
  /\ \A d \in Dirs : Len(flow[d].out) <= Window /\ Len(flow[d].buf) <= 1

Init ==
  /\ entry \in Entries /\ egress \in Egresses
  /\ pc = "request"
  /\ answer = "none"
  /\ socket = [s \in Sides |-> IF s = "client" THEN "open" ELSE "none"]
  /\ deadline = IF entry = "socks5" THEN {"client"} ELSE {}
  /\ gone = {} /\ kicked = FALSE
  /\ flow = [d \in Dirs |-> FreshFlow]

Fixed == UNCHANGED <<entry, egress, gone, kicked>>

-----------------------------------------------------------------------------
(***************************************************************************)
(* The peers.                                                              *)
(***************************************************************************)

\* The target is heard once it is connected: at once if the proxy dials it, else
\* when the upstream has said so.
Connected(side) ==
  /\ side \notin gone /\ socket[side] = "open"
  /\ side = "remote" => pc \in {"reply", "relay"} \/ (pc = "connect" /\ answer = "yes")

Sends(d) ==
  /\ Connected(Src(d)) /\ ~ flow[d].fin
  /\ flow[d].sent < MaxChunks
  /\ flow' = [flow EXCEPT ![d].sent = @ + 1, ![d].in = Append(@, flow[d].sent + 1)]
  /\ UNCHANGED <<pc, answer, socket, deadline>> /\ Fixed

\* The peer will send no more, and still reads.
HalfCloses(d) ==
  /\ Connected(Src(d)) /\ ~ flow[d].fin
  /\ flow' = [flow EXCEPT ![d].fin = TRUE]
  /\ UNCHANGED <<pc, answer, socket, deadline>> /\ Fixed

Receives(d) ==
  /\ Dst(d) \notin gone /\ flow[d].out # <<>>
  /\ flow' = [flow EXCEPT ![d].out = Tail(@), ![d].got = Append(@, Head(flow[d].out))]
  /\ UNCHANGED <<pc, answer, socket, deadline>> /\ Fixed

\* The peer's connection is reset.  A peer that falls silent takes no step at all.
Vanishes(side) ==
  /\ pc # "done" /\ socket[side] = "open" /\ side \notin gone
  /\ gone' = gone \cup {side}
  /\ UNCHANGED <<entry, egress, pc, answer, socket, deadline, kicked, flow>>

UpstreamAnswers ==
  /\ pc \in Exchanges /\ answer = "none" /\ "remote" \notin gone
  /\ answer' \in {"yes", "no"}
  /\ UNCHANGED <<pc, socket, deadline, flow>> /\ Fixed

-----------------------------------------------------------------------------
(***************************************************************************)
(* The handler up to the relay.                                            *)
(***************************************************************************)
\* The sockets whose Close the handler has deferred: the remote one only when
\* DialContext has returned it.
Deferred == IF pc \in {"reply", "relay"} THEN Sides ELSE {"client"}

\* Any return of the handler: the deferred calls run.
End ==
  /\ pc' = "done" /\ answer' = "none"
  /\ socket' = [s \in Sides |-> IF s \in Deferred THEN "closed" ELSE socket[s]]
  /\ deadline' = deadline \ Deferred
  /\ UNCHANGED flow /\ Fixed

\* An error return of DialContext once there is a socket, which nobody else knows:
\* each of them closes it first.
GiveUp ==
  /\ pc' = "refused" /\ answer' = "none"
  /\ socket' = [socket EXCEPT !["remote"] = "closed"]
  /\ deadline' = deadline \ {"remote"}
  /\ UNCHANGED flow /\ Fixed

\* The first n chunks that wait in direction d are gone.
Drop(d, n) == [flow EXCEPT ![d].in = SubSeq(@, n + 1, Len(@))]

\* What is read beyond the message that was asked for: nothing by the SOCKS5 code,
\* discardSocks5Address included, anything that waits by a bufio.Reader.
Readahead(d, buffered) == IF buffered THEN 0..Len(flow[d].in) ELSE {0}

\* The request is read and good, and a slot acquired.  SOCKS5 reads byte by byte
\* what it needs, and clears the deadline of the login.  For CONNECT, Hijack
\* returns what the server has read ahead, and handleConnect drops it.
Admit ==
  /\ pc = "request" /\ socket["client"] = "open"
  /\ \E n \in Readahead("up", entry = "connect") : flow' = Drop("up", n)
  /\ deadline' = deadline \ {"client"}
  /\ pc' = "dialing"
  /\ UNCHANGED <<answer, socket>> /\ Fixed

\* A bad or refused request, or one that is too late.
Reject == pc = "request" /\ End

\* The TCP connection, to the target or to the upstream.
DialTCP ==
  /\ pc = "dialing"
  /\ pc' = CASE egress = "direct"          -> "reply"
             [] egress = "http-upstream"   -> "connect"
             [] egress = "socks5-upstream" -> "greeting"
  /\ socket' = [socket EXCEPT !["remote"] = "open"]
  /\ deadline' = IF egress = "direct" THEN deadline ELSE deadline \cup {"remote"}
  /\ UNCHANGED <<answer, flow>> /\ Fixed

\* No connection, or no node to connect to.
DialFails ==
  /\ pc = "dialing"
  /\ pc' = "refused"
  /\ UNCHANGED <<answer, socket, deadline, flow>> /\ Fixed

\* dialViaSOCKS5Upstream up to its last exchange: the upstream selects a method,
\* and with user and password it checks them.
Exchange ==
  /\ pc \in {"greeting", "auth"} /\ answer = "yes"
  /\ pc' \in IF pc = "greeting" THEN {"auth", "connect"} ELSE {"connect"}
  /\ answer' = "none"
  /\ UNCHANGED <<socket, deadline, flow>> /\ Fixed

\* Mutant: the deadline of the handshake stays on the socket.
EstablishedUnderDeadline ==
  /\ pc = "connect" /\ answer = "yes" /\ "remote" \notin gone
  /\ \E n \in Readahead("down", egress = "http-upstream") : flow' = Drop("down", n)
  /\ pc' = "reply" /\ answer' = "none"
  /\ UNCHANGED <<socket, deadline>> /\ Fixed

\* The answer to the last exchange is read: by http.ReadResponse through a
\* bufio.Reader that is dropped afterwards, or by discardSocks5Address to the
\* last byte.  The deadline is cleared.
Established ==
  /\ pc = "connect" /\ answer = "yes" /\ "remote" \notin gone
  /\ \E n \in Readahead("down", egress = "http-upstream") : flow' = Drop("down", n)
  /\ deadline' = deadline \ {"remote"}
  /\ pc' = "reply" /\ answer' = "none"
  /\ UNCHANGED socket /\ Fixed

\* A status that is not 200, no method, bad credentials, a code, an address of no
\* known type.
UpstreamRefuses == pc \in Exchanges /\ answer = "no" /\ GiveUp

\* A write or a read of the handshake returns an error.
UpstreamLost == pc \in Exchanges /\ "remote" \in gone /\ GiveUp

\* The upstream says nothing until the deadline.
HandshakeTimeout == pc \in Exchanges /\ answer = "none" /\ "remote" \in deadline /\ GiveUp

\* Mutant: a return that has nothing to do with the network forgets the socket.
CannotAskLeaves ==
  /\ pc \in {"greeting", "auth"} /\ answer = "yes"
  /\ pc' = "refused" /\ answer' = "none"
  /\ UNCHANGED <<socket, deadline, flow>> /\ Fixed

\* What the upstream is to be told next does not fit its message: credentials too
\* long, a target without a good port, a host too long.
CannotAsk == pc \in {"greeting", "auth"} /\ answer = "yes" /\ GiveUp

\* The handler tells the client so and returns.
Refuse == pc = "refused" /\ End

Reply ==
  /\ pc = "reply"
  /\ IF socket["client"] = "open" /\ "client" \notin gone
     THEN pc' = "relay" /\ UNCHANGED <<answer, socket, deadline, flow>> /\ Fixed
     ELSE End

-----------------------------------------------------------------------------
(***************************************************************************)
(* relayBidirectional: two goroutines, each copying one direction until    *)
(* the end of its source or an error, and then half-closing its            *)
(* destination.                                                            *)
(***************************************************************************)
Usable(side) == socket[side] = "open" /\ side \notin gone

Copies(d) == pc = "relay" /\ flow[d].copying

\* Mutant: the first direction to end ends the other.
StopBoth(d) ==
  flow' = [x \in Dirs |->
             [flow[x] EXCEPT !.copying = FALSE, !.buf = <<>>, !.eof = Usable(Dst(x))]]

Stop(d) ==
  flow' = [flow EXCEPT ![d].copying = FALSE, ![d].buf = <<>>, ![d].eof = Usable(Dst(d))]

Read(d) ==
  /\ Copies(d) /\ flow[d].buf = <<>>
  /\ IF Usable(Src(d))
     THEN \/ /\ flow[d].in # <<>>
             /\ flow' = [flow EXCEPT ![d].buf = <<Head(flow[d].in)>>, ![d].in = Tail(@)]
          \/ flow[d].in = <<>> /\ flow[d].fin /\ Stop(d)
     ELSE Stop(d)
  /\ UNCHANGED <<pc, answer, socket, deadline>> /\ Fixed

\* Mutant: the destination's window is ignored.
WriteAhead(d) ==
  /\ Copies(d) /\ flow[d].buf # <<>>
  /\ IF Usable(Dst(d))
     THEN flow' = [flow EXCEPT ![d].out = @ \o flow[d].buf, ![d].buf = <<>>]
     ELSE Stop(d)
  /\ UNCHANGED <<pc, answer, socket, deadline>> /\ Fixed

Write(d) ==
  /\ Copies(d) /\ flow[d].buf # <<>>
  /\ IF Usable(Dst(d))
     THEN /\ Len(flow[d].out) < Window
          /\ flow' = [flow EXCEPT ![d].out = @ \o flow[d].buf, ![d].buf = <<>>]
     ELSE Stop(d)
  /\ UNCHANGED <<pc, answer, socket, deadline>> /\ Fixed

\* wg.Wait returns when both directions have stopped.
RelayEnds == pc = "relay" /\ (\A d \in Dirs : ~ flow[d].copying) /\ End

\* Mutant: the closer forgets the remote socket.
KickClientOnly ==
  /\ ~ kicked /\ kicked' = TRUE
  /\ pc = "relay" \/ (pc \in Setup /\ entry = "socks5")
  /\ socket' = [socket EXCEPT !["client"] = "closed"]
  /\ UNCHANGED <<entry, egress, pc, answer, deadline, gone, flow>>

\* A kick while the relay runs closes both sockets; before that CONNECT has no
\* closer, and that of SOCKS5 closes the client's socket, and from just before
\* the reply both.
Kick ==
  /\ ~ kicked /\ kicked' = TRUE
  /\ \/ /\ pc = "relay" \/ (pc = "reply" /\ entry = "socks5")
        /\ socket' = [s \in Sides |-> "closed"]
     \/ pc \in Setup /\ entry = "socks5" /\ socket' = [socket EXCEPT !["client"] = "closed"]
  /\ UNCHANGED <<entry, egress, pc, answer, deadline, gone, flow>>

-----------------------------------------------------------------------------
Peers ==
  \/ \E d \in Dirs : Sends(d) \/ HalfCloses(d) \/ Receives(d)
  \/ \E side \in Sides : Vanishes(side)
  \/ UpstreamAnswers

Handler ==
  \/ DialTCP \/ DialFails
  \/ Exchange \/ Established
  \/ UpstreamRefuses \/ UpstreamLost \/ HandshakeTimeout \/ CannotAsk \/ Refuse
  \/ Reply \/ RelayEnds

Next ==
  \/ Peers \/ Kick \/ Admit \/ Reject \/ Handler
  \/ \E d \in Dirs : Read(d) \/ Write(d)

Spec == Init /\ [][Next]_vars

\* The goroutines are scheduled, and deadlines expire.  Nothing is assumed of the
\* peers, nor of a client that has not sent its request.
FairSpec ==
  /\ Spec
  /\ WF_vars(Handler)
  /\ \A d \in Dirs : WF_vars(Read(d)) /\ WF_vars(Write(d))

-----------------------------------------------------------------------------
(***************************************************************************)
(* What a tunnel keeps.                                                    *)
(***************************************************************************)

\* The beginning of a direction may be lost where the source may speak before the
\* tunnel stands and the reader of the last message has read ahead.
MayLoseStart(d) == IF d = "up" THEN entry = "connect" ELSE egress = "http-upstream"

\* The destination gets the source's chunks in order, without a gap and from the
\* first one on, but for the start that a dropped bufio.Reader takes away; and it
\* is told the end only when the source has ended and all it sent is passed on,
\* unless someone was kicked or vanished: in particular, the end of one direction
\* does not end the other (copyMetered, CloseWrite, Hijack, ReadResponse).
StreamsIntact ==
  \A d \in Dirs :
     LET f == flow[d]
         passed == f.got \o f.out
     IN  /\ \A i \in 1..(Len(passed) - 1) : passed[i + 1] = passed[i] + 1
         /\ passed # <<>> /\ ~ MayLoseStart(d) => passed[1] = 1
         /\ f.eof /\ ~ kicked /\ gone = {} =>
               /\ f.fin /\ f.in = <<>>
               /\ passed # <<>> => Last(passed) = f.sent
               /\ passed = <<>> /\ ~ MayLoseStart(d) => f.sent = 0

\* A relay runs without any deadline, however long the set-up took, or it would
\* be cut after seconds; a dial that returns an error leaves no socket behind,
\* whichever exchange failed and why, for the handler knows none to close; and a
\* handler that has returned leaves none (the SetDeadline pairs of handleConn and
\* the two upstream dials, their Close before each error return, and the
\* handlers' deferred ones).
SocketsInOrder ==
  /\ pc = "relay" => deadline = {}
  /\ pc = "refused" => socket["remote"] # "open"
  /\ pc = "done" => \A s \in Sides : socket[s] # "open"

\* Once a slot is held, the set-up ends though the upstream stays silent, and a
\* tunnel whose sockets a kick has closed ends though neither peer reads or sends:
\* the slot is not held for ever (the deadlines, and the closer of both sockets).
HandlerEnds ==
  /\ pc \in Setup ~> pc \in {"relay", "done"}
  /\ kicked ~> pc = "done"
=============================================================================
