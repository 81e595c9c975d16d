----------------------------- MODULE TunnelProofs -----------------------------
(***************************************************************************)
(* Proofs about Tunnel, for every number of chunks and every window, and   *)
(* for whichever ways in and out are configured.                           *)
(***************************************************************************)
EXTENDS Tunnel, SequenceTheorems, TLAPS

\* The bounds are numbers.
LEMMA Bounds == MaxChunks \in Nat /\ MaxChunks >= 1 /\ Window \in Nat /\ Window >= 1
BY TunnelAssumption

-----------------------------------------------------------------------------
(***************************************************************************)
(* One direction.                                                          *)
(***************************************************************************)

\* The length of a sequence; the provers count better without seeing what of.
Size(s) == Len(s)

\* The chunks that follow the k-th.
Run(s, k) == \A i \in 1..Size(s) : s[i] = k + i

Flow == [sent : 0..MaxChunks, fin : BOOLEAN, in : Seq(Nat), buf : Seq(Nat), out : Seq(Nat),
         got : Seq(Nat), eof : BOOLEAN, copying : BOOLEAN]

\* A direction of which the first "lost" chunks are gone: what the destination has
\* read, its socket, copyMetered's buffer and the source's socket hold one run,
\* which reaches to the last chunk sent while the direction is copied; and when it
\* has ended in good order, the destination's share of it does.
FlowOK(f, lost, mayLose, clean) ==
  /\ lost \in Nat /\ (~ mayLose => lost = 0)
  /\ Run(f.got, lost)
  /\ Run(f.out, lost + Size(f.got))
  /\ Run(f.buf, lost + Size(f.got) + Size(f.out))
  /\ Run(f.in, f.sent - Size(f.in))
  /\ lost + Size(f.got) + Size(f.out) + Size(f.buf) + Size(f.in) <= f.sent
  /\ f.copying => lost + Size(f.got) + Size(f.out) + Size(f.buf) + Size(f.in) = f.sent
  /\ Size(f.buf) <= 1 /\ Size(f.out) <= Window
  /\ f.eof /\ clean => /\ f.fin /\ f.in = <<>>
                       /\ lost + Size(f.got) + Size(f.out) = f.sent

\* Lengths are numbers.
LEMMA FlowLens ==
  ASSUME NEW f \in Flow
  PROVE  /\ f.sent \in Nat /\ f.sent <= MaxChunks
         /\ f.in \in Seq(Nat) /\ f.buf \in Seq(Nat) /\ f.out \in Seq(Nat) /\ f.got \in Seq(Nat)
         /\ Size(f.in) \in Nat /\ Size(f.buf) \in Nat /\ Size(f.out) \in Nat /\ Size(f.got) \in Nat
BY Bounds, LenProperties DEF Flow, Size

\* The empty sequence follows every chunk.
LEMMA EmptyRun == \A k : Run(<<>>, k) /\ <<>> \in Seq(Nat) /\ Size(<<>>) = 0
BY EmptySeq DEF Run, Size

\* A run grows at its end by the chunk that follows.
LEMMA RunAppend ==
  ASSUME NEW s \in Seq(Nat), NEW k \in Int, Run(s, k), k + Size(s) + 1 \in Nat
  PROVE  /\ Run(Append(s, k + Size(s) + 1), k)
         /\ Append(s, k + Size(s) + 1) \in Seq(Nat)
         /\ Size(Append(s, k + Size(s) + 1)) = Size(s) + 1
<1> USE DEF Size
<1>1. Size(s) \in Nat
  BY LenProperties
<1>2. /\ Append(s, k + Size(s) + 1) \in Seq(Nat)
      /\ Size(Append(s, k + Size(s) + 1)) = Size(s) + 1
      /\ \A i \in 1..Size(s) : Append(s, k + Size(s) + 1)[i] = s[i]
      /\ Append(s, k + Size(s) + 1)[Size(s) + 1] = k + Size(s) + 1
  BY AppendProperties
<1> QED
  BY <1>1, <1>2 DEF Run

\* A run without its first chunk starts one later.
LEMMA RunTail ==
  ASSUME NEW s \in Seq(Nat), NEW k \in Int, Run(s, k), s # <<>>
  PROVE  /\ Head(s) = k + 1 /\ Head(s) \in Nat
         /\ Run(Tail(s), k + 1) /\ Tail(s) \in Seq(Nat)
         /\ Size(s) \in Nat /\ Size(s) >= 1 /\ Size(Tail(s)) = Size(s) - 1
<1> USE DEF Size
<1>1. Size(s) \in Nat /\ Size(s) >= 1
  BY EmptySeq, LenProperties
<1>2. /\ Tail(s) \in Seq(Nat) /\ Size(Tail(s)) = Size(s) - 1
      /\ \A i \in 1..Size(Tail(s)) : Tail(s)[i] = s[i + 1]
      /\ Head(s) \in Nat
  BY HeadTailProperties
<1>3. Head(s) = s[1]
  BY <1>1
<1>4. Head(s) = k + 1
  BY <1>1, <1>3 DEF Run
<1>5. Run(Tail(s), k + 1)
  BY <1>1, <1>2 DEF Run
<1> QED
  BY <1>1, <1>2, <1>4, <1>5

\* A run without its first n chunks starts n later.
LEMMA RunDrop ==
  ASSUME NEW s \in Seq(Nat), NEW k \in Int, Run(s, k), NEW n \in 0..Size(s)
  PROVE  /\ Run(SubSeq(s, n + 1, Len(s)), k + n)
         /\ SubSeq(s, n + 1, Len(s)) \in Seq(Nat)
         /\ Size(SubSeq(s, n + 1, Len(s))) = Size(s) - n
<1> USE DEF Size
<1>1. Size(s) \in Nat /\ n \in Nat /\ n <= Size(s)
  BY LenProperties
<1>2. \A i \in (n + 1)..Size(s) : s[i] \in Nat
  BY <1>1, ElementOfSeq
<1>3. /\ SubSeq(s, n + 1, Len(s)) \in Seq(Nat)
      /\ Size(SubSeq(s, n + 1, Len(s))) = IF n + 1 <= Size(s) THEN Size(s) - (n + 1) + 1 ELSE 0
      /\ \A i \in 1..(Size(s) - (n + 1) + 1) : SubSeq(s, n + 1, Len(s))[i] = s[(n + 1) + i - 1]
  BY <1>1, <1>2, SubSeqProperties
<1>4. Size(SubSeq(s, n + 1, Len(s))) = Size(s) - n
  BY <1>1, <1>3
<1>5. Run(SubSeq(s, n + 1, Len(s)), k + n)
  BY <1>1, <1>3, <1>4 DEF Run
<1> QED
  BY <1>3, <1>4, <1>5

\* Two runs that follow each other are one.
LEMMA RunConcat ==
  ASSUME NEW s \in Seq(Nat), NEW t \in Seq(Nat), NEW k \in Int, Run(s, k), Run(t, k + Size(s))
  PROVE  /\ Run(s \o t, k) /\ s \o t \in Seq(Nat)
         /\ Size(s \o t) = Size(s) + Size(t) /\ Size(s) \in Nat /\ Size(t) \in Nat
<1> USE DEF Size
<1>1. Size(s) \in Nat /\ Size(t) \in Nat
  BY LenProperties
<1>2. /\ s \o t \in Seq(Nat) /\ Size(s \o t) = Size(s) + Size(t)
      /\ \A i \in 1..Size(s) + Size(t) : (s \o t)[i] = IF i <= Size(s) THEN s[i] ELSE t[i - Size(s)]
  BY ConcatProperties
<1>3. ASSUME NEW i \in 1..Size(s) + Size(t) PROVE (s \o t)[i] = k + i
  <2>1. CASE i <= Size(s)
    BY <1>1, <1>2, <2>1 DEF Run
  <2>2. CASE i > Size(s)
    <3>1. i - Size(s) \in 1..Size(t)
      BY <1>1, <2>2
    <3>2. t[i - Size(s)] = (k + Size(s)) + (i - Size(s))
      BY <3>1 DEF Run
    <3> QED
      BY <1>1, <1>2, <2>2, <3>2
  <2> QED
    BY <1>1, <2>1, <2>2
<1> QED
  BY <1>1, <1>2, <1>3 DEF Run

\* What each step makes of its direction.
Sent(f) == [f EXCEPT !.sent = @ + 1, !.in = Append(@, f.sent + 1)]
Finished(f) == [f EXCEPT !.fin = TRUE]
Received(f) == [f EXCEPT !.out = Tail(@), !.got = Append(@, Head(f.out))]
Dropped(f, n) == [f EXCEPT !.in = SubSeq(@, n + 1, Len(@))]
Filled(f) == [f EXCEPT !.buf = <<Head(f.in)>>, !.in = Tail(@)]
Written(f) == [f EXCEPT !.out = @ \o f.buf, !.buf = <<>>]
Stopped(f, told) == [f EXCEPT !.copying = FALSE, !.buf = <<>>, !.eof = told]

\* Another chunk is sent.
LEMMA SendKeepsFlow ==
  ASSUME NEW f \in Flow, NEW lost, NEW m \in BOOLEAN, NEW c \in BOOLEAN, FlowOK(f, lost, m, c),
         ~ f.fin, f.sent < MaxChunks,
         NEW g, g = Sent(f)
  PROVE  g \in Flow /\ FlowOK(g, lost, m, c)
<1>0. /\ f.sent \in Nat /\ f.sent <= MaxChunks
      /\ f.in \in Seq(Nat) /\ f.buf \in Seq(Nat) /\ f.out \in Seq(Nat) /\ f.got \in Seq(Nat)
      /\ Size(f.in) \in Nat /\ Size(f.buf) \in Nat /\ Size(f.out) \in Nat /\ Size(f.got) \in Nat
  BY FlowLens
<1>1. /\ g.sent = f.sent + 1 /\ g.in = Append(f.in, f.sent + 1)
      /\ g.fin = f.fin /\ g.buf = f.buf /\ g.out = f.out /\ g.got = f.got
      /\ g.eof = f.eof /\ g.copying = f.copying
  BY DEF Flow, Sent
<1>2. /\ Run(f.in, f.sent - Size(f.in)) /\ f.sent - Size(f.in) \in Int
      /\ (f.sent - Size(f.in)) + Size(f.in) + 1 = f.sent + 1 /\ f.sent + 1 \in Nat
  <2>1. Run(f.in, f.sent - Size(f.in))
    BY DEF FlowOK
  <2>2. \A a, b \in Nat : a - b \in Int /\ (a - b) + b + 1 = a + 1 /\ a + 1 \in Nat
    OBVIOUS
  <2> QED
    BY <1>0, <2>1, <2>2
<1>3. /\ Run(g.in, f.sent - Size(f.in)) /\ g.in \in Seq(Nat) /\ Size(g.in) = Size(f.in) + 1
  BY <1>1, <1>2, <1>0, RunAppend
<1>4. f.sent - Size(f.in) = g.sent - Size(g.in)
  <2>1. \A a, b \in Nat : a - b = (a + 1) - (b + 1)
    OBVIOUS
  <2> QED
    BY <1>0, <1>1, <1>3, <2>1
<1>5. g \in Flow
  <2>1. g.sent \in 0..MaxChunks
    BY <1>1, <1>0, Bounds
  <2> QED
    BY <1>3, <2>1 DEF Flow, Sent
<1>6. /\ lost + Size(g.got) + Size(g.out) + Size(g.buf) + Size(g.in) <= g.sent
      /\ g.copying => lost + Size(g.got) + Size(g.out) + Size(g.buf) + Size(g.in) = g.sent
  <2>1. /\ lost \in Nat
        /\ lost + Size(f.got) + Size(f.out) + Size(f.buf) + Size(f.in) <= f.sent
        /\ f.copying => lost + Size(f.got) + Size(f.out) + Size(f.buf) + Size(f.in) = f.sent
    BY DEF FlowOK
  <2>2. /\ Size(g.got) = Size(f.got) /\ Size(g.out) = Size(f.out) /\ Size(g.buf) = Size(f.buf)
        /\ Size(g.in) = Size(f.in) + 1 /\ g.sent = f.sent + 1 /\ g.copying = f.copying
    BY <1>1, <1>3
  <2> QED
    BY <1>0, <2>1, <2>2
<1> QED
  BY <1>1, <1>3, <1>4, <1>5, <1>6 DEF FlowOK

\* The source says that it is done.
LEMMA HalfCloseKeepsFlow ==
  ASSUME NEW f \in Flow, NEW lost, NEW m \in BOOLEAN, NEW c \in BOOLEAN, FlowOK(f, lost, m, c),
         NEW g, g = Finished(f)
  PROVE  g \in Flow /\ FlowOK(g, lost, m, c)
<1>0. /\ f.sent \in Nat /\ f.sent <= MaxChunks
      /\ f.in \in Seq(Nat) /\ f.buf \in Seq(Nat) /\ f.out \in Seq(Nat) /\ f.got \in Seq(Nat)
      /\ Size(f.in) \in Nat /\ Size(f.buf) \in Nat /\ Size(f.out) \in Nat /\ Size(f.got) \in Nat
  BY FlowLens
<1>1. /\ g.sent = f.sent /\ g.in = f.in /\ g.fin = TRUE /\ g.buf = f.buf /\ g.out = f.out
      /\ g.got = f.got /\ g.eof = f.eof /\ g.copying = f.copying /\ g \in Flow
  BY DEF Flow, Finished
<1> QED
  BY <1>1 DEF FlowOK

\* The destination reads a chunk.
LEMMA ReceiveKeepsFlow ==
  ASSUME NEW f \in Flow, NEW lost, NEW m \in BOOLEAN, NEW c \in BOOLEAN, FlowOK(f, lost, m, c),
         f.out # <<>>,
         NEW g, g = Received(f)
  PROVE  g \in Flow /\ FlowOK(g, lost, m, c)
<1>0. /\ f.sent \in Nat /\ f.sent <= MaxChunks
      /\ f.in \in Seq(Nat) /\ f.buf \in Seq(Nat) /\ f.out \in Seq(Nat) /\ f.got \in Seq(Nat)
      /\ Size(f.in) \in Nat /\ Size(f.buf) \in Nat /\ Size(f.out) \in Nat /\ Size(f.got) \in Nat
  BY FlowLens
<1>1. /\ g.out = Tail(f.out) /\ g.got = Append(f.got, Head(f.out))
      /\ g.sent = f.sent /\ g.in = f.in /\ g.fin = f.fin /\ g.buf = f.buf
      /\ g.eof = f.eof /\ g.copying = f.copying
  BY DEF Flow, Received
<1>2. /\ lost \in Nat /\ Run(f.got, lost) /\ Run(f.out, lost + Size(f.got))
      /\ lost + Size(f.got) \in Int /\ lost + Size(f.got) + 1 \in Nat
  <2>1. lost \in Nat /\ Run(f.got, lost) /\ Run(f.out, lost + Size(f.got))
    BY DEF FlowOK
  <2> QED
    BY <1>0, <2>1
<1>3. /\ Head(f.out) = lost + Size(f.got) + 1
      /\ Run(g.out, lost + Size(f.got) + 1) /\ g.out \in Seq(Nat)
      /\ Size(f.out) \in Nat /\ Size(f.out) >= 1 /\ Size(g.out) = Size(f.out) - 1
  BY <1>1, <1>2, <1>0, RunTail
<1>4. Run(g.got, lost) /\ g.got \in Seq(Nat) /\ Size(g.got) = Size(f.got) + 1
  <2>1. g.got = Append(f.got, lost + Size(f.got) + 1)
    BY <1>1, <1>3
  <2> QED
    BY <1>0, <1>2, <2>1, RunAppend
<1>5. g \in Flow
  BY <1>1, <1>3, <1>4 DEF Flow, Received
<1>6. /\ lost + Size(g.got) = lost + Size(f.got) + 1
      /\ lost + Size(g.got) + Size(g.out) = lost + Size(f.got) + Size(f.out)
  <2>1. lost \in Nat /\ Size(g.got) = Size(f.got) + 1 /\ Size(g.out) = Size(f.out) - 1
    BY <1>2, <1>3, <1>4
  <2>2. Size(f.got) \in Nat /\ Size(f.out) \in Nat
    BY <1>0
  <2> QED
    BY <2>1, <2>2
<1>7. Size(g.out) <= Window
  BY <1>3, Bounds DEF FlowOK
<1> QED
  BY <1>1, <1>3, <1>4, <1>5, <1>6, <1>7 DEF FlowOK

\* The reader of the last message before the relay has read ahead.
LEMMA DropKeepsFlow ==
  ASSUME NEW f \in Flow, NEW lost, NEW m \in BOOLEAN, NEW c \in BOOLEAN, FlowOK(f, lost, m, c),
         f.got = <<>>, f.out = <<>>, f.buf = <<>>, ~ f.eof,
         NEW n \in 0..Size(f.in), m \/ n = 0,
         NEW g, g = Dropped(f, n)
  PROVE  g \in Flow /\ FlowOK(g, lost + n, m, c)
<1>0. /\ f.sent \in Nat /\ f.sent <= MaxChunks
      /\ f.in \in Seq(Nat) /\ f.buf \in Seq(Nat) /\ f.out \in Seq(Nat) /\ f.got \in Seq(Nat)
      /\ Size(f.in) \in Nat /\ Size(f.buf) \in Nat /\ Size(f.out) \in Nat /\ Size(f.got) \in Nat
  BY FlowLens
<1>1. /\ g.in = SubSeq(f.in, n + 1, Len(f.in))
      /\ g.sent = f.sent /\ g.fin = f.fin /\ g.buf = <<>> /\ g.out = <<>> /\ g.got = <<>>
      /\ g.eof = FALSE /\ g.copying = f.copying
  BY DEF Flow, Dropped
<1>2. /\ Run(f.in, f.sent - Size(f.in)) /\ f.sent - Size(f.in) \in Int
  BY <1>0 DEF FlowOK
<1>3. /\ Run(g.in, (f.sent - Size(f.in)) + n) /\ g.in \in Seq(Nat) /\ Size(g.in) = Size(f.in) - n
  <2>1. n \in 0..Size(f.in)
    OBVIOUS
  <2>2. /\ Run(SubSeq(f.in, n + 1, Len(f.in)), (f.sent - Size(f.in)) + n)
        /\ SubSeq(f.in, n + 1, Len(f.in)) \in Seq(Nat)
        /\ Size(SubSeq(f.in, n + 1, Len(f.in))) = Size(f.in) - n
    BY <1>0, <1>2, <2>1, RunDrop
  <2> QED
    BY <1>1, <2>2
<1>4. (f.sent - Size(f.in)) + n = g.sent - Size(g.in)
  BY <1>1, <1>3, <1>0
<1>5. g \in Flow
  BY <1>1, <1>3, EmptyRun DEF Flow, Dropped
<1>6. lost \in Nat /\ lost + n \in Nat /\ (~ m => lost + n = 0)
  BY <1>0 DEF FlowOK
<1>7. /\ lost + Size(f.in) <= f.sent
      /\ f.copying => lost + Size(f.in) = f.sent
  BY EmptyRun, <1>0, <1>6 DEF FlowOK
<1>8. /\ Size(g.got) = 0 /\ Size(g.out) = 0 /\ Size(g.buf) = 0
  BY <1>1, EmptyRun
<1>9. /\ (lost + n) + Size(g.got) + Size(g.out) + Size(g.buf) + Size(g.in) <= g.sent
      /\ g.copying => (lost + n) + Size(g.got) + Size(g.out) + Size(g.buf) + Size(g.in) = g.sent
  <2>1. /\ lost \in Nat /\ n \in Nat /\ Size(g.in) = Size(f.in) - n /\ g.sent = f.sent
        /\ g.copying = f.copying
    BY <1>0, <1>1, <1>3, <1>6
  <2> QED
    BY <1>0, <1>7, <1>8, <2>1
<1>10. Run(g.got, lost + n) /\ Run(g.out, (lost + n) + Size(g.got))
       /\ Run(g.buf, (lost + n) + Size(g.got) + Size(g.out))
  BY <1>1, EmptyRun
<1> QED
  BY <1>1, <1>3, <1>4, <1>5, <1>6, <1>8, <1>9, <1>10, Bounds DEF FlowOK

\* copyMetered reads the next chunk into its empty buffer.
LEMMA ReadKeepsFlow ==
  ASSUME NEW f \in Flow, NEW lost, NEW m \in BOOLEAN, NEW c \in BOOLEAN, FlowOK(f, lost, m, c),
         f.copying, f.buf = <<>>, f.in # <<>>,
         NEW g, g = Filled(f)
  PROVE  g \in Flow /\ FlowOK(g, lost, m, c)
<1>0. /\ f.sent \in Nat /\ f.sent <= MaxChunks
      /\ f.in \in Seq(Nat) /\ f.buf \in Seq(Nat) /\ f.out \in Seq(Nat) /\ f.got \in Seq(Nat)
      /\ Size(f.in) \in Nat /\ Size(f.buf) \in Nat /\ Size(f.out) \in Nat /\ Size(f.got) \in Nat
  BY FlowLens
<1>1. /\ g.buf = <<Head(f.in)>> /\ g.in = Tail(f.in)
      /\ g.sent = f.sent /\ g.fin = f.fin /\ g.out = f.out /\ g.got = f.got
      /\ g.eof = f.eof /\ g.copying = f.copying
  BY DEF Flow, Filled
<1>2. /\ Run(f.in, f.sent - Size(f.in)) /\ f.sent - Size(f.in) \in Int
  BY <1>0 DEF FlowOK
<1>3. /\ Head(f.in) = (f.sent - Size(f.in)) + 1 /\ Head(f.in) \in Nat
      /\ Run(g.in, (f.sent - Size(f.in)) + 1) /\ g.in \in Seq(Nat)
      /\ Size(f.in) \in Nat /\ Size(f.in) >= 1 /\ Size(g.in) = Size(f.in) - 1
  BY <1>1, <1>2, <1>0, RunTail
<1>4. (f.sent - Size(f.in)) + 1 = g.sent - Size(g.in)
  BY <1>1, <1>3, <1>0
<1>5. g.buf \in Seq(Nat) /\ Size(g.buf) = 1 /\ g.buf[1] = Head(f.in)
  BY <1>1, <1>3 DEF Size
<1>6. g \in Flow
  BY <1>1, <1>3, <1>5 DEF Flow, Filled
<1>7. lost \in Nat /\ Size(f.buf) = 0
  BY EmptyRun DEF FlowOK
<1>8. lost + Size(f.got) + Size(f.out) + Size(f.in) = f.sent
  BY <1>7, <1>0 DEF FlowOK
<1>9. Run(g.buf, lost + Size(g.got) + Size(g.out))
  <2>1. Head(f.in) = lost + Size(f.got) + Size(f.out) + 1
    BY <1>3, <1>7, <1>8, <1>0
  <2> QED
    BY <1>1, <1>5, <1>7, <2>1, <1>0 DEF Run
<1>10. lost + Size(g.got) + Size(g.out) + Size(g.buf) + Size(g.in) = g.sent
  BY <1>1, <1>3, <1>5, <1>7, <1>8, <1>0
<1>11. f.eof /\ c => FALSE
  BY DEF FlowOK
<1>12. g.sent \in Nat
  BY <1>1, <1>0
<1> QED
  BY <1>1, <1>3, <1>4, <1>5, <1>6, <1>9, <1>10, <1>11, <1>12 DEF FlowOK

\* copyMetered writes its buffer, for which there is room.
LEMMA WriteKeepsFlow ==
  ASSUME NEW f \in Flow, NEW lost, NEW m \in BOOLEAN, NEW c \in BOOLEAN, FlowOK(f, lost, m, c),
         f.buf # <<>>, Size(f.out) < Window,
         NEW g, g = Written(f)
  PROVE  g \in Flow /\ FlowOK(g, lost, m, c)
<1>0. /\ f.sent \in Nat /\ f.sent <= MaxChunks
      /\ f.in \in Seq(Nat) /\ f.buf \in Seq(Nat) /\ f.out \in Seq(Nat) /\ f.got \in Seq(Nat)
      /\ Size(f.in) \in Nat /\ Size(f.buf) \in Nat /\ Size(f.out) \in Nat /\ Size(f.got) \in Nat
  BY FlowLens
<1>1. /\ g.out = f.out \o f.buf /\ g.buf = <<>>
      /\ g.sent = f.sent /\ g.fin = f.fin /\ g.in = f.in /\ g.got = f.got
      /\ g.eof = f.eof /\ g.copying = f.copying
  BY DEF Flow, Written
<1>2. lost \in Nat /\ lost + Size(f.got) \in Int
      /\ Run(f.out, lost + Size(f.got)) /\ Run(f.buf, (lost + Size(f.got)) + Size(f.out))
  BY <1>0 DEF FlowOK
<1>3. Run(g.out, lost + Size(f.got)) /\ g.out \in Seq(Nat) /\ Size(g.out) = Size(f.out) + Size(f.buf)
  BY <1>1, <1>2, <1>0, RunConcat
<1>4. g \in Flow
  BY <1>1, <1>3, EmptyRun DEF Flow, Written
<1>5. Size(g.buf) = 0
  BY <1>1, EmptyRun
<1>6. Size(f.buf) = 1
  <2>1. Size(f.buf) \in Nat \ {0}
    BY <1>0, EmptySeq DEF Size
  <2>2. Size(f.buf) <= 1
    BY DEF FlowOK
  <2> QED
    BY <2>1, <2>2
<1>7. /\ lost + Size(g.got) + Size(g.out) + Size(g.buf) + Size(g.in) <= g.sent
      /\ g.copying => lost + Size(g.got) + Size(g.out) + Size(g.buf) + Size(g.in) = g.sent
  <2>1. /\ lost + Size(f.got) + Size(f.out) + Size(f.buf) + Size(f.in) <= f.sent
        /\ f.copying => lost + Size(f.got) + Size(f.out) + Size(f.buf) + Size(f.in) = f.sent
    BY DEF FlowOK
  <2>2. /\ lost \in Nat /\ Size(g.got) = Size(f.got) /\ Size(g.in) = Size(f.in)
        /\ Size(g.out) = Size(f.out) + Size(f.buf) /\ g.sent = f.sent /\ g.copying = f.copying
    BY <1>1, <1>2, <1>3
  <2> QED
    BY <1>0, <1>5, <2>1, <2>2
<1>8. f.eof /\ c => FALSE
  BY <1>2, <1>6, <1>0 DEF FlowOK
<1>9. Size(g.out) <= Window
  <2>1. Size(g.out) = Size(f.out) + 1
    BY <1>3, <1>6
  <2> QED
    BY <1>0, <2>1, Bounds
<1>10. Run(g.buf, lost + Size(g.got) + Size(g.out)) /\ Size(g.buf) <= 1
  BY <1>1, <1>5, EmptyRun
<1>11. /\ Run(g.out, lost + Size(g.got)) /\ Run(g.got, lost) /\ Run(g.in, g.sent - Size(g.in))
       /\ lost \in Nat /\ (~ m => lost = 0)
  BY <1>1, <1>2, <1>3 DEF FlowOK
<1>12. ~ (g.eof /\ c)
  BY <1>1, <1>8
<1> QED
  BY <1>4, <1>7, <1>9, <1>10, <1>11, <1>12 DEF FlowOK

\* A direction stops; the destination is told so while it can be, and that is in
\* good order only where the source was done and nothing was left.
LEMMA StopKeepsFlow ==
  ASSUME NEW f \in Flow, NEW lost, NEW m \in BOOLEAN, NEW c \in BOOLEAN, FlowOK(f, lost, m, c),
         NEW told \in BOOLEAN, f.copying,
         c /\ told => f.fin /\ f.in = <<>> /\ f.buf = <<>>,
         NEW g, g = Stopped(f, told)
  PROVE  g \in Flow /\ FlowOK(g, lost, m, c)
<1>0. /\ f.sent \in Nat /\ f.sent <= MaxChunks
      /\ f.in \in Seq(Nat) /\ f.buf \in Seq(Nat) /\ f.out \in Seq(Nat) /\ f.got \in Seq(Nat)
      /\ Size(f.in) \in Nat /\ Size(f.buf) \in Nat /\ Size(f.out) \in Nat /\ Size(f.got) \in Nat
  BY FlowLens
<1>1. /\ g.copying = FALSE /\ g.buf = <<>> /\ g.eof = told
      /\ g.sent = f.sent /\ g.fin = f.fin /\ g.in = f.in /\ g.got = f.got /\ g.out = f.out
  BY DEF Flow, Stopped
<1>2. g \in Flow
  BY <1>1, EmptyRun DEF Flow, Stopped
<1>3. Size(g.buf) = 0 /\ lost \in Nat
  BY <1>1, EmptyRun DEF FlowOK
<1>4. lost + Size(g.got) + Size(g.out) + Size(g.buf) + Size(g.in) <= g.sent
  BY <1>1, <1>3, <1>0 DEF FlowOK
<1>5. ASSUME told, c PROVE lost + Size(g.got) + Size(g.out) = g.sent
  <2>1. Size(f.in) = 0 /\ Size(f.buf) = 0
    BY <1>5, EmptyRun
  <2> QED
    BY <1>1, <1>3, <2>1, <1>0 DEF FlowOK
<1>6. Run(g.buf, lost + Size(g.got) + Size(g.out))
  BY <1>1, EmptyRun
<1> QED
  BY <1>1, <1>2, <1>3, <1>4, <1>5, <1>6 DEF FlowOK

-----------------------------------------------------------------------------
(***************************************************************************)
(* The inductive invariant.                                                *)
(***************************************************************************)
Typed ==
  /\ entry \in Entries /\ egress \in Egresses
  /\ pc \in {"request", "relay", "done"} \cup Setup
  /\ answer \in {"none", "yes", "no"}
  /\ socket \in [Sides -> {"none", "open", "closed"}]
  /\ deadline \subseteq Sides /\ gone \subseteq Sides
  /\ kicked \in BOOLEAN
  /\ flow \in [Dirs -> Flow]

\* Which sockets have a deadline at which step of the handler.
Deadlines ==
  /\ pc = "request" => deadline \subseteq {"client"}
  /\ pc \in Exchanges => deadline = {"remote"}
  /\ pc \in {"dialing", "refused", "reply", "relay"} => deadline = {}

\* Which sockets are open: those the handler has, until it returns or is kicked; no
\* remote one before the dial, nor when the dial has returned an error.
Sockets ==
  /\ pc \in {"request", "dialing", "refused"} => socket["remote"] # "open"
  /\ pc = "done" => \A s \in Sides : socket[s] # "open"
  /\ ~ kicked /\ pc # "done" => socket["client"] = "open"
  /\ ~ kicked /\ pc \in Exchanges \cup {"reply", "relay"} => socket["remote"] = "open"

\* Nothing is copied before the relay.
NotYetCopied ==
  pc \notin {"relay", "done"} =>
    \A d \in Dirs : /\ flow[d].got = <<>> /\ flow[d].out = <<>> /\ flow[d].buf = <<>>
                    /\ flow[d].copying /\ ~ flow[d].eof

Clean == ~ kicked /\ gone = {}

Streams ==
  \A d \in Dirs : \E lost \in 0..flow[d].sent : FlowOK(flow[d], lost, MayLoseStart(d), Clean)

IndInv == Typed /\ Deadlines /\ Sockets /\ NotYetCopied /\ Streams

\* What a step makes of the one direction it touches.
LEMMA OneFlowChanges ==
  ASSUME Typed, Streams, NEW d \in Dirs, NEW g \in Flow, NEW lost,
         FlowOK(g, lost, MayLoseStart(d), Clean),
         flow' = [flow EXCEPT ![d] = g], UNCHANGED <<entry, egress, gone, kicked>>
  PROVE  /\ flow' \in [Dirs -> Flow] /\ Streams'
         /\ flow'[d] = g /\ \A e \in Dirs \ {d} : flow'[e] = flow[e]
<1>1. /\ flow' \in [Dirs -> Flow]
      /\ flow'[d] = g /\ \A e \in Dirs \ {d} : flow'[e] = flow[e]
  BY DEF Typed
<1>2. Clean' = Clean /\ \A e \in Dirs : MayLoseStart(e)' = MayLoseStart(e)
  BY DEF Clean, MayLoseStart
<1>3. lost \in 0..g.sent
  <2>1. g.sent \in Nat /\ Size(g.in) \in Nat /\ Size(g.buf) \in Nat /\ Size(g.out) \in Nat
        /\ Size(g.got) \in Nat
    BY FlowLens
  <2>2. lost \in Nat /\ lost + Size(g.got) + Size(g.out) + Size(g.buf) + Size(g.in) <= g.sent
    BY DEF FlowOK
  <2> QED
    BY <2>1, <2>2
<1>4. ASSUME NEW e \in Dirs
      PROVE  \E k \in 0..flow'[e].sent : FlowOK(flow'[e], k, MayLoseStart(e)', Clean')
  <2>1. CASE e = d
    BY <1>1, <1>2, <1>3, <2>1
  <2>2. CASE e # d
    BY <1>1, <1>2, <2>2 DEF Streams
  <2> QED
    BY <2>1, <2>2
<1> QED
  BY <1>1, <1>4 DEF Streams

\* No direction is touched; someone may be kicked or vanish meanwhile.
LEMMA NoFlowChanges ==
  ASSUME Typed, Streams, UNCHANGED <<entry, egress, flow>>, Clean' => Clean
  PROVE  flow' \in [Dirs -> Flow] /\ Streams'
<1>1. \A e \in Dirs : MayLoseStart(e)' = MayLoseStart(e)
  BY DEF MayLoseStart
<1>2. ASSUME NEW f, NEW k, NEW m, FlowOK(f, k, m, Clean)
      PROVE  FlowOK(f, k, m, Clean')
  BY <1>2 DEF FlowOK
<1>3. ASSUME NEW e \in Dirs
      PROVE  \E k \in 0..flow[e].sent : FlowOK(flow[e], k, MayLoseStart(e)', Clean')
  <2>1. PICK k \in 0..flow[e].sent : FlowOK(flow[e], k, MayLoseStart(e), Clean)
    BY DEF Streams
  <2>2. FlowOK(flow[e], k, MayLoseStart(e), Clean')
    BY <1>2, <2>1
  <2> QED
    BY <1>1, <2>2
<1> QED
  BY <1>3 DEF Typed, Streams

\* The direction d, and how many of its chunks are gone.
LEMMA FlowAt ==
  ASSUME Typed, Streams, NEW d \in Dirs
  PROVE  /\ flow[d] \in Flow /\ MayLoseStart(d) \in BOOLEAN /\ Clean \in BOOLEAN
         /\ \E lost : lost \in 0..flow[d].sent /\ FlowOK(flow[d], lost, MayLoseStart(d), Clean)
BY DEF Typed, Streams, MayLoseStart, Clean

-----------------------------------------------------------------------------
(***************************************************************************)
(* The peers' steps.                                                       *)
(***************************************************************************)

\* What the conjuncts other than Streams say is kept by a step of a direction that
\* leaves the handler alone.
LEMMA HandlerUndisturbed ==
  ASSUME IndInv, UNCHANGED <<entry, egress, pc, answer, socket, deadline, gone, kicked>>,
         flow' \in [Dirs -> Flow]
  PROVE  Typed' /\ Deadlines' /\ Sockets'
BY DEF IndInv, Typed, Deadlines, Sockets

\* The source sends.
LEMMA SendsPreservesInv ==
  ASSUME IndInv, NEW d \in Dirs, Sends(d)
  PROVE  IndInv'
<1>1. PICK lost : FlowOK(flow[d], lost, MayLoseStart(d), Clean)
  BY FlowAt DEF IndInv
<1>2. flow[d] \in Flow /\ MayLoseStart(d) \in BOOLEAN /\ Clean \in BOOLEAN
  BY FlowAt DEF IndInv
<1>3. UNCHANGED <<entry, egress, pc, answer, socket, deadline, gone, kicked>>
  BY DEF Sends, Fixed
<1>4. ~ flow[d].fin /\ flow[d].sent < MaxChunks
  BY DEF Sends
<1>5. flow' = [flow EXCEPT ![d] = Sent(flow[d])]
  BY DEF Sends, Sent, IndInv, Typed
<1>6. Sent(flow[d]) \in Flow /\ FlowOK(Sent(flow[d]), lost, MayLoseStart(d), Clean)
  BY <1>1, <1>2, <1>4, SendKeepsFlow
<1>7. /\ flow' \in [Dirs -> Flow] /\ Streams'
      /\ flow'[d] = Sent(flow[d]) /\ \A e \in Dirs \ {d} : flow'[e] = flow[e]
  BY <1>3, <1>5, <1>6, OneFlowChanges DEF IndInv
<1>8. NotYetCopied'
  <2>1. /\ Sent(flow[d]).got = flow[d].got /\ Sent(flow[d]).out = flow[d].out
        /\ Sent(flow[d]).buf = flow[d].buf /\ Sent(flow[d]).copying = flow[d].copying
        /\ Sent(flow[d]).eof = flow[d].eof
    BY <1>2 DEF Sent, Flow
  <2>2. \A e \in Dirs : /\ flow'[e].got = flow[e].got /\ flow'[e].out = flow[e].out
                        /\ flow'[e].buf = flow[e].buf /\ flow'[e].copying = flow[e].copying
                        /\ flow'[e].eof = flow[e].eof
    BY <1>7, <2>1
  <2> QED
    BY <1>3, <2>2 DEF IndInv, NotYetCopied
<1> QED
  BY <1>3, <1>7, <1>8, HandlerUndisturbed DEF IndInv

\* The source is done.
LEMMA HalfClosesPreservesInv ==
  ASSUME IndInv, NEW d \in Dirs, HalfCloses(d)
  PROVE  IndInv'
<1>1. PICK lost : FlowOK(flow[d], lost, MayLoseStart(d), Clean)
  BY FlowAt DEF IndInv
<1>2. flow[d] \in Flow /\ MayLoseStart(d) \in BOOLEAN /\ Clean \in BOOLEAN
  BY FlowAt DEF IndInv
<1>3. UNCHANGED <<entry, egress, pc, answer, socket, deadline, gone, kicked>>
  BY DEF HalfCloses, Fixed
<1>4. flow' = [flow EXCEPT ![d] = Finished(flow[d])]
  BY DEF HalfCloses, Finished, IndInv, Typed
<1>5. Finished(flow[d]) \in Flow /\ FlowOK(Finished(flow[d]), lost, MayLoseStart(d), Clean)
  BY <1>1, <1>2, HalfCloseKeepsFlow
<1>6. /\ flow' \in [Dirs -> Flow] /\ Streams'
      /\ flow'[d] = Finished(flow[d]) /\ \A e \in Dirs \ {d} : flow'[e] = flow[e]
  BY <1>3, <1>4, <1>5, OneFlowChanges DEF IndInv
<1>7. NotYetCopied'
  <2>1. /\ Finished(flow[d]).got = flow[d].got /\ Finished(flow[d]).out = flow[d].out
        /\ Finished(flow[d]).buf = flow[d].buf /\ Finished(flow[d]).copying = flow[d].copying
        /\ Finished(flow[d]).eof = flow[d].eof
    BY <1>2 DEF Finished, Flow
  <2>2. \A e \in Dirs : /\ flow'[e].got = flow[e].got /\ flow'[e].out = flow[e].out
                        /\ flow'[e].buf = flow[e].buf /\ flow'[e].copying = flow[e].copying
                        /\ flow'[e].eof = flow[e].eof
    BY <1>6, <2>1
  <2> QED
    BY <1>3, <2>2 DEF IndInv, NotYetCopied
<1> QED
  BY <1>3, <1>6, <1>7, HandlerUndisturbed DEF IndInv

\* The destination reads.
LEMMA ReceivesPreservesInv ==
  ASSUME IndInv, NEW d \in Dirs, Receives(d)
  PROVE  IndInv'
<1>1. PICK lost : FlowOK(flow[d], lost, MayLoseStart(d), Clean)
  BY FlowAt DEF IndInv
<1>2. flow[d] \in Flow /\ MayLoseStart(d) \in BOOLEAN /\ Clean \in BOOLEAN
  BY FlowAt DEF IndInv
<1>3. UNCHANGED <<entry, egress, pc, answer, socket, deadline, gone, kicked>>
  BY DEF Receives, Fixed
<1>4. flow[d].out # <<>>
  BY DEF Receives
<1>5. flow' = [flow EXCEPT ![d] = Received(flow[d])]
  BY DEF Receives, Received, IndInv, Typed
<1>6. Received(flow[d]) \in Flow /\ FlowOK(Received(flow[d]), lost, MayLoseStart(d), Clean)
  BY <1>1, <1>2, <1>4, ReceiveKeepsFlow
<1>7. flow' \in [Dirs -> Flow] /\ Streams'
  BY <1>3, <1>5, <1>6, OneFlowChanges DEF IndInv
<1>8. NotYetCopied'
  BY <1>3, <1>4 DEF IndInv, NotYetCopied
<1> QED
  BY <1>3, <1>7, <1>8, HandlerUndisturbed DEF IndInv

\* A peer vanishes, or the upstream answers, or the user is kicked: the directions
\* are as they were.
LEMMA FlowsAlonePreserveInv ==
  ASSUME IndInv, (\E side \in Sides : Vanishes(side)) \/ UpstreamAnswers \/ Kick
  PROVE  IndInv'
<1>1. UNCHANGED <<entry, egress, pc, deadline, flow>> /\ (Clean' => Clean)
  BY DEF Vanishes, UpstreamAnswers, Kick, Fixed, Clean
<1>2. flow' \in [Dirs -> Flow] /\ Streams'
  BY <1>1, NoFlowChanges DEF IndInv
<1>3. Deadlines' /\ NotYetCopied'
  BY <1>1 DEF IndInv, Deadlines, NotYetCopied
<1>4. Typed' /\ Sockets'
  <2> USE DEF IndInv, Typed, Sockets
  <2>1. CASE \E side \in Sides : Vanishes(side)
    BY <1>2, <2>1 DEF Vanishes
  <2>2. CASE UpstreamAnswers
    BY <1>2, <2>2 DEF UpstreamAnswers, Fixed
  <2>3. CASE Kick
    <3>1. /\ kicked' = TRUE /\ UNCHANGED <<entry, egress, pc, answer, deadline, gone, flow>>
          /\ pc # "done"
      BY <2>3 DEF Kick, Setup, Exchanges
    <3>2. socket' \in [Sides -> {"none", "open", "closed"}]
      BY <2>3 DEF Kick
    <3>3. socket["remote"] # "open" => socket'["remote"] # "open"
      BY <2>3 DEF Kick, Sides
    <3> QED
      BY <1>2, <3>1, <3>2, <3>3
  <2> QED
    BY <2>1, <2>2, <2>3
<1> QED
  BY <1>2, <1>3, <1>4 DEF IndInv

-----------------------------------------------------------------------------
(***************************************************************************)
(* The handler's steps.                                                    *)
(***************************************************************************)

\* Every return of the handler closes all that is open: the client's socket, and the
\* remote one where there is one.
LEMMA EndPreservesInv ==
  ASSUME IndInv, End, pc \in {"request", "refused", "reply", "relay"}
  PROVE  IndInv'
<1>1. /\ pc' = "done" /\ answer' = "none"
      /\ UNCHANGED <<entry, egress, gone, kicked, flow>>
  BY DEF End, Fixed
<1>2. Clean' => Clean
  BY <1>1 DEF Clean
<1>3. flow' \in [Dirs -> Flow] /\ Streams'
  BY <1>1, <1>2, NoFlowChanges DEF IndInv
<1>4. /\ socket' \in [Sides -> {"none", "open", "closed"}] /\ deadline' \subseteq Sides
      /\ \A s \in Sides : socket'[s] # "open"
  BY DEF End, Deferred, Sides, IndInv, Typed, Sockets
<1>5. Typed'
  BY <1>1, <1>3, <1>4 DEF IndInv, Typed
<1>6. Deadlines' /\ Sockets' /\ NotYetCopied'
  BY <1>1, <1>4 DEF Deadlines, Sockets, NotYetCopied, Exchanges
<1> QED
  BY <1>3, <1>5, <1>6 DEF IndInv

\* Every error return of a handshake closes the remote socket, and takes its deadline
\* with it.
LEMMA GiveUpPreservesInv ==
  ASSUME IndInv, GiveUp, pc \in Exchanges
  PROVE  IndInv'
<1>1. /\ pc' = "refused" /\ answer' = "none"
      /\ socket' = [socket EXCEPT !["remote"] = "closed"] /\ deadline' = deadline \ {"remote"}
      /\ UNCHANGED <<entry, egress, gone, kicked, flow>>
  BY DEF GiveUp, Fixed
<1>2. Clean' => Clean
  BY <1>1 DEF Clean
<1>3. flow' \in [Dirs -> Flow] /\ Streams'
  BY <1>1, <1>2, NoFlowChanges DEF IndInv
<1>4. Typed'
  BY <1>1, <1>3 DEF IndInv, Typed, Setup, Sides
<1>5. Deadlines' /\ Sockets' /\ NotYetCopied'
  BY <1>1 DEF IndInv, Typed, Deadlines, Sockets, NotYetCopied, Exchanges, Sides
<1> QED
  BY <1>3, <1>4, <1>5 DEF IndInv

\* Every direction before the relay, of which the reader of the last message has
\* taken n chunks more than it was asked for.
LEMMA ReadaheadKeepsStreams ==
  ASSUME IndInv, pc \notin {"relay", "done"}, NEW d \in Dirs,
         NEW n \in Readahead(d, MayLoseStart(d)), flow' = Drop(d, n),
         UNCHANGED <<entry, egress, gone, kicked>>
  PROVE  /\ flow' \in [Dirs -> Flow] /\ Streams'
         /\ \A e \in Dirs : /\ flow'[e].got = <<>> /\ flow'[e].out = <<>> /\ flow'[e].buf = <<>>
                            /\ flow'[e].copying /\ ~ flow'[e].eof
<1>1. PICK lost : FlowOK(flow[d], lost, MayLoseStart(d), Clean)
  BY FlowAt DEF IndInv
<1>2. flow[d] \in Flow /\ MayLoseStart(d) \in BOOLEAN /\ Clean \in BOOLEAN
  BY FlowAt DEF IndInv
<1>3. \A e \in Dirs : /\ flow[e].got = <<>> /\ flow[e].out = <<>> /\ flow[e].buf = <<>>
                      /\ flow[e].copying /\ ~ flow[e].eof
  BY DEF IndInv, NotYetCopied
<1>4. n \in 0..Size(flow[d].in) /\ (MayLoseStart(d) \/ n = 0)
  <2>1. Size(flow[d].in) \in Nat
    BY <1>2, FlowLens
  <2>2. CASE MayLoseStart(d)
    BY <2>2 DEF Readahead, Size
  <2>3. CASE ~ MayLoseStart(d)
    BY <2>1, <2>3 DEF Readahead
  <2> QED
    BY <2>2, <2>3
<1>5. flow' = [flow EXCEPT ![d] = Dropped(flow[d], n)]
  BY DEF Drop, Dropped, IndInv, Typed
<1>6. Dropped(flow[d], n) \in Flow /\ FlowOK(Dropped(flow[d], n), lost + n, MayLoseStart(d), Clean)
  BY <1>1, <1>2, <1>3, <1>4, DropKeepsFlow
<1>7. /\ flow' \in [Dirs -> Flow] /\ Streams'
      /\ flow'[d] = Dropped(flow[d], n) /\ \A e \in Dirs \ {d} : flow'[e] = flow[e]
  BY <1>5, <1>6, OneFlowChanges DEF IndInv
<1> DEFINE f == flow[d]
           g == Dropped(flow[d], n)
<1>8. /\ g.got = f.got /\ g.out = f.out /\ g.buf = f.buf
      /\ g.copying = f.copying /\ g.eof = f.eof
  BY <1>2 DEF Dropped, Flow
<1>9. /\ flow'[d].got = <<>> /\ flow'[d].out = <<>> /\ flow'[d].buf = <<>>
      /\ flow'[d].copying /\ ~ flow'[d].eof
  BY <1>3, <1>7, <1>8
<1> QED
  BY <1>3, <1>7, <1>9

\* The request is admitted.
LEMMA AdmitPreservesInv ==
  ASSUME IndInv, Admit
  PROVE  IndInv'
<1>1. /\ pc = "request" /\ pc' = "dialing" /\ deadline' = deadline \ {"client"}
      /\ UNCHANGED <<entry, egress, answer, socket, gone, kicked>>
  BY DEF Admit, Fixed
<1>2. PICK n \in Readahead("up", MayLoseStart("up")) : flow' = Drop("up", n)
  BY DEF Admit, MayLoseStart
<1>3. /\ flow' \in [Dirs -> Flow] /\ Streams'
      /\ \A e \in Dirs : /\ flow'[e].got = <<>> /\ flow'[e].out = <<>> /\ flow'[e].buf = <<>>
                         /\ flow'[e].copying /\ ~ flow'[e].eof
  BY <1>1, <1>2, ReadaheadKeepsStreams DEF Dirs
<1>4. Typed'
  BY <1>1, <1>3 DEF IndInv, Typed, Setup
<1>5. Deadlines' /\ Sockets'
  BY <1>1 DEF IndInv, Deadlines, Sockets, Exchanges
<1> QED
  BY <1>3, <1>4, <1>5 DEF IndInv, NotYetCopied

\* The handshake with the upstream is done.
LEMMA EstablishedPreservesInv ==
  ASSUME IndInv, Established
  PROVE  IndInv'
<1>1. /\ pc = "connect" /\ pc' = "reply" /\ answer' = "none" /\ deadline' = deadline \ {"remote"}
      /\ UNCHANGED <<entry, egress, socket, gone, kicked>>
  BY DEF Established, Fixed
<1>2. PICK n \in Readahead("down", MayLoseStart("down")) : flow' = Drop("down", n)
  BY DEF Established, MayLoseStart
<1>3. /\ flow' \in [Dirs -> Flow] /\ Streams'
      /\ \A e \in Dirs : /\ flow'[e].got = <<>> /\ flow'[e].out = <<>> /\ flow'[e].buf = <<>>
                         /\ flow'[e].copying /\ ~ flow'[e].eof
  BY <1>1, <1>2, ReadaheadKeepsStreams DEF Dirs
<1>4. Typed'
  BY <1>1, <1>3 DEF IndInv, Typed, Setup
<1>5. Deadlines' /\ Sockets'
  BY <1>1 DEF IndInv, Deadlines, Sockets, Exchanges
<1> QED
  BY <1>3, <1>4, <1>5 DEF IndInv, NotYetCopied

\* The handler goes on by a step that touches no direction and does not return.
LEMMA HandlerMovesPreservesInv ==
  ASSUME IndInv, DialTCP \/ DialFails \/ Exchange \/ (Reply /\ ~ End)
  PROVE  IndInv'
<1>1. UNCHANGED <<entry, egress, gone, kicked, flow>>
  BY DEF DialTCP, DialFails, Exchange, Reply, Fixed
<1>2. Clean' => Clean
  BY <1>1 DEF Clean
<1>3. flow' \in [Dirs -> Flow] /\ Streams'
  BY <1>1, <1>2, NoFlowChanges DEF IndInv
<1>4. CASE DialTCP
  <2>1. /\ pc = "dialing" /\ answer' = answer
        /\ socket' = [socket EXCEPT !["remote"] = "open"]
        /\ \/ pc' = "reply" /\ deadline' = deadline
           \/ pc' \in {"connect", "greeting"} /\ deadline' = deadline \cup {"remote"}
    <3>1. egress \in {"direct", "http-upstream", "socks5-upstream"}
      BY TunnelAssumption DEF IndInv, Typed
    <3> QED
      BY <1>4, <3>1 DEF DialTCP
  <2>2. Typed'
    BY <1>1, <1>3, <2>1 DEF IndInv, Typed, Setup, Exchanges, Sides
  <2>3. Deadlines' /\ Sockets'
    BY <1>1, <2>1 DEF IndInv, Typed, Deadlines, Sockets, Exchanges, Sides
  <2>4. NotYetCopied'
    BY <1>1, <2>1 DEF IndInv, NotYetCopied
  <2> QED
    BY <1>3, <2>2, <2>3, <2>4 DEF IndInv
<1>5. CASE DialFails
  <2>1. pc = "dialing" /\ pc' = "refused" /\ UNCHANGED <<answer, socket, deadline>>
    BY <1>5 DEF DialFails
  <2>2. Typed'
    BY <1>1, <1>3, <2>1 DEF IndInv, Typed, Setup
  <2>3. Deadlines' /\ Sockets' /\ NotYetCopied'
    BY <1>1, <2>1 DEF IndInv, Deadlines, Sockets, NotYetCopied, Exchanges
  <2> QED
    BY <1>3, <2>2, <2>3 DEF IndInv
<1>6. CASE Exchange
  <2>1. /\ pc \in {"greeting", "auth"} /\ pc' \in {"auth", "connect"}
        /\ answer' = "none" /\ UNCHANGED <<socket, deadline>>
    BY <1>6 DEF Exchange
  <2>2. Typed'
    BY <1>1, <1>3, <2>1 DEF IndInv, Typed, Setup, Exchanges
  <2>3. Deadlines' /\ Sockets'
    BY <1>1, <2>1 DEF IndInv, Deadlines, Sockets, Exchanges
  <2>4. NotYetCopied'
    BY <1>1, <2>1 DEF IndInv, NotYetCopied
  <2> QED
    BY <1>3, <2>2, <2>3, <2>4 DEF IndInv
<1>7. CASE Reply /\ ~ End
  <2>1. pc = "reply" /\ pc' = "relay" /\ UNCHANGED <<answer, socket, deadline>>
    BY <1>7 DEF Reply
  <2>2. Typed'
    BY <1>1, <1>3, <2>1 DEF IndInv, Typed
  <2>3. Deadlines' /\ Sockets' /\ NotYetCopied'
    BY <1>1, <2>1 DEF IndInv, Deadlines, Sockets, NotYetCopied, Exchanges
  <2> QED
    BY <1>3, <2>2, <2>3 DEF IndInv
<1> QED
  BY <1>4, <1>5, <1>6, <1>7

-----------------------------------------------------------------------------
(***************************************************************************)
(* The relay's steps.                                                      *)
(***************************************************************************)

\* While nobody is kicked or has vanished, both sockets of the relay are usable.
LEMMA CleanRelayUsable ==
  ASSUME IndInv, pc = "relay", Clean, NEW side \in Sides
  PROVE  Usable(side)
BY DEF IndInv, Sockets, Clean, Usable, Sides

\* A direction stops.
LEMMA StopPreservesInv ==
  ASSUME IndInv, NEW d \in Dirs, Copies(d), Stop(d),
         UNCHANGED <<entry, egress, pc, answer, socket, deadline, gone, kicked>>,
         Clean /\ Usable(Dst(d)) => flow[d].fin /\ flow[d].in = <<>> /\ flow[d].buf = <<>>
  PROVE  IndInv'
<1>1. PICK lost : FlowOK(flow[d], lost, MayLoseStart(d), Clean)
  BY FlowAt DEF IndInv
<1>2. /\ flow[d] \in Flow /\ MayLoseStart(d) \in BOOLEAN /\ Clean \in BOOLEAN
      /\ Usable(Dst(d)) \in BOOLEAN
  BY FlowAt DEF IndInv, Usable
<1>3. pc = "relay" /\ flow[d].copying
  BY DEF Copies
<1>4. flow' = [flow EXCEPT ![d] = Stopped(flow[d], Usable(Dst(d)))]
  BY DEF Stop, Stopped, IndInv, Typed
<1>5. /\ Stopped(flow[d], Usable(Dst(d))) \in Flow
      /\ FlowOK(Stopped(flow[d], Usable(Dst(d))), lost, MayLoseStart(d), Clean)
  BY <1>1, <1>2, <1>3, StopKeepsFlow
<1>6. flow' \in [Dirs -> Flow] /\ Streams'
  BY <1>4, <1>5, OneFlowChanges DEF IndInv
<1>7. NotYetCopied'
  BY <1>3 DEF NotYetCopied
<1> QED
  BY <1>6, <1>7, HandlerUndisturbed DEF IndInv

\* copyMetered reads, or comes to the end of its source.
LEMMA ReadPreservesInv ==
  ASSUME IndInv, NEW d \in Dirs, Read(d)
  PROVE  IndInv'
<1>1. PICK lost : FlowOK(flow[d], lost, MayLoseStart(d), Clean)
  BY FlowAt DEF IndInv
<1>2. flow[d] \in Flow /\ MayLoseStart(d) \in BOOLEAN /\ Clean \in BOOLEAN
  BY FlowAt DEF IndInv
<1>3. UNCHANGED <<entry, egress, pc, answer, socket, deadline, gone, kicked>>
  BY DEF Read, Fixed
<1>4. Copies(d) /\ pc = "relay" /\ flow[d].copying /\ flow[d].buf = <<>>
  BY DEF Read, Copies
<1>5. CASE /\ flow[d].in # <<>>
           /\ flow' = [flow EXCEPT ![d].buf = <<Head(flow[d].in)>>, ![d].in = Tail(@)]
  <2>1. flow' = [flow EXCEPT ![d] = Filled(flow[d])]
    BY <1>5 DEF Filled, IndInv, Typed
  <2>2. Filled(flow[d]) \in Flow /\ FlowOK(Filled(flow[d]), lost, MayLoseStart(d), Clean)
    BY <1>1, <1>2, <1>4, <1>5, ReadKeepsFlow
  <2>3. flow' \in [Dirs -> Flow] /\ Streams'
    BY <1>3, <2>1, <2>2, OneFlowChanges DEF IndInv
  <2>4. NotYetCopied'
    BY <1>3, <1>4 DEF NotYetCopied
  <2> QED
    BY <1>3, <2>3, <2>4, HandlerUndisturbed DEF IndInv
<1>6. CASE flow[d].in = <<>> /\ flow[d].fin /\ Stop(d)
  BY <1>3, <1>4, <1>6, StopPreservesInv
<1>7. CASE ~ Usable(Src(d)) /\ Stop(d)
  <2>1. ~ Clean
    BY <1>4, <1>7, CleanRelayUsable DEF Src, Sides
  <2> QED
    BY <1>3, <1>4, <1>7, <2>1, StopPreservesInv
<1> QED
  BY <1>5, <1>6, <1>7 DEF Read

\* copyMetered writes, or finds that it cannot.
LEMMA WritePreservesInv ==
  ASSUME IndInv, NEW d \in Dirs, Write(d)
  PROVE  IndInv'
<1>1. PICK lost : FlowOK(flow[d], lost, MayLoseStart(d), Clean)
  BY FlowAt DEF IndInv
<1>2. flow[d] \in Flow /\ MayLoseStart(d) \in BOOLEAN /\ Clean \in BOOLEAN
  BY FlowAt DEF IndInv
<1>3. UNCHANGED <<entry, egress, pc, answer, socket, deadline, gone, kicked>>
  BY DEF Write, Fixed
<1>4. Copies(d) /\ pc = "relay" /\ flow[d].copying /\ flow[d].buf # <<>>
  BY DEF Write, Copies
<1>5. CASE /\ Len(flow[d].out) < Window
           /\ flow' = [flow EXCEPT ![d].out = @ \o flow[d].buf, ![d].buf = <<>>]
  <2>1. flow' = [flow EXCEPT ![d] = Written(flow[d])] /\ Size(flow[d].out) < Window
    BY <1>5 DEF Written, IndInv, Typed, Size
  <2>2. Written(flow[d]) \in Flow /\ FlowOK(Written(flow[d]), lost, MayLoseStart(d), Clean)
    BY <1>1, <1>2, <1>4, <2>1, WriteKeepsFlow
  <2>3. flow' \in [Dirs -> Flow] /\ Streams'
    BY <1>3, <2>1, <2>2, OneFlowChanges DEF IndInv
  <2>4. NotYetCopied'
    BY <1>3, <1>4 DEF NotYetCopied
  <2> QED
    BY <1>3, <2>3, <2>4, HandlerUndisturbed DEF IndInv
<1>6. CASE ~ Usable(Dst(d)) /\ Stop(d)
  BY <1>3, <1>4, <1>6, StopPreservesInv
<1> QED
  BY <1>5, <1>6 DEF Write

-----------------------------------------------------------------------------
(***************************************************************************)
(* The results.                                                            *)
(***************************************************************************)

\* An accepted connection satisfies the inductive invariant.
THEOREM InitEstablishesInv == Init => IndInv
<1> SUFFICES ASSUME Init PROVE IndInv
  OBVIOUS
<1>1. \A d \in Dirs : flow[d] = FreshFlow
  BY DEF Init
<1>2. FreshFlow \in Flow
  BY EmptyRun, Bounds DEF FreshFlow, Flow
<1>3. \A m, c : FlowOK(FreshFlow, 0, m, c)
  <2>1. /\ FreshFlow.sent = 0 /\ FreshFlow.in = <<>> /\ FreshFlow.buf = <<>>
        /\ FreshFlow.out = <<>> /\ FreshFlow.got = <<>> /\ FreshFlow.eof = FALSE
    BY DEF FreshFlow
  <2>2. Size(<<>>) = 0
    BY EmptyRun
  <2> QED
    BY <2>1, <2>2, EmptyRun, Bounds DEF FlowOK
<1>4. Typed
  BY <1>1, <1>2 DEF Init, Typed, Sides
<1>5. Deadlines /\ Sockets
  BY DEF Init, Deadlines, Sockets, Exchanges, Sides
<1>6. NotYetCopied
  BY <1>1 DEF NotYetCopied, FreshFlow
<1>7. Streams
  <2>1. \A d \in Dirs : 0 \in 0..flow[d].sent
    BY <1>1 DEF FreshFlow
  <2> QED
    BY <1>1, <1>3, <2>1 DEF Streams
<1> QED
  BY <1>4, <1>5, <1>6, <1>7 DEF IndInv

\* The inductive invariant is kept by every step.
THEOREM NextPreservesInv == IndInv /\ [Next]_vars => IndInv'
<1> SUFFICES ASSUME IndInv, [Next]_vars PROVE IndInv'
  OBVIOUS
<1>1. CASE Peers
  BY <1>1, SendsPreservesInv, HalfClosesPreservesInv, ReceivesPreservesInv,
     FlowsAlonePreserveInv DEF Peers
<1>2. CASE Kick
  BY <1>2, FlowsAlonePreserveInv
<1>3. CASE Admit
  BY <1>3, AdmitPreservesInv
<1>4. CASE Reject
  BY <1>4, EndPreservesInv DEF Reject
<1>5. CASE Handler
  <2>1. CASE UpstreamRefuses \/ UpstreamLost \/ HandshakeTimeout \/ CannotAsk
    BY <2>1, GiveUpPreservesInv
       DEF UpstreamRefuses, UpstreamLost, HandshakeTimeout, CannotAsk, Exchanges
  <2>2. CASE Refuse \/ (Reply /\ End) \/ RelayEnds
    BY <2>2, EndPreservesInv DEF Refuse, Reply, RelayEnds
  <2>3. CASE DialTCP \/ DialFails \/ Exchange \/ Established \/ (Reply /\ ~ End)
    BY <2>3, EstablishedPreservesInv, HandlerMovesPreservesInv
  <2> QED
    BY <1>5, <2>1, <2>2, <2>3 DEF Handler
<1>6. CASE \E d \in Dirs : Read(d) \/ Write(d)
  BY <1>6, ReadPreservesInv, WritePreservesInv
<1>7. CASE UNCHANGED vars
  <2>1. UNCHANGED <<entry, egress, pc, answer, socket, deadline, gone, kicked, flow>>
    BY <1>7 DEF vars
  <2>2. (Clean' => Clean)
    BY <2>1 DEF Clean
  <2>3. flow' \in [Dirs -> Flow] /\ Streams'
    BY <2>1, <2>2, NoFlowChanges DEF IndInv
  <2>4. NotYetCopied'
    BY <2>1 DEF IndInv, NotYetCopied
  <2> QED
    BY <2>1, <2>3, <2>4, HandlerUndisturbed DEF IndInv
<1> QED
  BY <1>1, <1>2, <1>3, <1>4, <1>5, <1>6, <1>7 DEF Next

\* The inductive invariant holds in every reachable state.
THEOREM InvariantHolds == Spec => []IndInv
BY InitEstablishesInv, NextPreservesInv, PTL DEF Spec

\* No relay runs under a deadline, no dial returns an error and leaves a socket open,
\* whichever exchange failed, and no handler returns with one, whenever the kick came.
THEOREM SocketsOrdered == Spec => []SocketsInOrder
<1>1. IndInv => SocketsInOrder
  BY DEF IndInv, Deadlines, Sockets, SocketsInOrder
<1> QED
  BY <1>1, InvariantHolds, PTL

\* A chunk sequence that is a run, element by element.
LEMMA RunIsTyped ==
  ASSUME NEW s \in Seq(Nat), NEW k \in Nat, NEW n \in Nat, Run(s, k), k + Size(s) <= n,
         n <= MaxChunks
  PROVE  s \in Chunks
<1>1. Size(s) = Len(s) /\ Len(s) \in Nat /\ DOMAIN s = 1..Len(s) /\ s \in [1..Len(s) -> Nat]
  BY LenProperties DEF Size
<1>2. Len(s) \in 0..MaxChunks
  BY <1>1, Bounds
<1>3. \A i \in 1..Len(s) : s[i] \in 1..MaxChunks
  BY <1>1, Bounds DEF Run
<1>4. s \in [1..Len(s) -> 1..MaxChunks]
  BY <1>1, <1>3
<1> QED
  BY <1>2, <1>4 DEF Chunks

\* Every variable stays in its type: no socket holds more than its window, and
\* copyMetered's buffer never more than one chunk.
THEOREM TypeCorrect == Spec => []TypeOK
<1>1. IndInv => TypeOK
  <2> SUFFICES ASSUME IndInv PROVE TypeOK
    OBVIOUS
  <2>1. ASSUME NEW d \in Dirs
        PROVE  /\ flow[d] \in [sent : 0..MaxChunks, fin : BOOLEAN, in : Chunks, buf : Chunks,
                               out : Chunks, got : Chunks, eof : BOOLEAN, copying : BOOLEAN]
               /\ Len(flow[d].out) <= Window /\ Len(flow[d].buf) <= 1
    <3> DEFINE f == flow[d]
    <3>1. PICK lost : FlowOK(f, lost, MayLoseStart(d), Clean)
      BY FlowAt DEF IndInv
    <3>2. /\ f \in Flow /\ f.sent \in Nat /\ f.sent <= MaxChunks
          /\ f.in \in Seq(Nat) /\ f.buf \in Seq(Nat) /\ f.out \in Seq(Nat) /\ f.got \in Seq(Nat)
          /\ Size(f.in) \in Nat /\ Size(f.buf) \in Nat /\ Size(f.out) \in Nat /\ Size(f.got) \in Nat
      BY FlowAt, FlowLens DEF IndInv
    <3> HIDE DEF f
    <3>3. /\ lost \in Nat /\ Run(f.got, lost) /\ Run(f.out, lost + Size(f.got))
          /\ Run(f.buf, lost + Size(f.got) + Size(f.out)) /\ Run(f.in, f.sent - Size(f.in))
          /\ lost + Size(f.got) + Size(f.out) + Size(f.buf) + Size(f.in) <= f.sent
          /\ Size(f.buf) <= 1 /\ Size(f.out) <= Window
      BY <3>1 DEF FlowOK
    <3>4. /\ lost + Size(f.got) \in Nat /\ lost + Size(f.got) + Size(f.out) \in Nat
          /\ f.sent - Size(f.in) \in Nat
          /\ lost + Size(f.got) <= f.sent /\ (lost + Size(f.got)) + Size(f.out) <= f.sent
          /\ (lost + Size(f.got) + Size(f.out)) + Size(f.buf) <= f.sent
          /\ (f.sent - Size(f.in)) + Size(f.in) <= f.sent
      <4>1. lost \in Nat /\ lost + Size(f.got) + Size(f.out) + Size(f.buf) + Size(f.in) <= f.sent
        BY <3>3
      <4>2. /\ f.sent \in Nat /\ Size(f.in) \in Nat /\ Size(f.buf) \in Nat
            /\ Size(f.out) \in Nat /\ Size(f.got) \in Nat
        BY <3>2
      <4> QED
        BY <4>1, <4>2
    <3>5. f.got \in Chunks
      BY <3>2, <3>3, <3>4, RunIsTyped
    <3>6. f.out \in Chunks
      BY <3>2, <3>3, <3>4, RunIsTyped
    <3>7. f.buf \in Chunks
      BY <3>2, <3>3, <3>4, RunIsTyped
    <3>8. f.in \in Chunks
      BY <3>2, <3>3, <3>4, RunIsTyped
    <3>9. Len(f.out) <= Window /\ Len(f.buf) <= 1
      BY <3>3 DEF Size
    <3>10. f \in [sent : 0..MaxChunks, fin : BOOLEAN, in : Chunks, buf : Chunks,
                  out : Chunks, got : Chunks, eof : BOOLEAN, copying : BOOLEAN]
      BY <3>2, <3>5, <3>6, <3>7, <3>8 DEF Flow
    <3> QED
      BY <3>9, <3>10 DEF f
  <2>2. flow \in [Dirs -> [sent : 0..MaxChunks, fin : BOOLEAN, in : Chunks, buf : Chunks,
                           out : Chunks, got : Chunks, eof : BOOLEAN, copying : BOOLEAN]]
    BY <2>1 DEF IndInv, Typed
  <2> QED
    BY <2>1, <2>2 DEF IndInv, Typed, TypeOK
<1> QED
  BY <1>1, InvariantHolds, PTL

\* The destination's chunks are the source's, in order, without a gap and from the
\* first one on, except where a bufio.Reader is dropped; and an end that nobody
\* forced comes after the last of them.
THEOREM StreamsStayIntact == Spec => []StreamsIntact
<1>1. ASSUME IndInv, NEW d \in Dirs
      PROVE  LET f == flow[d]
                 passed == f.got \o f.out
             IN  /\ \A i \in 1..(Len(passed) - 1) : passed[i + 1] = passed[i] + 1
                 /\ passed # <<>> /\ ~ MayLoseStart(d) => passed[1] = 1
                 /\ f.eof /\ ~ kicked /\ gone = {} =>
                       /\ f.fin /\ f.in = <<>>
                       /\ passed # <<>> => Last(passed) = f.sent
                       /\ passed = <<>> /\ ~ MayLoseStart(d) => f.sent = 0
  <2> DEFINE f == flow[d]
             passed == f.got \o f.out
  <2>1. PICK lost : FlowOK(f, lost, MayLoseStart(d), Clean)
    BY <1>1, FlowAt DEF IndInv
  <2>2. /\ f.sent \in Nat /\ f.out \in Seq(Nat) /\ f.got \in Seq(Nat)
        /\ Size(f.out) \in Nat /\ Size(f.got) \in Nat
    BY <1>1, FlowAt, FlowLens DEF IndInv
  <2>3. /\ lost \in Nat /\ (~ MayLoseStart(d) => lost = 0)
        /\ Run(f.got, lost) /\ Run(f.out, lost + Size(f.got))
    BY <2>1 DEF FlowOK
  <2>4. /\ Run(passed, lost) /\ passed \in Seq(Nat)
        /\ Size(passed) = Size(f.got) + Size(f.out)
    BY <2>2, <2>3, RunConcat
  <2>5. f.eof /\ ~ kicked /\ gone = {} =>
          f.fin /\ f.in = <<>> /\ lost + Size(f.got) + Size(f.out) = f.sent
    BY <2>1 DEF FlowOK, Clean
  <2> HIDE DEF f, passed
  <2>6. /\ Size(passed) = Len(passed) /\ Len(passed) \in Nat
        /\ passed # <<>> => Len(passed) >= 1
        /\ passed = <<>> => Len(passed) = 0
        /\ \A i \in 1..Len(passed) : passed[i] = lost + i
    <3>1. Size(passed) = Len(passed) /\ Len(passed) \in Nat
      BY <2>4, LenProperties DEF Size
    <3>2. passed # <<>> => Len(passed) >= 1
      BY <2>4, EmptySeq
    <3>3. passed = <<>> => Len(passed) = 0
      BY EmptySeq
    <3>4. \A i \in 1..Len(passed) : passed[i] = lost + i
      BY <2>4, <3>1 DEF Run
    <3> QED
      BY <3>1, <3>2, <3>3, <3>4
  <2>7. f.eof /\ ~ kicked /\ gone = {} => lost + Len(passed) = f.sent
    BY <2>2, <2>3, <2>4, <2>5, <2>6
  <2>8. \A i \in 1..(Len(passed) - 1) : passed[i + 1] = passed[i] + 1
    BY <2>3, <2>6
  <2>9. passed # <<>> /\ ~ MayLoseStart(d) => passed[1] = 1
    BY <2>3, <2>6
  <2>10. passed # <<>> => Last(passed) = lost + Len(passed)
    BY <2>6 DEF Last
  <2>11. f.eof /\ ~ kicked /\ gone = {} =>
           /\ f.fin /\ f.in = <<>>
           /\ passed # <<>> => Last(passed) = f.sent
           /\ passed = <<>> /\ ~ MayLoseStart(d) => f.sent = 0
    <3>1. passed # <<>> /\ lost + Len(passed) = f.sent => Last(passed) = f.sent
      BY <2>10
    <3>2. passed = <<>> /\ ~ MayLoseStart(d) /\ lost + Len(passed) = f.sent => f.sent = 0
      BY <2>2, <2>3, <2>6
    <3> QED
      BY <2>5, <2>7, <3>1, <3>2
  <2> QED
    BY <2>8, <2>9, <2>11 DEF f, passed
<1>2. IndInv => StreamsIntact
  BY <1>1 DEF StreamsIntact
<1> QED
  BY <1>2, InvariantHolds, PTL

\* A handler that waits for an upstream's answer has a deadline on that socket, so
\* an upstream that stays silent does not hold it for ever.
SilenceIsTimed == pc \in Exchanges => "remote" \in deadline

\* Each exchange with an upstream runs under its deadline, the first as the last.
THEOREM HandshakesAreTimed == Spec => []SilenceIsTimed
<1>1. IndInv => SilenceIsTimed
  BY DEF IndInv, Deadlines, SilenceIsTimed
<1> QED
  BY <1>1, InvariantHolds, PTL
=============================================================================
