------------------------- MODULE LuftNetworkProofs -------------------------
(***************************************************************************)
(* Proofs about LuftNetwork, for any number of peers, any messages, any    *)
(* lengths of headers and frames: telemetry clients receive whole frames,  *)
(* and commands are dispatched in the order they were sent.                *)
(***************************************************************************)
EXTENDS LuftNetwork, SequenceTheorems, TLAPS

Unit      == [declared : Int, number : Nat, valid : BOOLEAN]
Message   == [number : Nat, valid : BOOLEAN]
FrameUnit == [seq : Nat, part : Nat]
States    == {"out", "backlog", "open", "closed", "reset", "gone"}
Live      == {"open", "closed", "reset"}

PeerShapes ==
    /\ peers \in [Peers -> [port : {"telemetry", "command"}, state : States, stream : Seq(Unit),
                            wire : Seq(Unit), edge : BOOLEAN]]
    /\ clients \in [Peers -> [recv : Seq(Unit), messages : Seq(Message), send : Seq(FrameUnit),
                              offset : Nat]]
    /\ sentLog \in [Peers -> Seq(Messages)]
    /\ dispatched \in [Peers -> Seq(Nat)]
    /\ got \in [Peers -> Seq(FrameUnit)]

PollShapes ==
    /\ outbound \in Nat /\ published \in Nat /\ outbound <= published
    /\ net \in [pc : {"drain", "flush", "wait", "events", "read", "parse", "dispatch"},
                at : Peers \cup {Nobody}, flushed : SUBSET Peers, batch : SUBSET Peers]

\* A peer that is not connected has no client, and nothing on its way.
Absent(p) ==
    peers[p].state \notin Live =>
        clients[p] = NoClient /\ peers[p].stream = <<>> /\ peers[p].wire = <<>>

\* A peer that was never connected has sent and received nothing.
Fresh(p) ==
    peers[p].state \in {"out", "backlog"} =>
        sentLog[p] = <<>> /\ dispatched[p] = <<>> /\ got[p] = <<>>

-----------------------------------------------------------------------------
(* Telemetry: what a client has got and what is still in its buffer.       *)

Follows(a, b) ==
    \/ b.seq = a.seq /\ b.part = a.part + 1
    \/ b.seq > a.seq /\ b.part = 1 /\ a.part = FrameLength

Whole(s) ==
    /\ s # <<>> => s[1].part = 1
    /\ \A i \in 1 .. Len(s) - 1 : Follows(s[i], s[i + 1])

EndsWhole(s) == s # <<>> => s[Len(s)].part = FrameLength

\* The frames in s came before frame n.
Before(s, n) == \A i \in 1 .. Len(s) : s[i].seq < n

Pending(p) == SubSeq(clients[p].send, clients[p].offset + 1, Len(clients[p].send))

\* A reset connection may have lost the rest of a frame, and gets no more.
Telemetry(p) ==
    /\ clients[p].offset <= Len(clients[p].send)
    /\ Whole(got[p])
    /\ peers[p].state \notin {"reset", "gone"} =>
          LET s == got[p] \o Pending(p)
          IN  /\ Whole(s) /\ EndsWhole(s) /\ Before(s, published + 1)
              /\ outbound # 0 => Before(s, outbound)

-----------------------------------------------------------------------------
(* Commands: what has been dispatched and what is on its way.              *)

\* The messages up to d have been dispatched, if they make sense, in order.
Given(p, d) ==
    /\ d <= Len(sentLog[p])
    /\ \A i, j \in 1 .. Len(dispatched[p]) : i < j => dispatched[p][i] < dispatched[p][j]
    /\ \A i \in 1 .. Len(dispatched[p]) :
          /\ dispatched[p][i] \in 1 .. d
          /\ sentLog[p][dispatched[p][i]].valid
    /\ \A k \in 1 .. d : sentLog[p][k].valid =>
          \E i \in 1 .. Len(dispatched[p]) : dispatched[p][i] = k

\* What was read and not parsed, has arrived, or is to arrive.
Coming(p) == clients[p].recv \o peers[p].wire \o peers[p].stream

\* The messages up to k have been parsed.
Parsed(p, d, k) ==
    /\ d <= k /\ k <= Len(sentLog[p])
    /\ Len(clients[p].messages) = k - d
    /\ \A i \in 1 .. k - d :
          clients[p].messages[i] = [number |-> d + i, valid |-> sentLog[p][d + i].valid]

\* Message i of log, of those behind k, begins behind unit at[i] of s.
Laid(log, k, at, s) ==
    /\ at[k + 1] = 0 /\ at[Len(log) + 1] = Len(s)
    /\ \A i \in k + 1 .. Len(log) :
          /\ at[i] >= 0 /\ at[i + 1] = at[i] + log[i].length
          /\ \A j \in i + 1 .. Len(log) + 1 : at[i] + log[i].length <= at[j]
          /\ \A u \in 1 .. log[i].length : s[at[i] + u] = Units(log[i], i)[u]

Positions(log, k) == [k + 1 .. Len(log) + 1 -> Int]

Commands(p) ==
    Conforming(p) =>
        \E d \in Nat :
            /\ Given(p, d)
            /\ peers[p].state # "gone" =>
                  \E k \in Nat : /\ Parsed(p, d, k)
                                 /\ \E at \in Positions(sentLog[p], k) : Laid(sentLog[p], k, at, Coming(p))

PeerInv(p) == Absent(p) /\ Fresh(p) /\ Telemetry(p) /\ Commands(p)

NetInv == PeerShapes /\ PollShapes /\ \A p \in Peers : PeerInv(p)

-----------------------------------------------------------------------------
(* Sequences of units.                                                     *)

LEMMA FrameFacts ==
  ASSUME NEW n \in Nat
  PROVE  /\ Frame(n) \in Seq(FrameUnit) /\ Len(Frame(n)) = FrameLength
         /\ \A i \in 1 .. FrameLength : Frame(n)[i].seq = n /\ Frame(n)[i].part = i
<1>1. FrameLength \in Nat
  BY NetAssumption
<1>2. \A k \in 1 .. FrameLength : [seq |-> n, part |-> k] \in FrameUnit
  BY <1>1 DEF FrameUnit
<1>. QED
  BY <1>1, <1>2 DEF Frame

LEMMA UnitsFacts ==
  ASSUME NEW m \in Messages, NEW i \in Nat
  PROVE  Units(m, i) \in Seq(Unit) /\ Len(Units(m, i)) = m.length
<1>1. m.length \in Nat /\ m.declared \in Int /\ m.junk \in Int /\ m.valid \in BOOLEAN
  BY MessagesAssumption
<1>2. \A k \in 1 .. m.length :
         [declared |-> IF k = 1 THEN m.declared ELSE m.junk, number |-> i, valid |-> m.valid] \in Unit
  BY <1>1 DEF Unit
<1>. QED
  BY <1>1, <1>2 DEF Units

(* Units put together. *)
Joined(s, t) == s \o t

LEMMA JoinedFacts ==
  ASSUME NEW s \in Seq(Unit), NEW t \in Seq(Unit)
  PROVE  /\ Len(s) \in Nat /\ Len(t) \in Nat
         /\ Joined(s, t) \in Seq(Unit) /\ Len(Joined(s, t)) = Len(s) + Len(t)
         /\ \A i \in 1 .. Len(s) : Joined(s, t)[i] = s[i]
         /\ \A i \in 1 .. Len(t) : Joined(s, t)[Len(s) + i] = t[i]
<1>1. PICK x : x = s \o t
  OBVIOUS
<1>2. /\ Len(s) \in Nat /\ Len(t) \in Nat /\ x \in Seq(Unit) /\ Len(x) = Len(s) + Len(t)
      /\ \A i \in 1 .. Len(s) + Len(t) : x[i] = IF i <= Len(s) THEN s[i] ELSE t[i - Len(s)]
  BY <1>1, ConcatProperties
<1>3. ASSUME NEW i \in 1 .. Len(t) PROVE x[Len(s) + i] = t[i]
  <2>1. /\ Len(s) + i \in 1 .. Len(s) + Len(t) /\ ~(Len(s) + i <= Len(s))
        /\ (Len(s) + i) - Len(s) = i
    BY <1>2
  <2>. QED
    BY <1>2, <2>1
<1>. QED
  BY <1>1, <1>2, <1>3 DEF Joined

LEMMA UnitsJoin ==
  ASSUME NEW s \in Seq(Unit), NEW t \in Seq(Unit), NEW u \in Seq(Unit)
  PROVE  Joined(Joined(s, t), u) = Joined(s, Joined(t, u))
<1>1. (s \o t) \o u = s \o (t \o u)
  BY ConcatAssociative
<1>. QED
  BY <1>1 DEF Joined

LEMMA FramesJoin ==
  ASSUME NEW s \in Seq(FrameUnit), NEW t \in Seq(FrameUnit), NEW u \in Seq(FrameUnit)
  PROVE  Joined(Joined(s, t), u) = Joined(s, Joined(t, u))
<1>1. (s \o t) \o u = s \o (t \o u)
  BY ConcatAssociative
<1>. QED
  BY <1>1 DEF Joined

LEMMA UnitsCut ==
  ASSUME NEW s \in Seq(Unit), NEW n \in 0 .. Len(s)
  PROVE  /\ SubSeq(s, 1, n) \in Seq(Unit) /\ Len(SubSeq(s, 1, n)) = n
         /\ SubSeq(s, n + 1, Len(s)) \in Seq(Unit) /\ Len(SubSeq(s, n + 1, Len(s))) = Len(s) - n
         /\ \A i \in 1 .. Len(s) - n : SubSeq(s, n + 1, Len(s))[i] = s[n + i]
         /\ SubSeq(s, 1, n) \o SubSeq(s, n + 1, Len(s)) = s
<1>1. Len(s) \in Nat /\ n \in Nat /\ \A i \in 1 .. Len(s) : s[i] \in Unit
  BY ElementOfSeq, LenProperties
<1>2. PICK a : a = SubSeq(s, 1, n)
  OBVIOUS
<1>3. /\ a \in Seq(Unit) /\ Len(a) = n
      /\ \A i \in 1 .. n : a[i] = s[i]
  <2>1. \A i \in 1 .. n : s[i] \in Unit
    BY <1>1
  <2>2. /\ a \in Seq(Unit) /\ Len(a) = IF 1 <= n THEN n - 1 + 1 ELSE 0
        /\ \A i \in 1 .. n - 1 + 1 : a[i] = s[1 + i - 1]
    BY <1>1, <1>2, <2>1, SubSeqProperties
  <2>. QED
    BY <1>1, <2>2
<1>4. PICK b : b = SubSeq(s, n + 1, Len(s))
  OBVIOUS
<1>5. /\ b \in Seq(Unit) /\ Len(b) = Len(s) - n
      /\ \A i \in 1 .. Len(s) - n : b[i] = s[n + i]
  <2>1. \A i \in n + 1 .. Len(s) : s[i] \in Unit
    BY <1>1
  <2>2. /\ b \in Seq(Unit) /\ Len(b) = IF n + 1 <= Len(s) THEN Len(s) - (n + 1) + 1 ELSE 0
        /\ \A i \in 1 .. Len(s) - (n + 1) + 1 : b[i] = s[n + 1 + i - 1]
    BY <1>1, <1>4, <2>1, SubSeqProperties
  <2>. QED
    BY <1>1, <2>2
<1>6. PICK c : c = a \o b
  OBVIOUS
<1>7. /\ c \in Seq(Unit) /\ Len(c) = Len(a) + Len(b)
      /\ \A i \in 1 .. Len(a) + Len(b) : c[i] = IF i <= Len(a) THEN a[i] ELSE b[i - Len(a)]
  BY <1>3, <1>5, <1>6, ConcatProperties
<1>8. Len(c) = Len(s) /\ \A i \in 1 .. Len(c) : c[i] = s[i]
  BY <1>1, <1>3, <1>5, <1>7
<1>9. c = s
  BY <1>7, <1>8, SeqEqual
<1>. QED
  BY <1>2, <1>3, <1>4, <1>5, <1>6, <1>9

(* A frame behind whole frames that came before it. *)
LEMMA FrameAdded ==
  ASSUME NEW s \in Seq(FrameUnit), NEW n \in Nat, Whole(s), EndsWhole(s), Before(s, n)
  PROVE  /\ Whole(s \o Frame(n)) /\ EndsWhole(s \o Frame(n))
         /\ Before(s \o Frame(n), n + 1)
<1>1. FrameLength \in Nat /\ FrameLength >= 1
  BY NetAssumption
<1>2. PICK f \in Seq(FrameUnit) : f = Frame(n)
  BY FrameFacts
<1>3. Len(f) = FrameLength /\ \A i \in 1 .. FrameLength : f[i].seq = n /\ f[i].part = i
  BY <1>2, FrameFacts
<1>4. PICK t : t = s \o f
  OBVIOUS
<1>5. /\ t \in Seq(FrameUnit) /\ Len(t) = Len(s) + FrameLength /\ Len(s) \in Nat
      /\ \A i \in 1 .. Len(s) : t[i] = s[i]
      /\ \A i \in Len(s) + 1 .. Len(t) : t[i] = f[i - Len(s)]
  <2>1. /\ t \in Seq(FrameUnit) /\ Len(t) = Len(s) + Len(f) /\ Len(s) \in Nat
        /\ \A i \in 1 .. Len(s) + Len(f) : t[i] = IF i <= Len(s) THEN s[i] ELSE f[i - Len(s)]
    BY <1>4, ConcatProperties
  <2>. QED
    BY <2>1, <1>1, <1>3
<1>6. \A i \in 1 .. Len(s) : s[i].seq \in Nat /\ s[i].part \in Nat
  <2>1. \A i \in 1 .. Len(s) : s[i] \in FrameUnit
    BY ElementOfSeq
  <2>. QED
    BY <2>1 DEF FrameUnit
<1>7. \A i \in Len(s) + 1 .. Len(t) : t[i].seq = n /\ t[i].part = i - Len(s)
  BY <1>3, <1>5
<1>8. Whole(t)
  <2>1. t[1].part = 1
    <3>1. CASE s = <<>>
      BY <3>1, <1>1, <1>5, <1>7
    <3>2. CASE s # <<>>
      BY <3>2, <1>5, EmptySeq DEF Whole
    <3>. QED
      BY <3>1, <3>2
  <2>2. ASSUME NEW i \in 1 .. Len(t) - 1 PROVE Follows(t[i], t[i + 1])
    <3>1. CASE i < Len(s)
      BY <3>1, <1>5, SMTT(30) DEF Whole
    <3>2. CASE i = Len(s)
      <4>0. i \in 1 .. Len(s) /\ i + 1 \in Len(s) + 1 .. Len(t) /\ (i + 1) - Len(s) = 1
        BY <3>2, <1>1, <1>5
      <4>1. t[i] = s[Len(s)] /\ s # <<>> /\ t[i + 1].seq = n /\ t[i + 1].part = 1
        BY <3>2, <4>0, <1>5, <1>7
      <4>2. s[Len(s)].part = FrameLength /\ s[Len(s)].seq < n
        BY <4>1, <3>2, <1>5 DEF EndsWhole, Before
      <4>. QED
        BY <4>1, <4>2, <3>2, <1>6 DEF Follows
    <3>3. CASE i > Len(s)
      BY <3>3, <1>1, <1>5, <1>7 DEF Follows
    <3>. QED
      BY <3>1, <3>2, <3>3, <1>5
  <2>. QED
    BY <2>1, <2>2 DEF Whole
<1>9. EndsWhole(t)
  BY <1>1, <1>5, <1>7 DEF EndsWhole
<1>10. Before(t, n + 1)
  <2>1. ASSUME NEW i \in 1 .. Len(t) PROVE t[i].seq < n + 1
    <3>1. CASE i <= Len(s)
      BY <3>1, <1>5, <1>6 DEF Before
    <3>2. CASE i > Len(s)
      BY <3>2, <1>5, <1>7
    <3>. QED
      BY <3>1, <3>2, <1>5
  <2>. QED
    BY <2>1 DEF Before
<1>. QED
  BY <1>2, <1>4, <1>8, <1>9, <1>10

(* What comes first of a stream of whole frames. *)
LEMMA WholePrefix ==
  ASSUME NEW s \in Seq(FrameUnit), NEW t \in Seq(FrameUnit), Whole(s \o t)
  PROVE  Whole(s)
<1>1. PICK u : u = s \o t
  OBVIOUS
<1>2. /\ Len(u) = Len(s) + Len(t) /\ Len(s) \in Nat /\ Len(t) \in Nat
      /\ u \in Seq(FrameUnit)
      /\ \A i \in 1 .. Len(s) : u[i] = s[i]
  BY <1>1, ConcatProperties
<1>3. /\ u # <<>> => u[1].part = 1
      /\ \A i \in 1 .. Len(u) - 1 : Follows(u[i], u[i + 1])
  BY <1>1 DEF Whole
<1>4. s # <<>> => s[1].part = 1
  BY <1>2, <1>3, EmptySeq
<1>5. ASSUME NEW i \in 1 .. Len(s) - 1 PROVE Follows(s[i], s[i + 1])
  BY <1>2, <1>3
<1>. QED
  BY <1>4, <1>5 DEF Whole

(* Whole frames, and the property of the unit stream a client has got.      *)
LEMMA WholeMeansWhole ==
  ASSUME PeerShapes, \A p \in Peers : Whole(got[p])
  PROVE  TelemetryWhole
<1> SUFFICES ASSUME NEW p \in Peers, NEW i \in DOMAIN got[p]
             PROVE  IF i = 1 THEN got[p][1].part = 1
                    ELSE Follows(got[p][i - 1], got[p][i])
  BY DEF TelemetryWhole, Follows
<1>1. got[p] \in Seq(FrameUnit) /\ i \in 1 .. Len(got[p]) /\ Len(got[p]) \in Nat
  BY LenProperties DEF PeerShapes
<1>2. CASE i = 1
  BY <1>1, <1>2, EmptySeq DEF Whole
<1>3. CASE i # 1
  <2>1. i - 1 \in 1 .. Len(got[p]) - 1 /\ (i - 1) + 1 = i
    BY <1>1, <1>3
  <2>2. Follows(got[p][i - 1], got[p][(i - 1) + 1])
    BY <2>1 DEF Whole
  <2>. QED
    BY <2>1, <2>2, <1>3
<1>. QED
  BY <1>2, <1>3

-----------------------------------------------------------------------------
(* What a step leaves alone.                                               *)

Untouched(p) ==
    /\ peers'[p] = peers[p] /\ clients'[p] = clients[p]
    /\ sentLog'[p] = sentLog[p] /\ dispatched'[p] = dispatched[p] /\ got'[p] = got[p]

SameState(p) == peers'[p].state = peers[p].state

\* Only frames that are on their way to others, or nothing of the frames.
SameTelemetry(p) ==
    /\ got'[p] = got[p]
    /\ clients'[p].send = clients[p].send /\ clients'[p].offset = clients[p].offset
    /\ UNCHANGED <<outbound, published>>

SameCommands(p) ==
    /\ sentLog'[p] = sentLog[p] /\ dispatched'[p] = dispatched[p]
    /\ clients'[p].messages = clients[p].messages
    /\ Coming(p)' = Coming(p)

LEMMA TelemetryKept ==
  ASSUME NEW p \in Peers, Telemetry(p), SameTelemetry(p),
         SameState(p) \/ peers[p].state \notin {"reset", "gone"} \/ peers'[p].state \in {"reset", "gone"}
  PROVE  Telemetry(p)'
<1>1. /\ got'[p] = got[p] /\ Pending(p)' = Pending(p) /\ outbound' = outbound /\ published' = published
      /\ clients'[p].offset = clients[p].offset /\ clients'[p].send = clients[p].send
  BY DEF SameTelemetry, Pending
<1>. QED
  BY <1>1 DEF Telemetry, SameState

LEMMA CommandsKept ==
  ASSUME NEW p \in Peers, Commands(p), SameCommands(p),
         peers[p].state # "gone" \/ peers'[p].state = "gone"
  PROVE  Commands(p)'
<1>1. Conforming(p)' <=> Conforming(p)
  BY DEF SameCommands, Conforming
<1>2. ASSUME NEW d \in Nat PROVE Given(p, d)' <=> Given(p, d)
  BY DEF SameCommands, Given
<1>3. ASSUME NEW d \in Nat, NEW k \in Nat PROVE Parsed(p, d, k)' <=> Parsed(p, d, k)
  BY DEF SameCommands, Parsed
<1>4. sentLog'[p] = sentLog[p] /\ Coming(p)' = Coming(p)
  BY DEF SameCommands
<1>. QED
  BY <1>1, <1>2, <1>3, <1>4 DEF Commands

LEMMA UntouchedInv ==
  ASSUME NEW p \in Peers, PeerInv(p), Untouched(p), UNCHANGED <<outbound, published>>
  PROVE  PeerInv(p)'
<1>1. SameState(p) /\ SameTelemetry(p) /\ SameCommands(p)
  BY DEF Untouched, SameState, SameTelemetry, SameCommands, Coming
<1>2. Telemetry(p)'
  BY <1>1, TelemetryKept DEF PeerInv
<1>3. Commands(p)'
  BY <1>1, CommandsKept DEF PeerInv, SameState
<1>4. Absent(p)' /\ Fresh(p)'
  BY DEF PeerInv, Absent, Fresh, Untouched
<1>. QED
  BY <1>2, <1>3, <1>4 DEF PeerInv

(* A step about one peer. *)
LEMMA OnlyAt ==
  ASSUME NetInv, PeerShapes', PollShapes', UNCHANGED <<outbound, published>>, NEW p \in Peers,
         \A q \in Peers : q # p => Untouched(q), PeerInv(p)'
  PROVE  NetInv'
<1>1. ASSUME NEW q \in Peers, q # p PROVE PeerInv(q)'
  BY <1>1, UntouchedInv DEF NetInv
<1>. QED
  BY <1>1 DEF NetInv

(* A step of the polling thread's own. *)
LEMMA NetOnly ==
  ASSUME NetInv, PollShapes',
         UNCHANGED <<peers, clients, outbound, published, sentLog, dispatched, got>>
  PROVE  NetInv'
<1>1. ASSUME NEW q \in Peers PROVE PeerInv(q)'
  BY UntouchedInv DEF NetInv, Untouched
<1>. QED
  BY <1>1 DEF NetInv, PeerShapes

LEMMA NetInitInv == NetInit => NetInv
<1> SUFFICES ASSUME NetInit PROVE NetInv
  OBVIOUS
<1>1. PICK port \in [Peers -> {"telemetry", "command"}] :
         peers = [p \in Peers |-> [NoPeer EXCEPT !.port = port[p]]]
  BY DEF NetInit
<1>2. ASSUME NEW p \in Peers
      PROVE  /\ peers[p] \in [port : {"telemetry", "command"}, state : States, stream : Seq(Unit),
                              wire : Seq(Unit), edge : BOOLEAN]
             /\ peers[p].state = "out" /\ peers[p].stream = <<>> /\ peers[p].wire = <<>>
  <2>1. PICK x \in {"telemetry", "command"} : x = port[p]
    BY <1>1
  <2>2. peers[p] = [NoPeer EXCEPT !.port = x]
    BY <1>1, <2>1
  <2>3. peers[p] = [port |-> x, state |-> "out", stream |-> <<>>, wire |-> <<>>, edge |-> FALSE]
    BY <2>2 DEF NoPeer
  <2>4. <<>> \in Seq(Unit) /\ "out" \in States
    BY DEF States
  <2>. QED
    BY <2>3, <2>4
<1>0. /\ clients = [p \in Peers |-> NoClient] /\ outbound = 0 /\ published = 0
      /\ net = [pc |-> "drain", at |-> Nobody, flushed |-> {}, batch |-> {}]
      /\ sentLog = [p \in Peers |-> <<>>] /\ dispatched = [p \in Peers |-> <<>>]
      /\ got = [p \in Peers |-> <<>>]
  BY DEF NetInit
<1>3. PeerShapes /\ PollShapes
  <2>1. \A p \in Peers : peers[p] \in [port : {"telemetry", "command"}, state : States,
                                       stream : Seq(Unit), wire : Seq(Unit), edge : BOOLEAN]
    BY <1>2
  <2>2. peers \in [Peers -> [port : {"telemetry", "command"}, state : States,
                             stream : Seq(Unit), wire : Seq(Unit), edge : BOOLEAN]]
    BY <1>1, <2>1
  <2>3. NoClient \in [recv : Seq(Unit), messages : Seq(Message), send : Seq(FrameUnit), offset : Nat]
    BY DEF NoClient
  <2>4. PeerShapes
    BY <1>0, <2>2, <2>3 DEF PeerShapes
  <2>5. outbound \in Nat /\ published \in Nat /\ outbound <= published
    BY <1>0
  <2>6. PollShapes
    <3>1. {} \in SUBSET Peers /\ Nobody \in Peers \cup {Nobody}
      OBVIOUS
    <3>2. net \in [pc : {"drain", "flush", "wait", "events", "read", "parse", "dispatch"},
                   at : Peers \cup {Nobody}, flushed : SUBSET Peers, batch : SUBSET Peers]
      BY <1>0, <3>1
    <3>. QED
      BY <2>5, <3>2 DEF PollShapes
  <2>. QED
    BY <2>4, <2>6
<1>4. ASSUME NEW p \in Peers PROVE PeerInv(p)
  <2>1. /\ clients[p] = NoClient /\ sentLog[p] = <<>> /\ dispatched[p] = <<>> /\ got[p] = <<>>
    BY <1>0
  <2>2. Absent(p) /\ Fresh(p)
    BY <1>2, <2>1 DEF Absent, Fresh
  <2>3. Telemetry(p)
    <3>1. Pending(p) = <<>> /\ clients[p].offset = 0 /\ clients[p].send = <<>>
      BY <2>1 DEF Pending, NoClient
    <3>2. <<>> \o <<>> = <<>> /\ Len(<<>>) = 0
      OBVIOUS
    <3>. QED
      BY <2>1, <3>1, <3>2 DEF Telemetry, Whole, EndsWhole, Before
  <2>4. Commands(p)
    <3>1. Given(p, 0)
      BY <2>1 DEF Given
    <3>2. Parsed(p, 0, 0)
      BY <2>1 DEF Parsed, NoClient
    <3>3. Coming(p) = <<>> /\ Len(Coming(p)) = 0
      <4>1. clients[p].recv = <<>> /\ peers[p].wire = <<>> /\ peers[p].stream = <<>>
        BY <1>2, <2>1 DEF NoClient
      <4>2. <<>> \o <<>> = <<>> /\ Len(<<>>) = 0
        OBVIOUS
      <4>. QED
        BY <4>1, <4>2 DEF Coming
    <3>4. PICK at : at = [i \in {1} |-> 0]
      OBVIOUS
    <3>5. at \in Positions(sentLog[p], 0) /\ Laid(sentLog[p], 0, at, Coming(p))
      BY <2>1, <3>3, <3>4 DEF Positions, Laid
    <3>. QED
      BY <3>1, <3>2, <3>5 DEF Commands
  <2>. QED
    BY <2>2, <2>3, <2>4 DEF PeerInv
<1>. QED
  BY <1>3, <1>4 DEF NetInv

-----------------------------------------------------------------------------
(* Steps that move no unit and no message.                                 *)

\* Where a connection goes while its units stay where they are.
Moves(from, to) ==
    \/ from = to
    \/ from = "out" /\ to = "backlog"
    \/ from = "backlog" /\ to \in {"open", "gone"}
    \/ from = "open" /\ to \in {"closed", "reset"}

LEMMA MovesInv ==
  ASSUME NetInv, NEW p \in Peers, NEW e \in BOOLEAN, NEW to \in States, Moves(peers[p].state, to),
         peers' = [peers EXCEPT ![p] = [@ EXCEPT !.state = to, !.edge = e]], PollShapes',
         UNCHANGED <<clients, outbound, published, sentLog, dispatched, got>>
  PROVE  NetInv'
<1>1. /\ peers'[p].state = to /\ peers'[p].stream = peers[p].stream /\ peers'[p].wire = peers[p].wire
      /\ \A q \in Peers : q # p => peers'[q] = peers[q]
  BY DEF NetInv, PeerShapes
<1>2. PeerShapes'
  BY ZenonT(60) DEF NetInv, PeerShapes
<1>3. PeerInv(p)
  BY DEF NetInv
<1>4. SameTelemetry(p) /\ SameCommands(p)
  BY <1>1 DEF SameTelemetry, SameCommands, Coming
<1>5. Telemetry(p)'
  BY <1>1, <1>3, <1>4, TelemetryKept DEF PeerInv, SameState, Moves
<1>6. Commands(p)'
  BY <1>1, <1>3, <1>4, CommandsKept DEF PeerInv, Moves
<1>7. Absent(p)' /\ Fresh(p)'
  BY <1>1, <1>3 DEF PeerInv, Absent, Fresh, Moves, Live
<1>8. \A q \in Peers : q # p => Untouched(q)
  BY <1>1 DEF Untouched
<1>. QED
  BY <1>2, <1>5, <1>6, <1>7, <1>8, OnlyAt DEF PeerInv

LEMMA PeerConnectInv == ASSUME NetInv, NEW p \in Peers, PeerConnect(p) PROVE NetInv'
<1>1. PICK e \in BOOLEAN : e = peers[p].edge
  BY DEF NetInv, PeerShapes
<1>2. peers' = [peers EXCEPT ![p] = [@ EXCEPT !.state = "backlog", !.edge = e]]
  BY <1>1 DEF PeerConnect, NetInv, PeerShapes
<1>3. Moves(peers[p].state, "backlog") /\ "backlog" \in States /\ PollShapes'
  BY DEF PeerConnect, Moves, States, NetInv, PollShapes
<1>. QED
  BY <1>2, <1>3, MovesInv DEF PeerConnect

LEMMA PeerEndInv ==
  ASSUME NetInv, NEW p \in Peers, NEW how \in {"closed", "reset"}, PeerEnd(p, how)
  PROVE  NetInv'
<1>1. peers' = [peers EXCEPT ![p] = [@ EXCEPT !.state = how, !.edge = TRUE]]
  BY DEF PeerEnd, NetInv, PeerShapes
<1>2. Moves(peers[p].state, how) /\ how \in States /\ PollShapes'
  BY DEF PeerEnd, Moves, States, NetInv, PollShapes
<1>. QED
  BY <1>1, <1>2, MovesInv DEF PeerEnd

LEMMA AcceptInv == ASSUME NetInv, NEW p \in Peers, Accept(p) PROVE NetInv'
<1>1. PICK to \in {"open", "gone"} : peers' = [peers EXCEPT ![p].state = to]
  BY DEF Accept
<1>2. PICK e \in BOOLEAN : e = peers[p].edge
  BY DEF NetInv, PeerShapes
<1>3. peers' = [peers EXCEPT ![p] = [@ EXCEPT !.state = to, !.edge = e]]
  BY <1>1, <1>2 DEF NetInv, PeerShapes
<1>4. Moves(peers[p].state, to) /\ to \in States
  BY DEF Accept, Moves, States
<1>5. PollShapes'
  <2>1. PICK b \in SUBSET Peers : net' = [net EXCEPT !.batch = b]
    <3>1. \A S : {q \in net.batch \ {p} : ~(S /\ peers[q].state = "backlog" /\ peers[q].port = peers[p].port)}
                    \in SUBSET Peers
      BY DEF NetInv, PollShapes
    <3>. QED
      BY <3>1 DEF Accept
  <2>. QED
    BY <2>1 DEF Accept, NetInv, PollShapes
<1>. QED
  BY <1>3, <1>4, <1>5, MovesInv DEF Accept

LEMMA ReadableInv == ASSUME NetInv, NEW p \in Peers, Readable(p) PROVE NetInv'
<1>1. PICK to \in States : to = peers[p].state
  BY DEF NetInv, PeerShapes
<1>2. peers' = [peers EXCEPT ![p] = [@ EXCEPT !.state = to, !.edge = FALSE]]
  BY <1>1 DEF Readable, NetInv, PeerShapes
<1>3. Moves(peers[p].state, to)
  BY <1>1 DEF Moves
<1>4. PollShapes'
  <2>1. net.batch \ {p} \in SUBSET Peers
    BY DEF NetInv, PollShapes
  <2>. QED
    BY <2>1 DEF Readable, NetInv, PollShapes
<1>. QED
  BY <1>2, <1>3, <1>4, MovesInv DEF Readable

LEMMA NetOnlyInv ==
  ASSUME NetInv,
         \/ Flushed \/ EpollWait \/ EventsDone
         \/ \E p \in Peers : ReadAgain(p) \/ ParseEnd(p)
  PROVE  NetInv'
<1>1. UNCHANGED <<peers, clients, outbound, published, sentLog, dispatched, got>>
  BY DEF Flushed, EpollWait, EventsDone, ReadAgain, ParseEnd
<1>2. PollShapes'
  <2>0. PollShapes
    BY DEF NetInv
  <2>1. CASE Flushed
    BY <2>0, <2>1 DEF Flushed, PollShapes
  <2>2. CASE EpollWait
    <3>1. {p \in Peers : peers[p].state = "backlog" \/ peers[p].edge} \in SUBSET Peers
      OBVIOUS
    <3>. QED
      BY <2>0, <2>2, <3>1 DEF EpollWait, PollShapes
  <2>3. CASE EventsDone
    BY <2>0, <2>3 DEF EventsDone, PollShapes
  <2>4. CASE \E p \in Peers : ReadAgain(p) \/ ParseEnd(p)
    BY <2>0, <2>4 DEF ReadAgain, ParseEnd, PollShapes
  <2>. QED
    BY <2>1, <2>2, <2>3, <2>4
<1>. QED
  BY <1>1, <1>2, NetOnly

-----------------------------------------------------------------------------
(* The end of a connection, and units on their way.                        *)

LEMMA RemoveClientInv ==
  ASSUME NetInv, NEW p \in Peers, RemoveClient(p)
  PROVE  NetInv'
<1>1. PeerInv(p) /\ peers[p].port \in {"telemetry", "command"}
  BY DEF NetInv, PeerShapes
<1>2. /\ clients' = [clients EXCEPT ![p] = NoClient]
      /\ sentLog' = sentLog /\ dispatched' = dispatched /\ got' = got
      /\ UNCHANGED <<outbound, published>>
  BY DEF RemoveClient
<1>3. PICK x : x = [NoPeer EXCEPT !.state = "gone", !.port = peers[p].port]
  OBVIOUS
<1>4. /\ x \in [port : {"telemetry", "command"}, state : States, stream : Seq(Unit),
                wire : Seq(Unit), edge : BOOLEAN]
      /\ x.state = "gone" /\ x.stream = <<>> /\ x.wire = <<>>
  <2>1. x = [port |-> peers[p].port, state |-> "gone", stream |-> <<>>, wire |-> <<>>, edge |-> FALSE]
    BY <1>3 DEF NoPeer
  <2>2. <<>> \in Seq(Unit) /\ "gone" \in States
    BY DEF States
  <2>. QED
    BY <1>1, <2>1, <2>2
<1>5. peers' = [peers EXCEPT ![p] = x]
  BY <1>3 DEF RemoveClient
<1>6. NoClient \in [recv : Seq(Unit), messages : Seq(Message), send : Seq(FrameUnit), offset : Nat]
  BY DEF NoClient
<1>7. PeerShapes'
  BY <1>2, <1>4, <1>5, <1>6 DEF NetInv, PeerShapes
<1>8. PollShapes'
  <2>1. net.batch \ {p} \in SUBSET Peers
    BY DEF NetInv, PollShapes
  <2>. QED
    BY <2>1, <1>2 DEF RemoveClient, NetInv, PollShapes
<1>9. /\ peers'[p] = x /\ clients'[p] = NoClient
      /\ \A q \in Peers : q # p => Untouched(q)
  BY <1>2, <1>5 DEF NetInv, PeerShapes, Untouched
<1>10. Absent(p)' /\ Fresh(p)'
  BY <1>4, <1>9 DEF Absent, Fresh
<1>11. Telemetry(p)'
  <2>1. clients'[p].offset = 0 /\ Len(clients'[p].send) = 0
    BY <1>9 DEF NoClient
  <2>2. Whole(got[p])'
    BY <1>1, <1>2 DEF PeerInv, Telemetry
  <2>. QED
    BY <1>4, <1>9, <2>1, <2>2 DEF Telemetry
<1>12. Commands(p)'
  <2>1. Conforming(p)' <=> Conforming(p)
    BY <1>2 DEF Conforming
  <2>2. ASSUME NEW d \in Nat PROVE Given(p, d)' <=> Given(p, d)
    BY <1>2 DEF Given
  <2>. QED
    BY <1>1, <1>4, <1>9, <2>1, <2>2 DEF PeerInv, Commands
<1>. QED
  BY <1>2, <1>7, <1>8, <1>9, <1>10, <1>11, <1>12, OnlyAt DEF PeerInv

(* Units that go from one place to the next, all of a live peer. *)
LEMMA UnitsMove ==
  ASSUME NetInv, NEW p \in Peers, peers[p].state \in Live,
         NEW stream \in Seq(Unit), NEW wire \in Seq(Unit), NEW recv \in Seq(Unit), NEW e \in BOOLEAN,
         recv \o wire \o stream = Coming(p),
         peers' = [peers EXCEPT ![p] = [@ EXCEPT !.stream = stream, !.wire = wire, !.edge = e]],
         clients' = [clients EXCEPT ![p] = [@ EXCEPT !.recv = recv]], PollShapes',
         UNCHANGED <<outbound, published, sentLog, dispatched, got>>
  PROVE  NetInv'
<1>1. /\ peers'[p].state = peers[p].state /\ peers'[p].stream = stream /\ peers'[p].wire = wire
      /\ clients'[p].recv = recv /\ clients'[p].messages = clients[p].messages
      /\ clients'[p].send = clients[p].send /\ clients'[p].offset = clients[p].offset
      /\ \A q \in Peers : q # p => peers'[q] = peers[q] /\ clients'[q] = clients[q]
  BY DEF NetInv, PeerShapes
<1>2. PeerShapes'
  BY ZenonT(60) DEF NetInv, PeerShapes
<1>3. PeerInv(p)
  BY DEF NetInv
<1>4. SameTelemetry(p) /\ SameCommands(p) /\ SameState(p)
  BY <1>1 DEF SameTelemetry, SameCommands, Coming, SameState
<1>5. Telemetry(p)'
  BY <1>3, <1>4, TelemetryKept DEF PeerInv
<1>6. Commands(p)'
  BY <1>1, <1>3, <1>4, CommandsKept DEF PeerInv, Live
<1>7. Absent(p)' /\ Fresh(p)'
  BY <1>1 DEF Absent, Fresh, Live
<1>8. \A q \in Peers : q # p => Untouched(q)
  BY <1>1 DEF Untouched
<1>. QED
  BY <1>2, <1>5, <1>6, <1>7, <1>8, OnlyAt DEF PeerInv

LEMMA ArriveInv ==
  ASSUME NetInv, NEW p \in Peers, NEW n \in 1 .. Len(peers[p].stream), Arrive(p, n)
  PROVE  NetInv'
<1>1. PICK r, w, s \in Seq(Unit) : r = clients[p].recv /\ w = peers[p].wire /\ s = peers[p].stream
  BY DEF NetInv, PeerShapes
<1>2. n \in 1 .. Len(s) /\ Len(s) \in Nat
  BY <1>1
<1>3. PICK a : a = SubSeq(s, 1, n)
  OBVIOUS
<1>4. PICK b : b = SubSeq(s, n + 1, Len(s))
  OBVIOUS
<1>5. a \in Seq(Unit) /\ b \in Seq(Unit) /\ s = a \o b
  BY <1>2, <1>3, <1>4, UnitsCut
<1>6. PICK x : x = w \o a
  OBVIOUS
<1>0. x \in Seq(Unit) /\ r \o x \o b = r \o w \o s
  <2>1. x = Joined(w, a) /\ s = Joined(a, b)
    BY <1>5, <1>6 DEF Joined
  <2>2. x \in Seq(Unit) /\ Joined(x, b) = Joined(w, s)
    BY <1>5, <2>1, UnitsJoin, JoinedFacts
  <2>3. Joined(Joined(r, x), b) = Joined(r, Joined(x, b))
    BY <1>5, <2>2, UnitsJoin
  <2>4. Joined(Joined(r, w), s) = Joined(r, Joined(w, s))
    BY UnitsJoin
  <2>5. Joined(Joined(r, x), b) = Joined(Joined(r, w), s)
    BY <2>2, <2>3, <2>4
  <2>. QED
    BY <2>2, <2>5 DEF Joined
<1>7. Coming(p) = r \o w \o s
  BY <1>1 DEF Coming
<1>8. peers' = [peers EXCEPT ![p] = [@ EXCEPT !.stream = b, !.wire = x, !.edge = TRUE]]
  BY <1>1, <1>3, <1>4, <1>6 DEF Arrive, NetInv, PeerShapes
<1>9. clients' = [clients EXCEPT ![p] = [@ EXCEPT !.recv = r]]
  BY <1>1 DEF Arrive, NetInv, PeerShapes
<1>10. PollShapes' /\ peers[p].state \in Live
  BY DEF Arrive, NetInv, PollShapes, Live
<1>. QED
  BY <1>0, <1>5, <1>7, <1>8, <1>9, <1>10, UnitsMove DEF Arrive

LEMMA ReceiveInv == ASSUME NetInv, NEW p \in Peers, Receive(p) PROVE NetInv'
<1>1. PICK r, w, s \in Seq(Unit) : r = clients[p].recv /\ w = peers[p].wire /\ s = peers[p].stream
  BY DEF NetInv, PeerShapes
<1>2. PICK e \in BOOLEAN : e = peers[p].edge
  BY DEF NetInv, PeerShapes
<1>3. PICK x \in Seq(Unit) : x = r \o w
  BY ConcatProperties
<1>4. x \o <<>> \o s = Coming(p)
  <2>1. x \o <<>> = x
    BY ConcatEmptySeq
  <2>. QED
    BY <1>1, <1>3, <2>1 DEF Coming
<1>5. peers' = [peers EXCEPT ![p] = [@ EXCEPT !.stream = s, !.wire = <<>>, !.edge = e]]
  BY <1>1, <1>2 DEF Receive, NetInv, PeerShapes
<1>6. clients' = [clients EXCEPT ![p] = [@ EXCEPT !.recv = x]]
  BY <1>1, <1>3 DEF Receive, NetInv, PeerShapes
<1>7. peers[p].state \in Live
  BY DEF Receive, NetInv, PeerInv, Absent
<1>8. PollShapes'
  BY DEF Receive, NetInv, PollShapes
<1>9. <<>> \in Seq(Unit)
  OBVIOUS
<1>. QED
  BY <1>4, <1>5, <1>6, <1>7, <1>8, <1>9, UnitsMove DEF Receive

-----------------------------------------------------------------------------
(* Messages sent, parsed and dispatched.                                   *)

LEMMA LogFacts ==
  ASSUME NEW log \in Seq(Messages), \A i \in DOMAIN log : WellFormed(log[i])
  PROVE  /\ Len(log) \in Nat
         /\ \A i \in 1 .. Len(log) :
               /\ log[i] \in Messages /\ log[i].length \in Nat /\ log[i].length >= 1
               /\ log[i].declared = log[i].length /\ log[i].length \in HeaderUnits .. MaxMessage
<1>1. Len(log) \in Nat /\ DOMAIN log = 1 .. Len(log) /\ \A i \in 1 .. Len(log) : log[i] \in Messages
  BY LenProperties, ElementOfSeq
<1>2. HeaderUnits \in Nat /\ HeaderUnits >= 1 /\ MaxMessage \in Nat
  BY NetAssumption
<1>3. ASSUME NEW i \in 1 .. Len(log)
      PROVE  /\ log[i].length \in Nat /\ log[i].length >= 1
             /\ log[i].declared = log[i].length /\ log[i].length \in HeaderUnits .. MaxMessage
  BY <1>1, <1>2 DEF WellFormed
<1>. QED
  BY <1>1, <1>3

(* One more message behind what is coming. *)
LEMMA LaidSent ==
  ASSUME NEW log \in Seq(Messages), NEW m \in Messages, NEW k \in Nat, k <= Len(log),
         \A i \in 1 .. Len(log) : log[i].length \in Nat, m.length \in Nat,
         NEW s \in Seq(Unit), NEW at \in Positions(log, k), Laid(log, k, at, s)
  PROVE  \E b \in Positions(Append(log, m), k) :
            Laid(Append(log, m), k, b, Joined(s, Units(m, Len(log) + 1)))
<1>1. PICK n \in Nat : n = Len(log)
  BY LenProperties
<1>2. PICK to : to = Append(log, m)
  OBVIOUS
<1>3. Len(to) = n + 1 /\ to[n + 1] = m /\ \A i \in 1 .. n : to[i] = log[i]
  BY <1>1, <1>2, AppendProperties
<1>4. PICK U \in Seq(Unit) : U = Units(m, n + 1) /\ Len(U) = m.length
  BY <1>1, UnitsFacts, SMTT(30)
<1>5. PICK x \in Seq(Unit) :
         /\ x = Joined(s, U) /\ Len(s) \in Nat /\ Len(x) = Len(s) + Len(U)
         /\ \A i \in 1 .. Len(s) : x[i] = s[i]
         /\ \A i \in 1 .. Len(U) : x[Len(s) + i] = U[i]
  BY <1>4, JoinedFacts, ZenonT(60)
<1>6. /\ at \in [k + 1 .. n + 1 -> Int] /\ at[k + 1] = 0 /\ at[n + 1] = Len(s)
      /\ \A i \in k + 1 .. n :
            /\ at[i] >= 0 /\ at[i + 1] = at[i] + log[i].length
            /\ \A j \in i + 1 .. n + 1 : at[i] + log[i].length <= at[j]
            /\ \A u \in 1 .. log[i].length : s[at[i] + u] = Units(log[i], i)[u]
  BY <1>1 DEF Laid, Positions
<1>7. PICK b : b = [i \in k + 1 .. n + 2 |-> IF i = n + 2 THEN at[n + 1] + m.length ELSE at[i]]
  OBVIOUS
<1>8. /\ b \in [k + 1 .. n + 2 -> Int]
      /\ b[n + 2] = Len(s) + m.length
      /\ \A i \in k + 1 .. n + 1 : b[i] = at[i]
  BY <1>1, <1>5, <1>6, <1>7, SMTT(30)
<1>9. b[k + 1] = 0 /\ b[(n + 1) + 1] = Len(x)
  BY <1>1, <1>4, <1>5, <1>6, <1>8
<1>10. ASSUME NEW i \in k + 1 .. n
       PROVE  /\ b[i] >= 0 /\ b[i + 1] = b[i] + to[i].length
              /\ \A j \in i + 1 .. (n + 1) + 1 : b[i] + to[i].length <= b[j]
              /\ \A u \in 1 .. to[i].length : x[b[i] + u] = Units(to[i], i)[u]
  <2>0. i \in 1 .. n /\ i \in k + 1 .. n + 1 /\ i + 1 \in k + 1 .. n + 1 /\ to[i] = log[i]
    BY <1>1, <1>3
  <2>1. PICK l \in Nat, a \in Int : l = log[i].length /\ a = at[i] /\ b[i] = a /\ a >= 0
    BY <2>0, <1>1, <1>6, <1>8
  <2>z. PICK z \in Nat : z = Len(s)
    BY <1>5
  <2>2. b[i + 1] = b[i] + log[i].length
    BY <2>0, <1>6, <1>8
  <2>3. a + l <= z
    <3>1. n + 1 \in i + 1 .. n + 1
      BY <1>1, <2>0
    <3>. QED
      BY <3>1, <1>6, <2>1, <2>z
  <2>4. ASSUME NEW j \in i + 1 .. (n + 1) + 1 PROVE b[i] + log[i].length <= b[j]
    <3>1. CASE j = n + 2
      <4>1. PICK c \in Nat : c = m.length
        OBVIOUS
      <4>2. b[j] = z + c
        BY <3>1, <4>1, <1>8, <2>z
      <4>3. a \in Int /\ l \in Int /\ c \in Nat /\ z \in Int /\ a + l <= z
        BY <4>1, <2>1, <2>3, <2>z
      <4>4. a + l <= z + c
        BY <4>3
      <4>. QED
        BY <4>2, <4>4, <2>1
    <3>2. CASE j # n + 2
      <4>1. j \in i + 1 .. n + 1 /\ j \in k + 1 .. n + 1
        <5>1. /\ j \in Int /\ i \in Int /\ i + 1 <= j /\ j <= (n + 1) + 1 /\ k + 1 <= i
              /\ n \in Nat /\ k \in Nat
          BY <1>1, <2>0
        <5>2. j <= n + 1 /\ k + 1 <= j
          BY <5>1, <3>2
        <5>. QED
          BY <5>1, <5>2
      <4>. QED
        BY <4>1, <1>6, <1>8, <2>1
    <3>. QED
      BY <3>1, <3>2
  <2>5. ASSUME NEW u \in 1 .. log[i].length PROVE x[b[i] + u] = Units(log[i], i)[u]
    <3>1. at[i] + u \in 1 .. Len(s)
      <4>1. u \in 1 .. l
        BY <2>1
      <4>2. a + u \in 1 .. z
        BY <4>1, <2>1, <2>3, <2>z, SMTT(30)
      <4>. QED
        BY <4>2, <2>1, <2>z
    <3>2. x[at[i] + u] = s[at[i] + u]
      BY <3>1, <1>5
    <3>. QED
      BY <3>2, <2>1, <1>6
  <2>. QED
    BY <2>0, <2>1, <2>2, <2>4, <2>5
<1>11. /\ b[n + 1] >= 0 /\ b[(n + 1) + 1] = b[n + 1] + to[n + 1].length
       /\ \A j \in (n + 1) + 1 .. (n + 1) + 1 : b[n + 1] + to[n + 1].length <= b[j]
       /\ \A u \in 1 .. to[n + 1].length : x[b[n + 1] + u] = Units(to[n + 1], n + 1)[u]
  <2>0. n + 1 \in k + 1 .. n + 1 /\ (n + 1) + 1 = n + 2
    BY <1>1
  <2>1. b[n + 1] = Len(s) /\ to[n + 1] = m /\ b[(n + 1) + 1] = Len(s) + m.length
    BY <2>0, <1>3, <1>6, <1>8
  <2>2. \A u \in 1 .. m.length : x[Len(s) + u] = Units(m, n + 1)[u]
    BY <1>4, <1>5
  <2>. QED
    BY <2>1, <2>2, <1>1, <1>5
<1>12. \A i \in k + 1 .. n + 1 : i \in k + 1 .. n \/ i = n + 1
  BY <1>1
<1>13. Laid(to, k, b, x)
  BY <1>3, <1>9, <1>10, <1>11, <1>12 DEF Laid
<1>14. b \in Positions(to, k)
  BY <1>1, <1>3, <1>8 DEF Positions
<1>. QED
  BY <1>1, <1>2, <1>4, <1>5, <1>13, <1>14

(* The first message gone. *)
LEMMA LaidParsed ==
  ASSUME NEW log \in Seq(Messages), NEW k \in Nat, k + 1 <= Len(log),
         \A i \in 1 .. Len(log) : log[i].length \in Nat,
         NEW s \in Seq(Unit), NEW t \in Seq(Unit), NEW at \in Positions(log, k), Laid(log, k, at, s),
         Len(s) = log[k + 1].length + Len(t),
         \A i \in 1 .. Len(t) : s[log[k + 1].length + i] = t[i]
  PROVE  \E b \in Positions(log, k + 1) : Laid(log, k + 1, b, t)
<1>1. PICK n \in Nat : n = Len(log)
  BY LenProperties
<1>2. PICK L \in Nat : L = log[k + 1].length
  BY <1>1
<1>3. /\ at \in [k + 1 .. n + 1 -> Int] /\ at[k + 1] = 0 /\ at[n + 1] = Len(s)
      /\ \A i \in k + 1 .. n :
            /\ at[i] >= 0 /\ at[i + 1] = at[i] + log[i].length
            /\ \A j \in i + 1 .. n + 1 : at[i] + log[i].length <= at[j]
            /\ \A u \in 1 .. log[i].length : s[at[i] + u] = Units(log[i], i)[u]
  BY <1>1 DEF Laid, Positions
<1>4. PICK b : b = [i \in (k + 1) + 1 .. n + 1 |-> at[i] - L]
  OBVIOUS
<1>5. b \in [(k + 1) + 1 .. n + 1 -> Int] /\ \A i \in (k + 1) + 1 .. n + 1 : b[i] = at[i] - L
  BY <1>1, <1>2, <1>3, <1>4
<1>6. /\ Len(t) \in Nat /\ Len(s) = L + Len(t) /\ \A i \in 1 .. Len(t) : s[L + i] = t[i]
  BY <1>2, LenProperties
<1>7. \A j \in (k + 1) + 1 .. n + 1 : at[j] \in Int /\ at[j] >= L
  <2>1. k + 1 \in k + 1 .. n
    BY <1>1
  <2>2. \A j \in (k + 1) + 1 .. n + 1 : at[k + 1] + log[k + 1].length <= at[j]
    BY <2>1, <1>3
  <2>3. \A j \in (k + 1) + 1 .. n + 1 : at[j] \in Int
    BY <1>1, <1>3, SMTT(30)
  <2>. QED
    BY <2>2, <2>3, <1>2, <1>3
<1>8. b[(k + 1) + 1] = 0 /\ b[n + 1] = Len(t)
  <2>1. /\ (k + 1) + 1 \in (k + 1) + 1 .. n + 1 /\ n + 1 \in (k + 1) + 1 .. n + 1
        /\ k + 1 \in k + 1 .. n
    BY <1>1
  <2>2. at[(k + 1) + 1] = at[k + 1] + log[k + 1].length
    BY <2>1, <1>3
  <2>. QED
    BY <2>1, <2>2, <1>2, <1>3, <1>5, <1>6, SMTT(30)
<1>9. ASSUME NEW i \in (k + 1) + 1 .. n
      PROVE  /\ b[i] >= 0 /\ b[i + 1] = b[i] + log[i].length
             /\ \A j \in i + 1 .. n + 1 : b[i] + log[i].length <= b[j]
             /\ \A u \in 1 .. log[i].length : t[b[i] + u] = Units(log[i], i)[u]
  <2>0. /\ i \in 1 .. n /\ i \in k + 1 .. n /\ i \in (k + 1) + 1 .. n + 1
        /\ i + 1 \in (k + 1) + 1 .. n + 1 /\ n + 1 \in i + 1 .. n + 1
    BY <1>1
  <2>1. PICK l \in Nat, a \in Int : l = log[i].length /\ a = at[i] /\ b[i] = a - L /\ a >= L
    BY <2>0, <1>1, <1>5, <1>7
  <2>z. PICK z \in Nat : z = Len(t) /\ Len(s) = L + z
    BY <1>6
  <2>2. b[i + 1] = b[i] + log[i].length
    <3>1. b[i + 1] = at[i + 1] - L /\ at[i + 1] = at[i] + log[i].length
      BY <2>0, <1>3, <1>5
    <3>2. PICK c \in Int : c = at[i + 1]
      BY <2>0, <1>7
    <3>3. c = a + l /\ b[i + 1] = c - L
      BY <3>1, <3>2, <2>1
    <3>4. a \in Int /\ l \in Int /\ L \in Int
      BY <1>2, <2>1
    <3>5. (a + l) - L = (a - L) + l
      BY <3>4
    <3>. QED
      BY <3>3, <3>5, <2>1
  <2>3. a + l <= L + z
    <3>1. at[i] + log[i].length <= at[n + 1]
      BY <2>0, <1>3
    <3>. QED
      BY <3>1, <1>3, <2>1, <2>z
  <2>4. ASSUME NEW j \in i + 1 .. n + 1 PROVE b[i] + log[i].length <= b[j]
    <3>1. j \in (k + 1) + 1 .. n + 1
      BY <1>1, <2>0
    <3>2. PICK c \in Int : c = at[j] /\ b[j] = c - L
      BY <3>1, <1>5, <1>7
    <3>3. a + l <= c
      BY <3>2, <2>0, <2>1, <1>3
    <3>4. a \in Int /\ l \in Int /\ L \in Int /\ c \in Int
      BY <3>2, <2>1, <1>2, SMTT(30)
    <3>5. (a - L) + l <= c - L
      BY <3>3, <3>4
    <3>. QED
      BY <3>2, <3>5, <2>1
  <2>5. ASSUME NEW u \in 1 .. log[i].length PROVE t[b[i] + u] = Units(log[i], i)[u]
    <3>1. b[i] + u \in 1 .. Len(t) /\ L + (b[i] + u) = at[i] + u
      <4>1. u \in 1 .. l
        BY <2>1
      <4>2. /\ a \in Int /\ l \in Int /\ L \in Int /\ z \in Int /\ u \in Int /\ 1 <= u /\ u <= l
            /\ L <= a /\ a + l <= L + z
        BY <4>1, <2>1, <2>3, <2>z, <1>2
      <4>3. (a - L) + u \in 1 .. z /\ L + ((a - L) + u) = a + u
        BY <4>2
      <4>. QED
        BY <4>3, <2>1, <2>z
    <3>2. s[L + (b[i] + u)] = t[b[i] + u]
      BY <3>1, <1>6
    <3>3. s[at[i] + u] = Units(log[i], i)[u]
      BY <2>0, <1>3
    <3>. QED
      BY <3>1, <3>2, <3>3
  <2>. QED
    BY <2>1, <2>2, <2>4, <2>5
<1>10. Laid(log, k + 1, b, t)
  BY <1>1, <1>8, <1>9 DEF Laid
<1>11. b \in Positions(log, k + 1)
  BY <1>1, <1>5 DEF Positions
<1>. QED
  BY <1>10, <1>11

LEMMA PeerSendInv ==
  ASSUME NetInv, NEW p \in Peers, NEW m \in Messages, PeerSend(p, m)
  PROVE  NetInv'
<1>1. PICK log \in Seq(Messages) : log = sentLog[p]
  BY DEF NetInv, PeerShapes
<1>2. PICK n \in Nat : n = Len(log)
  BY LenProperties
<1>3. PICK to : to = Append(log, m)
  OBVIOUS
<1>4. /\ to \in Seq(Messages) /\ Len(to) = n + 1 /\ to[n + 1] = m
      /\ \A i \in 1 .. n : to[i] = log[i]
  BY <1>2, <1>3, AppendProperties
<1>5. PICK u \in Seq(Unit) : u = Units(m, n + 1)
  BY <1>2, UnitsFacts
<1>6. PICK r, w, s \in Seq(Unit) : r = clients[p].recv /\ w = peers[p].wire /\ s = peers[p].stream
  BY DEF NetInv, PeerShapes
<1>7. PICK x \in Seq(Unit) : x = s \o u
  BY <1>5, ConcatProperties
<1>8. /\ peers' = [peers EXCEPT ![p].stream = x] /\ sentLog' = [sentLog EXCEPT ![p] = to]
      /\ UNCHANGED <<clients, outbound, published, net, dispatched, got>>
      /\ peers[p].state = "open"
  BY <1>1, <1>2, <1>3, <1>5, <1>6, <1>7 DEF PeerSend, NetInv, PeerShapes
<1>9. /\ peers'[p].state = "open" /\ peers'[p].wire = w /\ peers'[p].stream = x
      /\ sentLog'[p] = to /\ clients'[p] = clients[p] /\ dispatched'[p] = dispatched[p]
      /\ \A q \in Peers : q # p => Untouched(q)
  BY <1>6, <1>8 DEF NetInv, PeerShapes, Untouched
<1>10. PeerShapes' /\ PollShapes'
  BY <1>4, <1>8, ZenonT(60) DEF NetInv, PeerShapes, PollShapes
<1>11. PeerInv(p)
  BY DEF NetInv
<1>12. Absent(p)' /\ Fresh(p)'
  BY <1>9 DEF Absent, Fresh, Live
<1>13. Telemetry(p)'
  <2>1. SameState(p) /\ SameTelemetry(p)
    BY <1>8, <1>9 DEF SameState, SameTelemetry
  <2>. QED
    BY <1>11, <2>1, TelemetryKept DEF PeerInv
<1>14. Commands(p)'
  <2> SUFFICES ASSUME Conforming(p)'
               PROVE  \E d \in Nat : /\ Given(p, d)'
                                     /\ \E k \in Nat : /\ Parsed(p, d, k)'
                                                       /\ \E at \in Positions(to, k) :
                                                             Laid(to, k, at, Coming(p)')
    BY <1>9 DEF Commands
  <2>1. \A i \in 1 .. n + 1 : WellFormed(to[i])
    <3>1. DOMAIN to = 1 .. n + 1
      BY <1>4, LenProperties
    <3>. QED
      BY <1>9, <3>1 DEF Conforming
  <2>2. Conforming(p)
    <3>1. DOMAIN log = 1 .. n
      BY <1>2, LenProperties
    <3>2. \A i \in 1 .. n : WellFormed(log[i])
      BY <2>1, <1>4
    <3>. QED
      BY <1>1, <3>1, <3>2 DEF Conforming
  <2>3. PICK d \in Nat, k \in Nat :
           /\ Given(p, d) /\ Parsed(p, d, k)
           /\ \E at \in Positions(sentLog[p], k) : Laid(sentLog[p], k, at, Coming(p))
    BY <2>2, <1>8, <1>11 DEF PeerInv, Commands
  <2>4. d <= n /\ k <= n /\ d <= k
    BY <2>3, <1>1, <1>2 DEF Given, Parsed
  <2>5. Given(p, d)'
    <3>1. Given(p, d)' <=>
            /\ d <= Len(to)
            /\ \A i, j \in 1 .. Len(dispatched[p]) : i < j => dispatched[p][i] < dispatched[p][j]
            /\ \A i \in 1 .. Len(dispatched[p]) :
                  dispatched[p][i] \in 1 .. d /\ to[dispatched[p][i]].valid
            /\ \A h \in 1 .. d : to[h].valid =>
                  \E i \in 1 .. Len(dispatched[p]) : dispatched[p][i] = h
      BY <1>9 DEF Given
    <3>2. \A h \in 1 .. d : to[h] = log[h]
      BY <1>4, <2>4
    <3>3. d <= Len(to)
      BY <1>4, <2>4
    <3>. QED
      BY <2>3, <3>1, <3>2, <3>3, <1>1 DEF Given
  <2>6. Parsed(p, d, k)'
    <3>1. Parsed(p, d, k)' <=>
            /\ d <= k /\ k <= Len(to) /\ Len(clients[p].messages) = k - d
            /\ \A i \in 1 .. k - d :
                  clients[p].messages[i] = [number |-> d + i, valid |-> to[d + i].valid]
      BY <1>9 DEF Parsed
    <3>2. \A i \in 1 .. k - d : to[d + i] = log[d + i]
      BY <1>4, <2>4
    <3>3. k <= Len(to)
      BY <1>4, <2>4
    <3>. QED
      BY <2>3, <3>1, <3>2, <3>3, <1>1 DEF Parsed
  <2>7. PICK c \in Seq(Unit) : c = Coming(p) /\ Coming(p)' = Joined(c, u)
    <3>1. Coming(p) = Joined(Joined(r, w), s) /\ Coming(p)' = Joined(Joined(r, w), Joined(s, u))
      BY <1>6, <1>7, <1>9 DEF Coming, Joined
    <3>2. Joined(r, w) \in Seq(Unit)
      BY JoinedFacts
    <3>3. /\ Joined(Joined(r, w), s) \in Seq(Unit)
          /\ Joined(Joined(Joined(r, w), s), u) = Joined(Joined(r, w), Joined(s, u))
      BY <1>5, <3>2, JoinedFacts, UnitsJoin
    <3>. QED
      BY <3>1, <3>3
  <2>8. \E at \in Positions(to, k) : Laid(to, k, at, Joined(c, u))
    <3>1. PICK at \in Positions(log, k) : Laid(log, k, at, c)
      BY <2>3, <2>7, <1>1
    <3>2. m.length \in Nat /\ \A i \in 1 .. Len(log) : log[i].length \in Nat
      <4>1. \A i \in 1 .. Len(log) : log[i] \in Messages
        BY ElementOfSeq
      <4>. QED
        BY <4>1, MessagesAssumption
    <3>3. k <= Len(log) /\ c \in Seq(Unit)
      BY <2>4, <2>7, <1>2
    <3>. QED
      BY <3>1, <3>2, <3>3, <1>2, <1>3, <1>5, LaidSent
  <2>. QED
    BY <2>5, <2>6, <2>7, <2>8
<1>. QED
  BY <1>8, <1>9, <1>10, <1>11, <1>12, <1>13, <1>14, OnlyAt DEF PeerInv

(* What the parser finds at the front of the buffer. *)
LEMMA FirstUnit ==
  ASSUME NEW log \in Seq(Messages), \A i \in DOMAIN log : WellFormed(log[i]),
         NEW k \in Nat, k <= Len(log), NEW s \in Seq(Unit), Len(s) >= 1,
         NEW at \in Positions(log, k), Laid(log, k, at, s)
  PROVE  /\ k + 1 <= Len(log) /\ s[1].declared = log[k + 1].length
         /\ s[1].number = k + 1 /\ s[1].valid = log[k + 1].valid
<1>1. PICK n \in Nat : n = Len(log)
  BY LenProperties
<1>2. at[k + 1] = 0 /\ at[n + 1] = Len(s) /\ Len(s) \in Nat
  BY <1>1, LenProperties DEF Laid
<1>3. k + 1 <= n
  <2>1. k # n
    BY <1>2
  <2>. QED
    BY <2>1, <1>1
<1>4. k + 1 \in k + 1 .. n /\ k + 1 \in 1 .. n
  BY <1>1, <1>3
<1>5. \A u \in 1 .. log[k + 1].length : s[at[k + 1] + u] = Units(log[k + 1], k + 1)[u]
  BY <1>1, <1>4 DEF Laid
<1>6. log[k + 1].length \in Nat /\ log[k + 1].length >= 1 /\ log[k + 1].declared = log[k + 1].length
  BY <1>1, <1>4, LogFacts
<1>7. 1 \in 1 .. log[k + 1].length /\ 0 + 1 = 1
  BY <1>6
<1>8. s[1] = Units(log[k + 1], k + 1)[1]
  BY <1>2, <1>5, <1>7
<1>9. s[1] = [declared |-> log[k + 1].declared, number |-> k + 1, valid |-> log[k + 1].valid]
  BY <1>7, <1>8 DEF Units
<1>. QED
  BY <1>1, <1>3, <1>6, <1>9

LEMMA ParseMessageInv == ASSUME NetInv, NEW p \in Peers, ParseMessage(p) PROVE NetInv'
<1>1. PICK r, w, s \in Seq(Unit) : r = clients[p].recv /\ w = peers[p].wire /\ s = peers[p].stream
  BY DEF NetInv, PeerShapes
<1>2. PICK log \in Seq(Messages) : log = sentLog[p]
  BY DEF NetInv, PeerShapes
<1>3. PICK ms \in Seq(Message) : ms = clients[p].messages
  BY DEF NetInv, PeerShapes
<1>4. /\ Len(r) \in Nat /\ Len(r) >= 1 /\ r # <<>> /\ r[1] \in Unit
      /\ r[1].declared \in 0 .. Len(r)
  <2>1. /\ Len(r) >= HeaderUnits /\ r[1].declared \in HeaderUnits .. MaxMessage
        /\ Len(r) >= r[1].declared
    BY <1>1 DEF ParseMessage, HasHeader, LengthOk, HasFrame
  <2>2. Len(r) \in Nat /\ HeaderUnits \in Nat /\ HeaderUnits >= 1 /\ MaxMessage \in Nat
    BY NetAssumption, LenProperties
  <2>3. Len(r) >= 1 /\ r[1].declared \in 0 .. Len(r)
    BY <2>1, <2>2
  <2>4. r[1] \in Unit
    BY <2>2, <2>3, ElementOfSeq
  <2>. QED
    BY <2>2, <2>3, <2>4, EmptySeq
<1>5. PICK l \in 0 .. Len(r) : l = r[1].declared
  BY <1>4
<1>6. PICK msg \in Message : msg = [number |-> r[1].number, valid |-> r[1].valid]
  BY <1>4 DEF Unit, Message
<1>7. PICK a : a = SubSeq(r, 1, l)
  OBVIOUS
<1>8. PICK b : b = SubSeq(r, l + 1, Len(r))
  OBVIOUS
<1>9. /\ a \in Seq(Unit) /\ b \in Seq(Unit) /\ Len(a) = l /\ r = Joined(a, b)
  BY <1>5, <1>7, <1>8, UnitsCut DEF Joined
<1>10. PICK to : to = Append(ms, msg)
  OBVIOUS
<1>11. /\ to \in Seq(Message) /\ Len(to) = Len(ms) + 1 /\ Len(ms) \in Nat
       /\ to[Len(ms) + 1] = msg /\ \A i \in 1 .. Len(ms) : to[i] = ms[i]
  BY <1>6, <1>10, AppendProperties, LenProperties
<1>12. /\ clients' = [clients EXCEPT ![p] = [@ EXCEPT !.recv = b, !.messages = to]]
       /\ UNCHANGED <<peers, outbound, published, net, sentLog, dispatched, got>>
  BY <1>1, <1>3, <1>5, <1>6, <1>8, <1>10 DEF ParseMessage, NetInv, PeerShapes
<1>13. /\ clients'[p].recv = b /\ clients'[p].messages = to
       /\ clients'[p].send = clients[p].send /\ clients'[p].offset = clients[p].offset
       /\ \A q \in Peers : q # p => Untouched(q)
  BY <1>12 DEF NetInv, PeerShapes, Untouched
<1>14. PeerShapes' /\ PollShapes'
  BY <1>9, <1>11, <1>12, ZenonT(60) DEF NetInv, PeerShapes, PollShapes
<1>15. PeerInv(p) /\ peers[p].state \in Live
  BY <1>1, <1>4 DEF NetInv, PeerInv, Absent, NoClient
<1>16. Absent(p)' /\ Fresh(p)'
  BY <1>12, <1>15 DEF PeerInv, Absent, Fresh
<1>17. Telemetry(p)'
  BY <1>12, <1>13, <1>15, TelemetryKept DEF PeerInv, SameTelemetry, SameState
<1>18. Commands(p)'
  <2> SUFFICES ASSUME Conforming(p)
               PROVE  \E d \in Nat : /\ Given(p, d)
                                     /\ \E k \in Nat : /\ Parsed(p, d, k)'
                                                       /\ \E at \in Positions(log, k) :
                                                             Laid(log, k, at, Coming(p)')
    BY <1>2, <1>12 DEF Commands, Conforming, Given
  <2>1. PICK d \in Nat, k \in Nat :
           /\ Given(p, d) /\ Parsed(p, d, k)
           /\ \E at \in Positions(log, k) : Laid(log, k, at, Coming(p))
    BY <1>2, <1>15 DEF PeerInv, Commands, Live
  <2>2. PICK at \in Positions(log, k) : Laid(log, k, at, Coming(p))
    BY <2>1
  <2>3. /\ d <= k /\ k <= Len(log) /\ Len(ms) = k - d /\ Len(log) \in Nat
        /\ \A i \in 1 .. k - d : ms[i] = [number |-> d + i, valid |-> log[d + i].valid]
    BY <2>1, <1>2, <1>3, LenProperties DEF Parsed
  <2>4. PICK ws \in Seq(Unit) : ws = Joined(w, s)
    BY JoinedFacts
  <2>5. PICK t \in Seq(Unit) : t = Joined(b, ws)
    BY <1>9, <2>4, JoinedFacts
  <2>6. PICK c \in Seq(Unit) :
           /\ c = Joined(a, t) /\ Len(c) = Len(a) + Len(t) /\ Len(a) \in Nat /\ Len(t) \in Nat
           /\ \A i \in 1 .. Len(a) : c[i] = a[i]
           /\ \A i \in 1 .. Len(t) : c[Len(a) + i] = t[i]
    <3>1. a \in Seq(Unit) /\ t \in Seq(Unit)
      BY <1>9, <2>5
    <3>2. /\ Joined(a, t) \in Seq(Unit) /\ Len(Joined(a, t)) = Len(a) + Len(t)
          /\ Len(a) \in Nat /\ Len(t) \in Nat
          /\ \A i \in 1 .. Len(a) : Joined(a, t)[i] = a[i]
          /\ \A i \in 1 .. Len(t) : Joined(a, t)[Len(a) + i] = t[i]
      BY <3>1, JoinedFacts
    <3>. QED
      BY <3>2
  <2>7. c = Coming(p) /\ t = Coming(p)'
    <3>1. Coming(p) = Joined(Joined(r, w), s) /\ Coming(p)' = Joined(Joined(b, w), s)
      BY <1>1, <1>12, <1>13 DEF Coming, Joined
    <3>2. Joined(Joined(r, w), s) = Joined(r, ws) /\ Joined(Joined(b, w), s) = Joined(b, ws)
      BY <1>9, <2>4, UnitsJoin
    <3>3. Joined(Joined(a, b), ws) = Joined(a, Joined(b, ws))
      BY <1>9, <2>4, UnitsJoin
    <3>. QED
      BY <3>1, <3>2, <3>3, <2>5, <2>6, <1>9
  <2>8. c[1] = r[1] /\ Len(c) >= 1
    <3>1. PICK x \in Seq(Unit) :
             /\ x = Joined(r, ws) /\ Len(x) = Len(r) + Len(ws) /\ Len(ws) \in Nat
             /\ \A i \in 1 .. Len(r) : x[i] = r[i]
      <4>1. r \in Seq(Unit) /\ ws \in Seq(Unit)
        BY <1>1, <2>4
      <4>2. /\ Joined(r, ws) \in Seq(Unit) /\ Len(Joined(r, ws)) = Len(r) + Len(ws)
            /\ Len(ws) \in Nat /\ \A i \in 1 .. Len(r) : Joined(r, ws)[i] = r[i]
        BY <4>1, JoinedFacts
      <4>. QED
        BY <4>2
    <3>2. x = c
      <4>1. Joined(Joined(a, b), ws) = Joined(a, Joined(b, ws))
        BY <1>9, <2>4, UnitsJoin
      <4>. QED
        BY <4>1, <3>1, <2>5, <2>6, <1>9
    <3>3. 1 \in 1 .. Len(r) /\ Len(x) >= 1
      BY <3>1, <1>4
    <3>. QED
      BY <3>1, <3>2, <3>3
  <2>9. /\ \A i \in DOMAIN log : WellFormed(log[i])
        /\ Laid(log, k, at, c)
    BY <1>2, <2>2, <2>7 DEF Conforming
  <2>10. /\ k + 1 <= Len(log) /\ l = log[k + 1].length
         /\ msg = [number |-> k + 1, valid |-> log[k + 1].valid]
    <3>1. /\ k + 1 <= Len(log) /\ c[1].declared = log[k + 1].length
          /\ c[1].number = k + 1 /\ c[1].valid = log[k + 1].valid
      BY <2>3, <2>6, <2>8, <2>9, FirstUnit, ZenonT(60)
    <3>. QED
      BY <3>1, <2>8, <1>5, <1>6
  <2>11. \E at2 \in Positions(log, k + 1) : Laid(log, k + 1, at2, t)
    <3>1. Len(c) = log[k + 1].length + Len(t) /\ \A i \in 1 .. Len(t) : c[log[k + 1].length + i] = t[i]
      BY <2>6, <2>10, <1>9
    <3>2. \A i \in 1 .. Len(log) : log[i].length \in Nat
      BY <2>9, LogFacts
    <3>. QED
      BY <3>1, <3>2, <2>2, <2>9, <2>10, LaidParsed
  <2>12. Parsed(p, d, k + 1)'
    <3>1. Parsed(p, d, k + 1)' <=>
            /\ d <= k + 1 /\ k + 1 <= Len(log) /\ Len(to) = (k + 1) - d
            /\ \A i \in 1 .. (k + 1) - d : to[i] = [number |-> d + i, valid |-> log[d + i].valid]
      BY <1>2, <1>12, <1>13 DEF Parsed
    <3>2. d <= k + 1 /\ Len(to) = (k + 1) - d
      BY <2>3, <1>11, SMTT(30)
    <3>3. ASSUME NEW i \in 1 .. (k + 1) - d
          PROVE  to[i] = [number |-> d + i, valid |-> log[d + i].valid]
      <4>1. CASE i = (k + 1) - d
        <5>1. i = Len(ms) + 1 /\ d + i = k + 1
          BY <4>1, <2>3
        <5>2. to[i] = msg
          BY <5>1, <1>11
        <5>. QED
          BY <5>1, <5>2, <2>10
      <4>2. CASE i # (k + 1) - d
        <5>1. i \in 1 .. k - d /\ i \in 1 .. Len(ms)
          BY <4>2, <2>3
        <5>. QED
          BY <5>1, <2>3, <1>11
      <4>. QED
        BY <4>1, <4>2
    <3>. QED
      BY <3>1, <3>2, <3>3, <2>10
  <2>13. k + 1 \in Nat
    OBVIOUS
  <2>. QED
    BY <2>1, <2>7, <2>11, <2>12, <2>13
<1>. QED
  BY <1>12, <1>13, <1>14, <1>16, <1>17, <1>18, OnlyAt DEF PeerInv

\* The buffer of a client whose messages are well-formed is never emptied.
LEMMA ParseDiscardInv == ASSUME NetInv, NEW p \in Peers, ParseDiscard(p) PROVE NetInv'
<1>1. PICK r, w, s \in Seq(Unit) : r = clients[p].recv /\ w = peers[p].wire /\ s = peers[p].stream
  BY DEF NetInv, PeerShapes
<1>2. PICK log \in Seq(Messages) : log = sentLog[p]
  BY DEF NetInv, PeerShapes
<1>3. Len(r) \in Nat /\ Len(r) >= 1 /\ r # <<>> /\ r[1].declared \notin HeaderUnits .. MaxMessage
  <2>1. Len(r) >= HeaderUnits /\ r[1].declared \notin HeaderUnits .. MaxMessage
    BY <1>1 DEF ParseDiscard, HasHeader, LengthOk
  <2>2. Len(r) \in Nat /\ HeaderUnits \in Nat /\ HeaderUnits >= 1
    BY NetAssumption, LenProperties
  <2>3. Len(r) >= 1
    BY <2>1, <2>2
  <2>. QED
    BY <2>1, <2>2, <2>3, EmptySeq
<1>4. /\ clients' = [clients EXCEPT ![p].recv = <<>>] /\ net' = [net EXCEPT !.pc = "read"]
      /\ UNCHANGED <<peers, outbound, published, sentLog, dispatched, got>>
  BY DEF ParseDiscard
<1>5. /\ clients'[p].messages = clients[p].messages
      /\ clients'[p].send = clients[p].send /\ clients'[p].offset = clients[p].offset
      /\ \A q \in Peers : q # p => Untouched(q)
  BY <1>4 DEF NetInv, PeerShapes, Untouched
<1>6. PeerShapes' /\ PollShapes'
  <2>1. <<>> \in Seq(Unit)
    OBVIOUS
  <2>. QED
    BY <1>4, <2>1, ZenonT(60) DEF NetInv, PeerShapes, PollShapes
<1>7. PeerInv(p) /\ peers[p].state \in Live
  BY <1>1, <1>3 DEF NetInv, PeerInv, Absent, NoClient
<1>8. Absent(p)' /\ Fresh(p)'
  BY <1>4, <1>7 DEF PeerInv, Absent, Fresh
<1>9. Telemetry(p)'
  BY <1>4, <1>5, <1>7, TelemetryKept DEF PeerInv, SameTelemetry, SameState
<1>10. ~Conforming(p)
  <2> SUFFICES ASSUME Conforming(p) PROVE FALSE
    OBVIOUS
  <2>1. \A i \in DOMAIN log : WellFormed(log[i])
    BY <1>2 DEF Conforming
  <2>2. PICK d \in Nat, k \in Nat :
           /\ Parsed(p, d, k)
           /\ \E at \in Positions(log, k) : Laid(log, k, at, Coming(p))
    BY <1>2, <1>7 DEF PeerInv, Commands, Live
  <2>3. PICK ws \in Seq(Unit) : ws = Joined(w, s)
    BY JoinedFacts
  <2>4. PICK c \in Seq(Unit) :
           /\ c = Joined(r, ws) /\ Len(c) = Len(r) + Len(ws) /\ Len(ws) \in Nat
           /\ \A i \in 1 .. Len(r) : c[i] = r[i]
    <3>1. r \in Seq(Unit) /\ ws \in Seq(Unit)
      BY <1>1, <2>3
    <3>2. /\ Joined(r, ws) \in Seq(Unit) /\ Len(Joined(r, ws)) = Len(r) + Len(ws)
          /\ Len(ws) \in Nat /\ \A i \in 1 .. Len(r) : Joined(r, ws)[i] = r[i]
      BY <3>1, JoinedFacts
    <3>. QED
      BY <3>2
  <2>5. c = Coming(p)
    <3>1. Coming(p) = Joined(Joined(r, w), s)
      BY <1>1 DEF Coming, Joined
    <3>2. Joined(Joined(r, w), s) = Joined(r, Joined(w, s))
      BY <1>1, UnitsJoin
    <3>. QED
      BY <3>1, <3>2, <2>3, <2>4
  <2>6. c[1] = r[1] /\ Len(c) >= 1
    <3>1. 1 \in 1 .. Len(r)
      BY <1>3
    <3>. QED
      BY <3>1, <2>4, <1>3
  <2>7. PICK at \in Positions(log, k) : Laid(log, k, at, c)
    BY <2>2, <2>5
  <2>8. k <= Len(log)
    BY <2>2, <1>2 DEF Parsed
  <2>9. k + 1 <= Len(log) /\ c[1].declared = log[k + 1].length
    BY <2>1, <2>4, <2>6, <2>7, <2>8, FirstUnit
  <2>10. log[k + 1].length \in HeaderUnits .. MaxMessage
    <3>1. k + 1 \in 1 .. Len(log)
      BY <2>9, LenProperties
    <3>. QED
      BY <3>1, <2>1, LogFacts
  <2>. QED
    BY <2>6, <2>9, <2>10, <1>3
<1>11. Commands(p)'
  BY <1>4, <1>10 DEF Commands, Conforming
<1>. QED
  BY <1>4, <1>5, <1>6, <1>8, <1>9, <1>11, OnlyAt DEF PeerInv

LEMMA DispatchMessageInv == ASSUME NetInv, NEW p \in Peers, DispatchMessage(p) PROVE NetInv'
<1>1. PICK ms \in Seq(Message) : ms = clients[p].messages
  BY DEF NetInv, PeerShapes
<1>2. PICK log \in Seq(Messages) : log = sentLog[p]
  BY DEF NetInv, PeerShapes
<1>3. PICK ds \in Seq(Nat) : ds = dispatched[p]
  BY DEF NetInv, PeerShapes
<1>4. CASE ms = <<>>
  <2>1. /\ net' = [net EXCEPT !.pc = "events", !.at = Nobody]
        /\ UNCHANGED <<peers, clients, outbound, published, sentLog, dispatched, got>>
    BY <1>1, <1>4 DEF DispatchMessage
  <2>2. PollShapes'
    BY <2>1 DEF NetInv, PollShapes
  <2>. QED
    BY <2>1, <2>2, NetOnly
<1>5. CASE ms # <<>>
  <2>1. PICK rest \in Seq(Message), msg \in Message :
           /\ rest = Tail(ms) /\ msg = Head(ms) /\ msg = ms[1]
           /\ Len(ms) \in Nat /\ Len(ms) >= 1
           /\ Len(rest) = Len(ms) - 1 /\ \A i \in 1 .. Len(rest) : rest[i] = ms[i + 1]
    <3>1. /\ Head(ms) \in Message /\ Tail(ms) \in Seq(Message) /\ Len(ms) \in Nat /\ Len(ms) >= 1
          /\ Len(Tail(ms)) = Len(ms) - 1 /\ \A i \in 1 .. Len(Tail(ms)) : Tail(ms)[i] = ms[i + 1]
          /\ Head(ms) = ms[1]
      BY <1>5, HeadTailProperties, LenProperties, EmptySeq
    <3>. QED
      BY <3>1
  <2>2. PICK more \in Seq(Nat) : more = IF msg.valid THEN Append(ds, msg.number) ELSE ds
    <3>1. msg.number \in Nat
      BY <2>1 DEF Message
    <3>. QED
      BY <3>1, AppendProperties
  <2>3. /\ clients' = [clients EXCEPT ![p].messages = rest]
        /\ dispatched' = [dispatched EXCEPT ![p] = more]
        /\ UNCHANGED <<peers, outbound, published, net, sentLog, got>>
    <3>1. /\ clients' = [clients EXCEPT ![p].messages = Tail(@)]
          /\ dispatched' = IF msg.valid THEN [dispatched EXCEPT ![p] = Append(@, msg.number)]
                           ELSE dispatched
          /\ UNCHANGED <<peers, outbound, published, net, sentLog, got>>
      BY <1>1, <1>5, <2>1 DEF DispatchMessage
    <3>2. clients' = [clients EXCEPT ![p].messages = rest]
      BY <3>1, <2>1, <1>1 DEF NetInv, PeerShapes
    <3>3. dispatched' = [dispatched EXCEPT ![p] = more]
      BY <3>1, <2>2, <1>3 DEF NetInv, PeerShapes
    <3>. QED
      BY <3>1, <3>2, <3>3
  <2>4. /\ clients'[p].messages = rest /\ clients'[p].recv = clients[p].recv
        /\ clients'[p].send = clients[p].send /\ clients'[p].offset = clients[p].offset
        /\ dispatched'[p] = more
        /\ \A q \in Peers : q # p => Untouched(q)
    BY <2>3 DEF NetInv, PeerShapes, Untouched
  <2>5. PeerShapes' /\ PollShapes'
    BY <2>3, ZenonT(60) DEF NetInv, PeerShapes, PollShapes
  <2>6. PeerInv(p) /\ peers[p].state \in Live
    BY <1>1, <1>5 DEF NetInv, PeerInv, Absent, NoClient
  <2>7. Absent(p)' /\ Fresh(p)'
    BY <2>3, <2>6 DEF PeerInv, Absent, Fresh, Live
  <2>8. Telemetry(p)'
    BY <2>3, <2>4, <2>6, TelemetryKept DEF PeerInv, SameTelemetry, SameState
  <2>9. Commands(p)'
    <3> SUFFICES ASSUME Conforming(p)
                 PROVE  \E d \in Nat :
                           /\ Given(p, d)'
                           /\ \E k \in Nat : /\ Parsed(p, d, k)'
                                             /\ \E at \in Positions(log, k) :
                                                   Laid(log, k, at, Coming(p))
      BY <1>2, <2>3, <2>4 DEF Commands, Conforming, Coming
    <3>1. PICK d \in Nat, k \in Nat :
             /\ Given(p, d) /\ Parsed(p, d, k)
             /\ \E at \in Positions(log, k) : Laid(log, k, at, Coming(p))
      BY <1>2, <2>6 DEF PeerInv, Commands, Live
    <3>2. /\ d <= Len(log) /\ d <= k /\ k <= Len(log) /\ Len(ms) = k - d /\ Len(log) \in Nat
          /\ \A i \in 1 .. k - d : ms[i] = [number |-> d + i, valid |-> log[d + i].valid]
      BY <3>1, <1>1, <1>2, LenProperties DEF Given, Parsed
    <3>3. d + 1 <= k /\ msg = [number |-> d + 1, valid |-> log[d + 1].valid]
      <4>1. d + 1 <= k /\ 1 \in 1 .. k - d
        BY <2>1, <3>2
      <4>. QED
        BY <4>1, <2>1, <3>2
    <3>4. Parsed(p, d + 1, k)'
      <4>1. Parsed(p, d + 1, k)' <=>
              /\ d + 1 <= k /\ k <= Len(log) /\ Len(rest) = k - (d + 1)
              /\ \A i \in 1 .. k - (d + 1) :
                    rest[i] = [number |-> (d + 1) + i, valid |-> log[(d + 1) + i].valid]
        BY <1>2, <2>3, <2>4 DEF Parsed
      <4>2. Len(rest) = k - (d + 1)
        BY <2>1, <3>2
      <4>3. ASSUME NEW i \in 1 .. k - (d + 1)
            PROVE  rest[i] = [number |-> (d + 1) + i, valid |-> log[(d + 1) + i].valid]
        <5>1. i \in 1 .. Len(rest) /\ i + 1 \in 1 .. k - d /\ (d + 1) + i = d + (i + 1)
          <6>1. i \in 1 .. Len(rest)
            BY <4>2
          <6>2. d \in Int /\ k \in Int /\ i \in Int /\ 1 <= i /\ i <= k - (d + 1)
            BY <3>1
          <6>3. i + 1 \in 1 .. k - d /\ (d + 1) + i = d + (i + 1)
            BY <6>2
          <6>. QED
            BY <6>1, <6>3
        <5>2. rest[i] = ms[i + 1]
          BY <5>1, <2>1
        <5>. QED
          BY <5>1, <5>2, <3>2
      <4>. QED
        BY <4>1, <4>2, <4>3, <3>2, <3>3
    <3>5. Given(p, d + 1)'
      <4>1. Given(p, d + 1)' <=>
              /\ d + 1 <= Len(log)
              /\ \A i, j \in 1 .. Len(more) : i < j => more[i] < more[j]
              /\ \A i \in 1 .. Len(more) : more[i] \in 1 .. d + 1 /\ log[more[i]].valid
              /\ \A h \in 1 .. d + 1 : log[h].valid => \E i \in 1 .. Len(more) : more[i] = h
        BY <1>2, <2>3, <2>4, ZenonT(60) DEF Given
      <4>2. /\ \A i, j \in 1 .. Len(ds) : i < j => ds[i] < ds[j]
            /\ \A i \in 1 .. Len(ds) : ds[i] \in 1 .. d /\ log[ds[i]].valid
            /\ \A h \in 1 .. d : log[h].valid => \E i \in 1 .. Len(ds) : ds[i] = h
        BY <3>1, <1>2, <1>3 DEF Given
      <4>3. d + 1 <= Len(log)
        BY <3>2, <3>3
      <4>4. CASE msg.valid
        <5>1. /\ Len(ds) \in Nat /\ Len(more) = Len(ds) + 1 /\ more[Len(ds) + 1] = d + 1
              /\ \A i \in 1 .. Len(ds) : more[i] = ds[i]
              /\ log[d + 1].valid
          <6>1. more = Append(ds, d + 1) /\ d + 1 \in Nat /\ log[d + 1].valid
            BY <4>4, <2>2, <3>3
          <6>. QED
            BY <6>1, AppendProperties, LenProperties
        <5>2. \A i \in 1 .. Len(more) : i \in 1 .. Len(ds) \/ i = Len(ds) + 1
          BY <5>1
        <5>3. \A i \in 1 .. Len(more) : more[i] \in 1 .. d + 1 /\ log[more[i]].valid
          <6> SUFFICES ASSUME NEW i \in 1 .. Len(more)
                       PROVE  more[i] \in 1 .. d + 1 /\ log[more[i]].valid
            OBVIOUS
          <6>1. CASE i \in 1 .. Len(ds)
            <7>1. more[i] = ds[i] /\ ds[i] \in 1 .. d /\ log[ds[i]].valid
              BY <6>1, <5>1, <4>2
            <7>2. 1 .. d \subseteq 1 .. d + 1
              OBVIOUS
            <7>. QED
              BY <7>1, <7>2
          <6>2. CASE i = Len(ds) + 1
            BY <6>2, <5>1
          <6>. QED
            BY <6>1, <6>2, <5>2
        <5>4. \A i, j \in 1 .. Len(more) : i < j => more[i] < more[j]
          <6> SUFFICES ASSUME NEW i \in 1 .. Len(more), NEW j \in 1 .. Len(more), i < j
                       PROVE  more[i] < more[j]
            OBVIOUS
          <6>1. i \in 1 .. Len(ds)
            BY <5>1
          <6>2. more[i] = ds[i] /\ ds[i] \in 1 .. d
            BY <6>1, <5>1, <4>2
          <6>3. CASE j \in 1 .. Len(ds)
            BY <6>1, <6>2, <6>3, <5>1, <4>2
          <6>4. CASE j = Len(ds) + 1
            BY <6>2, <6>4, <5>1, SMTT(30)
          <6>. QED
            BY <6>3, <6>4, <5>2
        <5>5. ASSUME NEW h \in 1 .. d + 1, log[h].valid
              PROVE  \E i \in 1 .. Len(more) : more[i] = h
          <6>1. CASE h = d + 1
            <7>1. Len(ds) + 1 \in 1 .. Len(more)
              BY <5>1
            <7>. QED
              BY <6>1, <7>1, <5>1
          <6>2. CASE h # d + 1
            <7>1. h \in 1 .. d
              BY <6>2
            <7>2. PICK i \in 1 .. Len(ds) : ds[i] = h
              BY <7>1, <5>5, <4>2
            <7>3. i \in 1 .. Len(more) /\ more[i] = h
              BY <7>2, <5>1, SMTT(30)
            <7>. QED
              BY <7>3
          <6>. QED
            BY <6>1, <6>2
        <5>. QED
          BY <4>1, <4>3, <5>3, <5>4, <5>5
      <4>5. CASE ~msg.valid
        <5>1. more = ds /\ ~log[d + 1].valid
          BY <4>5, <2>2, <3>3
        <5>2. \A i \in 1 .. Len(ds) : ds[i] \in 1 .. d + 1
          BY <4>2
        <5>3. \A h \in 1 .. d + 1 : h \in 1 .. d \/ h = d + 1
          OBVIOUS
        <5>. QED
          BY <4>1, <4>2, <4>3, <5>1, <5>2, <5>3
      <4>. QED
        BY <4>4, <4>5
    <3>6. d + 1 \in Nat
      OBVIOUS
    <3>. QED
      BY <3>1, <3>4, <3>5, <3>6
  <2>. QED
    BY <2>3, <2>4, <2>5, <2>6, <2>7, <2>8, <2>9, OnlyAt DEF PeerInv
<1>. QED
  BY <1>4, <1>5

-----------------------------------------------------------------------------
(* Frames published, put in a client's buffer and sent.                    *)

LEMMA BeforeLater ==
  ASSUME NEW s \in Seq(FrameUnit), NEW n \in Nat, NEW m \in Nat, n <= m, Before(s, n)
  PROVE  Before(s, m)
<1> SUFFICES ASSUME NEW i \in 1 .. Len(s) PROVE s[i].seq < m
  BY DEF Before
<1>1. s[i] \in FrameUnit
  BY ElementOfSeq
<1>2. s[i].seq \in Nat /\ s[i].seq < n
  BY <1>1 DEF FrameUnit, Before
<1>. QED
  BY <1>2

(* The units of a buffer behind unit o, up to unit n. *)
LEMMA FramesCut ==
  ASSUME NEW s \in Seq(FrameUnit), NEW o \in Nat, NEW n \in Nat, o <= n, n <= Len(s)
  PROVE  /\ SubSeq(s, o + 1, n) \in Seq(FrameUnit) /\ Len(SubSeq(s, o + 1, n)) = n - o
         /\ \A i \in 1 .. n - o : SubSeq(s, o + 1, n)[i] = s[o + i]
<1>1. PICK l \in Nat : l = Len(s)
  BY LenProperties
<1>2. \A i \in o + 1 .. n : s[i] \in FrameUnit
  <2>1. \A i \in 1 .. l : s[i] \in FrameUnit
    BY <1>1, ElementOfSeq
  <2>2. \A i \in o + 1 .. n : i \in 1 .. l
    BY <1>1
  <2>. QED
    BY <2>1, <2>2
<1>3. PICK m \in Int : m = o + 1
  OBVIOUS
<1>4. /\ SubSeq(s, m, n) \in Seq(FrameUnit)
      /\ Len(SubSeq(s, m, n)) = IF m <= n THEN n - m + 1 ELSE 0
      /\ \A i \in 1 .. n - m + 1 : SubSeq(s, m, n)[i] = s[m + i - 1]
  <2>1. n \in Int /\ \A i \in m .. n : s[i] \in FrameUnit
    BY <1>2, <1>3
  <2>. QED
    BY <2>1, <1>3, SubSeqProperties
<1>5. PICK a : a = SubSeq(s, m, n)
  OBVIOUS
<1>6. Len(a) = n - o
  BY <1>3, <1>4, <1>5
<1>7. ASSUME NEW i \in 1 .. n - o PROVE a[i] = s[o + i]
  <2>1. i \in 1 .. n - m + 1 /\ m + i - 1 = o + i
    BY <1>3
  <2>2. a[i] = s[m + i - 1]
    BY <2>1, <1>4, <1>5
  <2>. QED
    BY <2>1, <2>2
<1>. QED
  BY <1>3, <1>4, <1>5, <1>6, <1>7

(* What is left behind unit o, of a buffer that grew. *)
LEMMA RestGrows ==
  ASSUME NEW s \in Seq(FrameUnit), NEW t \in Seq(FrameUnit), NEW o \in 0 .. Len(s)
  PROVE  SubSeq(s \o t, o + 1, Len(s \o t)) = SubSeq(s, o + 1, Len(s)) \o t
<1>1. Len(s) \in Nat /\ Len(t) \in Nat /\ o \in Nat
  BY LenProperties
<1>2. PICK u \in Seq(FrameUnit) :
         /\ u = s \o t /\ Len(u) = Len(s) + Len(t)
         /\ \A i \in 1 .. Len(s) + Len(t) : u[i] = IF i <= Len(s) THEN s[i] ELSE t[i - Len(s)]
  <2>1. s \in Seq(FrameUnit) /\ t \in Seq(FrameUnit)
    OBVIOUS
  <2>2. /\ s \o t \in Seq(FrameUnit) /\ Len(s \o t) = Len(s) + Len(t)
        /\ \A i \in 1 .. Len(s) + Len(t) :
              (s \o t)[i] = IF i <= Len(s) THEN s[i] ELSE t[i - Len(s)]
    BY <2>1, ConcatProperties
  <2>. QED
    BY <2>2
<1>3. PICK a : a = SubSeq(u, o + 1, Len(u))
  OBVIOUS
<1>4. /\ a \in Seq(FrameUnit) /\ Len(a) = Len(u) - o
      /\ \A i \in 1 .. Len(u) - o : a[i] = u[o + i]
  <2>1. Len(u) \in Nat /\ o <= Len(u)
    BY <1>1, <1>2
  <2>. QED
    BY <1>1, <1>2, <1>3, <2>1, FramesCut
<1>5. PICK b : b = SubSeq(s, o + 1, Len(s))
  OBVIOUS
<1>6. /\ b \in Seq(FrameUnit) /\ Len(b) = Len(s) - o
      /\ \A i \in 1 .. Len(s) - o : b[i] = s[o + i]
  BY <1>1, <1>5, FramesCut
<1>7. PICK c \in Seq(FrameUnit) :
         /\ c = b \o t /\ Len(c) = Len(b) + Len(t)
         /\ \A i \in 1 .. Len(b) + Len(t) : c[i] = IF i <= Len(b) THEN b[i] ELSE t[i - Len(b)]
  <2>1. b \in Seq(FrameUnit)
    BY <1>6
  <2>2. /\ b \o t \in Seq(FrameUnit) /\ Len(b \o t) = Len(b) + Len(t)
        /\ \A i \in 1 .. Len(b) + Len(t) :
              (b \o t)[i] = IF i <= Len(b) THEN b[i] ELSE t[i - Len(b)]
    BY <2>1, ConcatProperties
  <2>. QED
    BY <2>2
<1>8. Len(a) = Len(c)
  BY <1>1, <1>2, <1>4, <1>6, <1>7
<1>9. ASSUME NEW i \in 1 .. Len(a) PROVE a[i] = c[i]
  <2>1. /\ i \in 1 .. Len(u) - o /\ o + i \in 1 .. Len(s) + Len(t) /\ i \in 1 .. Len(b) + Len(t)
        /\ i - Len(b) = (o + i) - Len(s) /\ (i <= Len(b) <=> o + i <= Len(s))
    BY <1>1, <1>2, <1>4, <1>6
  <2>2. a[i] = u[o + i]
    BY <2>1, <1>4
  <2>3. CASE i <= Len(b)
    <3>1. i \in 1 .. Len(s) - o
      BY <2>3, <1>1, <1>6
    <3>2. c[i] = b[i] /\ b[i] = s[o + i] /\ u[o + i] = s[o + i]
      BY <2>1, <2>3, <3>1, <1>2, <1>6, <1>7
    <3>. QED
      BY <2>2, <3>2
  <2>4. CASE ~(i <= Len(b))
    <3>1. c[i] = t[i - Len(b)] /\ u[o + i] = t[(o + i) - Len(s)]
      BY <2>1, <2>4, <1>2, <1>7
    <3>. QED
      BY <2>1, <2>2, <3>1
  <2>. QED
    BY <2>3, <2>4
<1>10. a = c
  BY <1>4, <1>7, <1>8, <1>9, SeqEqual
<1>. QED
  BY <1>2, <1>3, <1>5, <1>7, <1>10

(* The first n units of what is left, and the others. *)
LEMMA RestSplits ==
  ASSUME NEW s \in Seq(FrameUnit), NEW o \in Nat, NEW n \in Nat, o + n <= Len(s)
  PROVE  /\ SubSeq(s, o + 1, o + n) \in Seq(FrameUnit)
         /\ SubSeq(s, o + n + 1, Len(s)) \in Seq(FrameUnit)
         /\ SubSeq(s, o + 1, o + n) \o SubSeq(s, o + n + 1, Len(s)) = SubSeq(s, o + 1, Len(s))
         /\ o + n = Len(s) => SubSeq(s, o + n + 1, Len(s)) = <<>>
<1>1. Len(s) \in Nat
  BY LenProperties
<1>2. PICK a : a = SubSeq(s, o + 1, o + n)
  OBVIOUS
<1>3. /\ a \in Seq(FrameUnit) /\ Len(a) = n
      /\ \A i \in 1 .. n : a[i] = s[o + i]
  <2>1. o + n \in Nat /\ o <= o + n /\ (o + n) - o = n
    OBVIOUS
  <2>. QED
    BY <1>2, <2>1, FramesCut
<1>4. PICK b : b = SubSeq(s, o + n + 1, Len(s))
  OBVIOUS
<1>5. /\ b \in Seq(FrameUnit) /\ Len(b) = Len(s) - (o + n)
      /\ \A i \in 1 .. Len(s) - (o + n) : b[i] = s[o + n + i]
  <2>1. o + n \in Nat
    OBVIOUS
  <2>. QED
    BY <1>1, <1>4, <2>1, FramesCut
<1>6. PICK c : c = SubSeq(s, o + 1, Len(s))
  OBVIOUS
<1>7. /\ c \in Seq(FrameUnit) /\ Len(c) = Len(s) - o
      /\ \A i \in 1 .. Len(s) - o : c[i] = s[o + i]
  <2>1. o <= Len(s)
    BY <1>1
  <2>. QED
    BY <1>1, <1>6, <2>1, FramesCut
<1>8. PICK d \in Seq(FrameUnit) :
         /\ d = a \o b /\ Len(d) = Len(a) + Len(b)
         /\ \A i \in 1 .. Len(a) + Len(b) : d[i] = IF i <= Len(a) THEN a[i] ELSE b[i - Len(a)]
  <2>1. a \in Seq(FrameUnit) /\ b \in Seq(FrameUnit)
    BY <1>3, <1>5
  <2>2. /\ a \o b \in Seq(FrameUnit) /\ Len(a \o b) = Len(a) + Len(b)
        /\ \A i \in 1 .. Len(a) + Len(b) :
              (a \o b)[i] = IF i <= Len(a) THEN a[i] ELSE b[i - Len(a)]
    BY <2>1, ConcatProperties
  <2>. QED
    BY <2>2
<1>9. Len(d) = Len(c)
  BY <1>1, <1>3, <1>5, <1>7, <1>8
<1>10. ASSUME NEW i \in 1 .. Len(c) PROVE d[i] = c[i]
  <2>1. i \in 1 .. Len(s) - o /\ i \in 1 .. Len(a) + Len(b)
    BY <1>1, <1>3, <1>5, <1>7
  <2>2. c[i] = s[o + i]
    BY <2>1, <1>7
  <2>3. CASE i <= n
    <3>1. i \in 1 .. n
      BY <2>1, <2>3
    <3>. QED
      BY <2>1, <2>2, <2>3, <3>1, <1>3, <1>8
  <2>4. CASE ~(i <= n)
    <3>1. i - n \in 1 .. Len(s) - (o + n) /\ o + n + (i - n) = o + i
      BY <2>1, <2>4, <1>1
    <3>2. d[i] = b[i - n]
      BY <2>1, <2>4, <1>3, <1>8
    <3>. QED
      BY <2>2, <3>1, <3>2, <1>5
  <2>. QED
    BY <2>3, <2>4
<1>11. d = c
  BY <1>7, <1>8, <1>9, <1>10, SeqEqual
<1>12. o + n = Len(s) => b = <<>>
  BY <1>1, <1>5, EmptySeq
<1>. QED
  BY <1>2, <1>3, <1>4, <1>5, <1>6, <1>8, <1>11, <1>12

(* A step that only fills or empties a send buffer. *)
LEMMA SendOnly ==
  ASSUME NetInv, NEW p \in Peers, UNCHANGED <<peers, sentLog, dispatched>>,
         clients'[p].recv = clients[p].recv, clients'[p].messages = clients[p].messages,
         peers[p].state \in Live \/ (clients'[p] = clients[p] /\ got'[p] = got[p]),
         Telemetry(p)'
  PROVE  PeerInv(p)'
<1>1. PeerInv(p)
  BY DEF NetInv
<1>2. Absent(p)' /\ Fresh(p)'
  BY <1>1 DEF PeerInv, Absent, Fresh, Live
<1>3. Commands(p)'
  BY <1>1, CommandsKept DEF PeerInv, SameCommands, Coming
<1>. QED
  BY <1>2, <1>3 DEF PeerInv

LEMMA PendingFacts == ASSUME NetInv, NEW p \in Peers PROVE Pending(p) \in Seq(FrameUnit)
<1>1. PICK s \in Seq(FrameUnit), o \in Nat :
         s = clients[p].send /\ o = clients[p].offset /\ o <= Len(s)
  BY DEF NetInv, PeerShapes, PeerInv, Telemetry
<1>2. PICK n \in Nat : n = Len(s)
  BY LenProperties
<1>3. SubSeq(s, o + 1, n) \in Seq(FrameUnit)
  BY <1>1, <1>2, FramesCut
<1>. QED
  BY <1>1, <1>2, <1>3 DEF Pending

LEMMA PublishTelemetryInv == ASSUME NetInv, PublishTelemetry PROVE NetInv'
<1>1. PICK n \in Nat : n = published /\ n + 1 \in Nat
  BY DEF NetInv, PollShapes
<1>2. /\ published' = n + 1 /\ outbound' = n + 1
      /\ UNCHANGED <<peers, clients, net, sentLog, dispatched, got>>
  BY <1>1 DEF PublishTelemetry
<1>3. PeerShapes' /\ PollShapes'
  BY <1>1, <1>2 DEF NetInv, PeerShapes, PollShapes
<1>4. ASSUME NEW p \in Peers PROVE PeerInv(p)'
  <2>1. PICK g, b \in Seq(FrameUnit) : g = got[p] /\ b = Pending(p)
    <3>1. got[p] \in Seq(FrameUnit)
      BY DEF NetInv, PeerShapes
    <3>. QED
      BY <3>1, PendingFacts
  <2>2. PICK s \in Seq(FrameUnit) : s = g \o b
    BY ConcatProperties
  <2>3. Pending(p)' = b /\ got'[p] = g /\ clients'[p] = clients[p] /\ peers'[p].state = peers[p].state
    BY <1>2, <2>1 DEF Pending
  <2>4. Telemetry(p)
    BY DEF NetInv, PeerInv
  <2>5. Telemetry(p)'
    <3>1. CASE peers[p].state \in {"reset", "gone"}
      BY <2>3, <2>4, <2>1, <3>1 DEF Telemetry
    <3>2. CASE peers[p].state \notin {"reset", "gone"}
      <4>1. Whole(s) /\ EndsWhole(s) /\ Before(s, n + 1)
        BY <3>2, <2>1, <2>2, <2>4, <1>1 DEF Telemetry
      <4>2. Before(s, (n + 1) + 1)
        <5>1. n + 1 \in Nat /\ (n + 1) + 1 \in Nat /\ n + 1 <= (n + 1) + 1
          OBVIOUS
        <5>. QED
          BY <4>1, <5>1, BeforeLater
      <4>. QED
        BY <4>1, <4>2, <2>1, <2>2, <2>3, <2>4, <1>2 DEF Telemetry
    <3>. QED
      BY <3>1, <3>2
  <2>. QED
    BY <1>2, <2>5, SendOnly
<1>. QED
  BY <1>3, <1>4 DEF NetInv

LEMMA DrainInv == ASSUME NetInv, Drain PROVE NetInv'
<1>1. PICK n \in Nat, l \in Nat : n = outbound /\ l = published /\ n <= l
  BY DEF NetInv, PollShapes
<1>2. /\ outbound' = 0 /\ published' = l
      /\ UNCHANGED <<peers, sentLog, dispatched, got>>
      /\ net' = [net EXCEPT !.pc = "flush", !.flushed = {}]
  BY <1>1 DEF Drain
<1>3. clients' = [p \in Peers |-> IF n # 0 /\ p \in Clients("telemetry")
                                  THEN [clients[p] EXCEPT !.send = clients[p].send \o Frame(n)]
                                  ELSE clients[p]]
  BY <1>1 DEF Drain
<1>4. PICK f \in Seq(FrameUnit) : f = Frame(n)
  BY FrameFacts
<1>5. ASSUME NEW p \in Peers
      PROVE  /\ clients'[p] \in [recv : Seq(Unit), messages : Seq(Message), send : Seq(FrameUnit),
                                 offset : Nat]
             /\ PeerInv(p)'
  <2>0. PeerInv(p) /\ Telemetry(p)
    BY DEF NetInv, PeerInv
  <2>1. PICK c \in [recv : Seq(Unit), messages : Seq(Message), send : Seq(FrameUnit), offset : Nat] :
           c = clients[p]
    BY DEF NetInv, PeerShapes
  <2>2. PICK s \in Seq(FrameUnit) : s = c.send
    BY <2>1
  <2>3. PICK o \in 0 .. Len(s) : o = c.offset
    <3>1. c.offset \in Nat /\ c.offset <= Len(s) /\ Len(s) \in Nat
      BY <2>0, <2>1, <2>2, LenProperties DEF Telemetry
    <3>. QED
      BY <3>1
  <2>4. CASE n # 0 /\ p \in Clients("telemetry")
    <3>1. PICK sf : sf = s \o f
      OBVIOUS
    <3>2. sf \in Seq(FrameUnit) /\ Len(sf) = Len(s) + Len(f) /\ Len(s) \in Nat /\ Len(f) \in Nat
      BY <3>1, ConcatProperties, LenProperties
    <3>3. clients'[p] = [c EXCEPT !.send = sf]
      BY <2>1, <2>2, <2>4, <3>1, <1>3, <1>4
    <3>4. /\ clients'[p] \in [recv : Seq(Unit), messages : Seq(Message), send : Seq(FrameUnit),
                              offset : Nat]
          /\ clients'[p].recv = c.recv /\ clients'[p].messages = c.messages
          /\ clients'[p].send = sf /\ clients'[p].offset = o
      BY <2>1, <2>3, <3>2, <3>3
    <3>5. PICK g \in Seq(FrameUnit) : g = got[p]
      BY DEF NetInv, PeerShapes
    <3>6. PICK b : b = SubSeq(s, o + 1, Len(s))
      OBVIOUS
    <3>7. b \in Seq(FrameUnit) /\ Pending(p) = b /\ Pending(p)' = b \o f
      <4>1. Len(s) \in Nat /\ o \in Nat /\ o <= Len(s)
        BY <3>2
      <4>2. b \in Seq(FrameUnit)
        BY <3>6, <4>1, FramesCut
      <4>3. SubSeq(sf, o + 1, Len(sf)) = b \o f
        BY <3>1, <3>6, RestGrows
      <4>. QED
        BY <4>2, <4>3, <3>4, <3>6, <2>1, <2>2, <2>3 DEF Pending
    <3>8. PICK gb \in Seq(FrameUnit) : gb = g \o b
      BY <3>5, <3>7, ConcatProperties
    <3>9. g \o (b \o f) = gb \o f
      <4>1. g \in Seq(FrameUnit) /\ b \in Seq(FrameUnit) /\ f \in Seq(FrameUnit)
        BY <3>5, <3>7, <1>4
      <4>2. (g \o b) \o f = g \o (b \o f)
        <5>1. Joined(Joined(g, b), f) = Joined(g, Joined(b, f))
          BY <4>1, FramesJoin
        <5>. QED
          BY <5>1 DEF Joined
      <4>. QED
        BY <4>2, <3>8
    <3>10. Telemetry(p)'
      <4>1. clients'[p].offset <= Len(clients'[p].send)
        BY <3>2, <3>4
      <4>2. Whole(got'[p])
        BY <1>2, <2>0 DEF Telemetry
      <4>3. CASE peers[p].state \in {"reset", "gone"}
        BY <4>1, <4>2, <4>3, <1>2 DEF Telemetry
      <4>4. CASE peers[p].state \notin {"reset", "gone"}
        <5>1. Whole(gb) /\ EndsWhole(gb) /\ Before(gb, n)
          BY <4>4, <2>0, <2>4, <3>5, <3>7, <3>8, <1>1 DEF Telemetry
        <5>2. PICK u : u = gb \o f
          OBVIOUS
        <5>3. Whole(u) /\ EndsWhole(u) /\ Before(u, n + 1)
          BY <5>1, <5>2, <3>8, <1>4, FrameAdded
        <5>4. u \in Seq(FrameUnit)
          BY <5>2, <3>8, <1>4, ConcatProperties
        <5>5. Before(u, l + 1)
          <6>1. n + 1 \in Nat /\ l + 1 \in Nat /\ n + 1 <= l + 1
            BY <1>1
          <6>. QED
            BY <5>3, <5>4, <6>1, BeforeLater
        <5>6. u = got'[p] \o Pending(p)'
          BY <5>2, <3>5, <3>7, <3>9, <1>2
        <5>. QED
          BY <4>1, <4>2, <5>3, <5>5, <5>6, <1>2 DEF Telemetry
      <4>. QED
        BY <4>3, <4>4
    <3>11. peers[p].state \in Live
      BY <2>4 DEF Clients, Live
    <3>. QED
      BY <3>4, <3>10, <3>11, <2>1, <1>2, SendOnly
  <2>5. CASE ~(n # 0 /\ p \in Clients("telemetry"))
    <3>1. clients'[p] = clients[p]
      BY <2>5, <1>3
    <3>2. Pending(p)' = Pending(p)
      BY <3>1 DEF Pending
    <3>3. Telemetry(p)'
      BY <3>1, <3>2, <2>0, <1>1, <1>2 DEF Telemetry
    <3>. QED
      BY <3>1, <3>3, <2>1, <1>2, SendOnly
  <2>. QED
    BY <2>4, <2>5
<1>6. PeerShapes'
  <2>1. clients' \in [Peers -> [recv : Seq(Unit), messages : Seq(Message), send : Seq(FrameUnit),
                                offset : Nat]]
    BY <1>3, <1>5
  <2>. QED
    BY <2>1, <1>2 DEF NetInv, PeerShapes
<1>7. PollShapes'
  <2>1. net' \in [pc : {"drain", "flush", "wait", "events", "read", "parse", "dispatch"},
                  at : Peers \cup {Nobody}, flushed : SUBSET Peers, batch : SUBSET Peers]
    <3>1. {} \in SUBSET Peers
      OBVIOUS
    <3>. QED
      BY <3>1, <1>2 DEF NetInv, PollShapes
  <2>. QED
    BY <2>1, <1>1, <1>2 DEF PollShapes
<1>. QED
  BY <1>5, <1>6, <1>7 DEF NetInv

LEMMA FlushInv ==
  ASSUME NetInv, NEW p \in Peers, NEW n \in Nat, Flush(p, n)
  PROVE  NetInv'
<1>1. PICK c \in [recv : Seq(Unit), messages : Seq(Message), send : Seq(FrameUnit), offset : Nat] :
         c = clients[p]
  BY DEF NetInv, PeerShapes
<1>2. PICK s \in Seq(FrameUnit), o \in Nat : s = c.send /\ o = c.offset
  BY <1>1
<1>3. PICK l \in Nat : l = Len(s)
  BY LenProperties
<1>4. o + n <= l /\ peers[p].state \in Live \ {"reset"}
  <2>1. n \in 0 .. l - o /\ p \in Clients("telemetry") /\ peers[p].state # "reset"
    BY <1>1, <1>2, <1>3 DEF Flush
  <2>. QED
    BY <2>1 DEF Clients, Live
<1>5. PICK g \in Seq(FrameUnit) : g = got[p]
  BY DEF NetInv, PeerShapes
<1>6. PICK a, b, w \in Seq(FrameUnit) :
         /\ a = SubSeq(s, o + 1, o + n) /\ b = SubSeq(s, o + n + 1, l) /\ w = SubSeq(s, o + 1, l)
         /\ a \o b = w /\ (o + n = l => b = <<>>)
  <2>1. /\ SubSeq(s, o + 1, o + n) \in Seq(FrameUnit) /\ SubSeq(s, o + n + 1, l) \in Seq(FrameUnit)
        /\ SubSeq(s, o + 1, o + n) \o SubSeq(s, o + n + 1, l) = SubSeq(s, o + 1, l)
        /\ o + n = l => SubSeq(s, o + n + 1, l) = <<>>
    BY <1>3, <1>4, RestSplits
  <2>2. SubSeq(s, o + 1, l) \in Seq(FrameUnit)
    BY <1>3, <1>4, FramesCut
  <2>. QED
    BY <2>1, <2>2
<1>7. PICK ga \in Seq(FrameUnit) : ga = g \o a
  BY ConcatProperties
<1>8. ga \o b = g \o w
  <2>0. g \in Seq(FrameUnit) /\ a \in Seq(FrameUnit) /\ b \in Seq(FrameUnit)
    BY <1>5, <1>6
  <2>1. Joined(Joined(g, a), b) = Joined(g, Joined(a, b))
    BY <2>0, FramesJoin
  <2>. QED
    BY <2>1, <1>6, <1>7 DEF Joined
<1>9. PICK c2 \in [recv : Seq(Unit), messages : Seq(Message), send : Seq(FrameUnit), offset : Nat] :
         /\ c2 = AfterSend(c, n) /\ c2.recv = c.recv /\ c2.messages = c.messages
         /\ c2.offset <= Len(c2.send)
         /\ SubSeq(c2.send, c2.offset + 1, Len(c2.send)) = b
  <2>1. CASE o + n = l
    <3>1. AfterSend(c, n) = [c EXCEPT !.send = <<>>, !.offset = 0]
      BY <2>1, <1>2, <1>3 DEF AfterSend
    <3>2. PICK e \in Seq(FrameUnit) : e = <<>> /\ Len(e) = 0 /\ SubSeq(e, 0 + 1, 0) = <<>>
      <4>1. 0 + 1 \in Int /\ 0 \in Int /\ 0 < 0 + 1 /\ <<>> \in Seq(FrameUnit) /\ Len(<<>>) = 0
        OBVIOUS
      <4>2. SubSeq(<<>>, 0 + 1, 0) = <<>>
        BY <4>1, SubSeqEmpty
      <4>. QED
        BY <4>1, <4>2
    <3>3. b = <<>>
      BY <2>1, <1>6
    <3>4. PICK x : x = AfterSend(c, n)
      OBVIOUS
    <3>5. x = [recv |-> c.recv, messages |-> c.messages, send |-> e, offset |-> 0]
      BY <3>1, <3>2, <3>4
    <3>6. x \in [recv : Seq(Unit), messages : Seq(Message), send : Seq(FrameUnit), offset : Nat]
      BY <3>2, <3>5
    <3>7. /\ x.recv = c.recv /\ x.messages = c.messages /\ x.send = e /\ x.offset = 0
      BY <3>5
    <3>8. x.offset <= Len(x.send) /\ SubSeq(x.send, x.offset + 1, Len(x.send)) = b
      BY <3>2, <3>3, <3>7
    <3>. QED
      BY <3>4, <3>6, <3>7, <3>8
  <2>2. CASE o + n # l
    <3>1. AfterSend(c, n) = [c EXCEPT !.offset = o + n]
      BY <2>2, <1>2, <1>3 DEF AfterSend
    <3>2. PICK k \in Nat : k = o + n
      OBVIOUS
    <3>3. k <= l /\ b = SubSeq(s, k + 1, l)
      BY <3>2, <1>4, <1>6
    <3>4. PICK x : x = AfterSend(c, n)
      OBVIOUS
    <3>5. x = [recv |-> c.recv, messages |-> c.messages, send |-> s, offset |-> k]
      BY <3>1, <3>2, <1>2, <3>4
    <3>6. x \in [recv : Seq(Unit), messages : Seq(Message), send : Seq(FrameUnit), offset : Nat]
      BY <3>2, <3>5
    <3>7. /\ x.recv = c.recv /\ x.messages = c.messages /\ x.send = s /\ x.offset = k
      BY <3>5
    <3>8. x.offset <= Len(x.send) /\ SubSeq(x.send, x.offset + 1, Len(x.send)) = b
      BY <3>3, <1>3, <3>7
    <3>. QED
      BY <3>4, <3>6, <3>7, <3>8
  <2>. QED
    BY <2>1, <2>2
<1>10. /\ clients' = [clients EXCEPT ![p] = c2] /\ got' = [got EXCEPT ![p] = ga]
       /\ net' = [net EXCEPT !.flushed = @ \cup {p}]
       /\ UNCHANGED <<peers, outbound, published, sentLog, dispatched>>
  <2>1. /\ clients' = [clients EXCEPT ![p] = AfterSend(@, n)]
        /\ got' = [got EXCEPT ![p] = @ \o SubSeq(clients[p].send, clients[p].offset + 1,
                                                 clients[p].offset + n)]
        /\ net' = [net EXCEPT !.flushed = @ \cup {p}]
        /\ UNCHANGED <<peers, outbound, published, sentLog, dispatched>>
    BY DEF Flush
  <2>2. clients' = [clients EXCEPT ![p] = c2]
    BY <2>1, <1>1, <1>9 DEF NetInv, PeerShapes
  <2>3. got' = [got EXCEPT ![p] = ga]
    BY <2>1, <1>1, <1>2, <1>5, <1>6, <1>7, SMTT(30) DEF NetInv, PeerShapes
  <2>. QED
    BY <2>1, <2>2, <2>3
<1>11. /\ clients'[p] = c2 /\ got'[p] = ga /\ Pending(p)' = b /\ Pending(p) = w
       /\ \A q \in Peers : q # p => Untouched(q)
  <2>1. /\ clients'[p] = c2 /\ got'[p] = ga
        /\ \A q \in Peers : q # p => Untouched(q)
    BY <1>10 DEF NetInv, PeerShapes, Untouched
  <2>. QED
    BY <2>1, <1>1, <1>2, <1>3, <1>6, <1>9 DEF Pending
<1>12. PeerShapes' /\ PollShapes'
  <2>1. PeerShapes'
    BY <1>9, <1>10, <1>7 DEF NetInv, PeerShapes
  <2>2. net.flushed \cup {p} \in SUBSET Peers
    BY DEF NetInv, PollShapes
  <2>. QED
    BY <2>1, <2>2, <1>10 DEF NetInv, PollShapes
<1>13. Telemetry(p)'
  <2>1. PICK x : x = ga \o b
    OBVIOUS
  <2>2. /\ Whole(x) /\ EndsWhole(x) /\ Before(x, published + 1)
        /\ outbound # 0 => Before(x, outbound)
    <3>1. x = got[p] \o Pending(p)
      BY <2>1, <1>5, <1>8, <1>11
    <3>. QED
      BY <3>1, <1>4 DEF NetInv, PeerInv, Telemetry, Live
  <2>3. Whole(ga)
    BY <2>1, <2>2, <1>6, <1>7, WholePrefix, ZenonT(60)
  <2>. QED
    BY <2>1, <2>2, <2>3, <1>9, <1>10, <1>11 DEF Telemetry
<1>14. PeerInv(p)'
  BY <1>1, <1>4, <1>9, <1>10, <1>11, <1>13, SendOnly
<1>. QED
  BY <1>10, <1>11, <1>12, <1>14, OnlyAt

LEMMA FlushErrorInv == ASSUME NetInv, NEW p \in Peers, FlushError(p) PROVE NetInv'
<1>1. /\ clients' = [clients EXCEPT ![p] = [@ EXCEPT !.send = <<>>, !.offset = 0]]
      /\ net' = [net EXCEPT !.flushed = @ \cup {p}]
      /\ UNCHANGED <<peers, outbound, published, sentLog, dispatched, got>>
      /\ peers[p].state = "reset"
  BY DEF FlushError, NetInv, PeerShapes
<1>2. /\ clients'[p].recv = clients[p].recv /\ clients'[p].messages = clients[p].messages
      /\ clients'[p].send = <<>> /\ clients'[p].offset = 0
      /\ \A q \in Peers : q # p => Untouched(q)
  BY <1>1 DEF NetInv, PeerShapes, Untouched
<1>3. PeerShapes' /\ PollShapes'
  <2>1. <<>> \in Seq(FrameUnit) /\ net.flushed \cup {p} \in SUBSET Peers
    BY DEF NetInv, PollShapes
  <2>. QED
    BY <1>1, <2>1, ZenonT(60) DEF NetInv, PeerShapes, PollShapes
<1>4. Telemetry(p)'
  <2>1. Len(<<>>) = 0 /\ Whole(got[p])
    BY DEF NetInv, PeerInv, Telemetry
  <2>. QED
    BY <2>1, <1>1, <1>2 DEF Telemetry
<1>5. PeerInv(p)'
  BY <1>1, <1>2, <1>4, SendOnly DEF Live
<1>. QED
  BY <1>1, <1>2, <1>3, <1>5, OnlyAt

-----------------------------------------------------------------------------
(* The invariant, and what follows.                                        *)

LEMMA PollStep == ASSUME NetInv, Poll PROVE NetInv'
<1>1. CASE Drain
  BY <1>1, DrainInv
<1>2. CASE \E p \in Peers : FlushError(p) \/ \E n \in 0..(MaxPublished * FrameLength) : Flush(p, n)
  <2>1. PICK p \in Peers : FlushError(p) \/ \E n \in 0..(MaxPublished * FrameLength) : Flush(p, n)
    BY <1>2
  <2>2. CASE FlushError(p)
    BY <2>2, FlushErrorInv
  <2>3. CASE \E n \in 0..(MaxPublished * FrameLength) : Flush(p, n)
    <3>1. PICK n \in Nat : Flush(p, n)
      BY <2>3
    <3>. QED
      BY <3>1, FlushInv
  <2>. QED
    BY <2>1, <2>2, <2>3
<1>3. CASE Flushed \/ EpollWait \/ EventsDone
  BY <1>3, NetOnlyInv
<1>4. CASE \E p \in Peers : Accept(p) \/ HangUp(p) \/ Readable(p)
  <2>1. PICK p \in Peers : Accept(p) \/ HangUp(p) \/ Readable(p)
    BY <1>4
  <2>2. HangUp(p) => RemoveClient(p)
    BY DEF HangUp
  <2>. QED
    BY <2>1, <2>2, AcceptInv, ReadableInv, RemoveClientInv
<1>5. CASE \E p \in Peers : Receive(p) \/ ReadEnd(p) \/ ReadAgain(p) \/ DispatchMessage(p)
  <2>1. PICK p \in Peers : Receive(p) \/ ReadEnd(p) \/ ReadAgain(p) \/ DispatchMessage(p)
    BY <1>5
  <2>2. ReadEnd(p) => RemoveClient(p)
    BY DEF ReadEnd
  <2>. QED
    BY <2>1, <2>2, ReceiveInv, RemoveClientInv, NetOnlyInv, DispatchMessageInv
<1>6. CASE \E p \in Peers : ParseMessage(p) \/ ParseDiscard(p) \/ ParseEnd(p)
  BY <1>6, ParseMessageInv, ParseDiscardInv, NetOnlyInv
<1>. QED
  BY <1>1, <1>2, <1>3, <1>4, <1>5, <1>6 DEF Poll

LEMMA PeerStep == ASSUME NetInv, NEW p \in Peers, Peer(p) PROVE NetInv'
<1>1. CASE PeerConnect(p)
  BY <1>1, PeerConnectInv
<1>2. CASE \E m \in Messages : PeerSend(p, m)
  BY <1>2, PeerSendInv
<1>3. CASE \E n \in 1..Len(peers[p].stream) : Arrive(p, n)
  BY <1>3, ArriveInv
<1>4. CASE \E how \in {"closed", "reset"} : PeerEnd(p, how)
  BY <1>4, PeerEndInv
<1>. QED
  BY <1>1, <1>2, <1>3, <1>4 DEF Peer

LEMMA UnchangedInv == ASSUME NetInv, UNCHANGED netVars PROVE NetInv'
<1>1. UNCHANGED <<peers, clients, outbound, published, net, sentLog, dispatched, got>>
  BY DEF netVars
<1>2. PollShapes'
  BY <1>1 DEF NetInv, PollShapes
<1>. QED
  BY <1>1, <1>2, NetOnly

LEMMA NetInvariance == NetSpec => []NetInv
<1>1. NetInv /\ [NetNext]_netVars => NetInv'
  BY PublishTelemetryInv, PollStep, PeerStep, UnchangedInv DEF NetNext
<1>. QED
  BY <1>1, NetInitInv, PTL DEF NetSpec

(* However little a socket takes at a time, whichever frames the single    *)
(* slot skips and whoever leaves, what a telemetry client has received is  *)
(* whole frames in the order of publication, the last one perhaps          *)
(* unfinished: drain_outbound, flush_send_queue, network_service.cpp.      *)
THEOREM TelemetryIsWhole == NetSpec => []TelemetryWhole
<1>1. NetInv => TelemetryWhole
  BY WholeMeansWhole DEF NetInv, PeerInv, Telemetry
<1>. QED
  BY <1>1, NetInvariance, PTL

(* However the network cuts the stream, the commands of a client that      *)
(* frames its messages as the protocol says are dispatched in the order    *)
(* sent, none twice and none left out before another: MessageCodec::feed,  *)
(* dispatch_messages.                                                      *)
THEOREM CommandsStayInOrder == NetSpec => []CommandsInOrder
<1>1. ASSUME NetInv PROVE CommandsInOrder
  <2> SUFFICES ASSUME NEW p \in Peers, Conforming(p)
               PROVE  /\ \A i, j \in DOMAIN dispatched[p] :
                            i < j => dispatched[p][i] < dispatched[p][j]
                      /\ Range(dispatched[p]) \subseteq Sensible(p)
                      /\ \A k \in Sensible(p), n \in Range(dispatched[p]) :
                            k < n => k \in Range(dispatched[p])
    BY DEF CommandsInOrder
  <2>1. PICK ds \in Seq(Nat), log \in Seq(Messages) : ds = dispatched[p] /\ log = sentLog[p]
    BY <1>1 DEF NetInv, PeerShapes
  <2>2. /\ DOMAIN ds = 1 .. Len(ds) /\ Len(ds) \in Nat
        /\ DOMAIN log = 1 .. Len(log) /\ Len(log) \in Nat
    BY LenProperties
  <2>3. PICK d \in Nat : Given(p, d)
    BY <1>1 DEF NetInv, PeerInv, Commands
  <2>4. /\ d <= Len(log)
        /\ \A i, j \in 1 .. Len(ds) : i < j => ds[i] < ds[j]
        /\ \A i \in 1 .. Len(ds) : ds[i] \in 1 .. d /\ log[ds[i]].valid
        /\ \A k \in 1 .. d : log[k].valid => \E i \in 1 .. Len(ds) : ds[i] = k
    BY <2>1, <2>3 DEF Given
  <2>5. Sensible(p) = {i \in 1 .. Len(log) : log[i].valid} /\ Range(ds) = {ds[i] : i \in 1 .. Len(ds)}
    BY <2>1, <2>2 DEF Sensible, Range
  <2>6. \A i \in 1 .. d : i \in 1 .. Len(log)
    BY <2>2, <2>4
  <2>7. Range(ds) \subseteq Sensible(p)
    BY <2>4, <2>5, <2>6
  <2>8. ASSUME NEW k \in Sensible(p), NEW n \in Range(ds), k < n PROVE k \in Range(ds)
    <3>1. n \in 1 .. d /\ k \in 1 .. Len(log) /\ log[k].valid
      BY <2>4, <2>5
    <3>2. k \in 1 .. d
      BY <2>8, <3>1
    <3>. QED
      BY <3>1, <3>2, <2>4, <2>5
  <2>. QED
    BY <2>1, <2>2, <2>4, <2>7, <2>8
<1>. QED
  BY <1>1, NetInvariance, PTL

=============================================================================
