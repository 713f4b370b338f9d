----------------------------- MODULE LuftNetwork -----------------------------
(***************************************************************************)
(* luft::NetworkService and MessageCodec (luft/src/core/net): telemetry    *)
(* frames published by the simulation's thread go out to every telemetry   *)
(* client; frames that command clients send come in, in pieces, and are    *)
(* dispatched.  One thread polls; peers connect, send, close and reset as  *)
(* they like.                                                              *)
(*                                                                         *)
(* A frame is a sequence of units on the wire: HeaderUnits for its header, *)
(* then its payload.  TCP delivers a prefix of what was sent; send accepts *)
(* a prefix of what it is given.                                           *)
(***************************************************************************)
EXTENDS Integers, Sequences, FiniteSets, SequencesExt, FiniteSetsExt

CONSTANTS Peers,        \* the processes that connect
          MaxClients,   \* kMaxClients, for each of the two ports
          HeaderUnits,  \* kHeaderSize
          MaxMessage,   \* kMaxMessageSize
          FrameLength,  \* length of a telemetry frame
          Messages,     \* what command clients may send, see below
          MaxSent,      \* bound on the messages of all peers
          MaxPublished  \* bound on the telemetry frames

ASSUME NetAssumption ==
    /\ HeaderUnits \in Nat \ {0} /\ FrameLength >= HeaderUnits
    /\ {MaxClients, MaxMessage, FrameLength, MaxSent, MaxPublished} \subseteq Nat

(***************************************************************************)
(* A message is [length, declared, junk, valid]: its units, the length its *)
(* header declares, the length one would read in its payload if it were    *)
(* taken for a header, and whether it deserializes to a command or control.*)
(***************************************************************************)
ASSUME MessagesAssumption ==
    \A m \in Messages : m \in [length : Nat, declared : Int, junk : Int, valid : BOOLEAN]

WellFormed(m) == m.declared = m.length /\ m.length \in HeaderUnits..MaxMessage

VARIABLES peers,      \* each peer's connection, as it and the kernel see it
          clients,    \* ClientInfo of each connected peer
          outbound,   \* outbound_frame_: sequence number of the frame, 0 if none is pending
          published,  \* telemetry_seq_
          net,        \* the polling thread: its place and the client it is at
          sentLog,    \* history: the messages each peer has sent
          dispatched, \* history: the numbers of the messages given to the callbacks
          got         \* history: the units each peer has received

netVars == <<peers, clients, outbound, published, net, sentLog, dispatched, got>>

NoPeer   == [port |-> "none", state |-> "out", stream |-> <<>>, wire |-> <<>>, edge |-> FALSE]
NoClient == [recv |-> <<>>, messages |-> <<>>, send |-> <<>>, offset |-> 0]
Nobody   == "nobody"

NetInit ==
    /\ \E port \in [Peers -> {"telemetry", "command"}] :
           peers = [p \in Peers |-> [NoPeer EXCEPT !.port = port[p]]]
    /\ clients = [p \in Peers |-> NoClient]
    /\ outbound = 0
    /\ published = 0
    /\ net = [pc |-> "drain", at |-> Nobody, flushed |-> {}, batch |-> {}]
    /\ sentLog = [p \in Peers |-> <<>>]
    /\ dispatched = [p \in Peers |-> <<>>]
    /\ got = [p \in Peers |-> <<>>]

\* The entries of telemetry_clients_ and of command_clients_.
Clients(port) == {p \in Peers : peers[p].port = port /\ peers[p].state \in {"open", "closed", "reset"}}

-----------------------------------------------------------------------------
(* The peers and the kernel                                                *)

PeerConnect(p) ==
    /\ peers[p].state = "out"
    /\ peers' = [peers EXCEPT ![p].state = "backlog"]
    /\ UNCHANGED <<clients, outbound, published, net, sentLog, dispatched, got>>

\* The units of a peer's message number i.
Units(m, i) ==
    [k \in 1..m.length |->
        [declared |-> IF k = 1 THEN m.declared ELSE m.junk, number |-> i, valid |-> m.valid]]

PeerSend(p, m) ==
    /\ peers[p].port = "command" /\ peers[p].state = "open"
    /\ FoldSet(LAMBDA q, n : n + Len(sentLog[q]), 0, Peers) < MaxSent
    /\ sentLog' = [sentLog EXCEPT ![p] = Append(@, m)]
    /\ peers' = [peers EXCEPT ![p].stream = @ \o Units(m, Len(sentLog[p]) + 1)]
    /\ UNCHANGED <<clients, outbound, published, net, dispatched, got>>

\* A segment arrives: an edge for epoll.
Arrive(p, n) ==
    /\ peers[p].state = "open" /\ n \in 1..Len(peers[p].stream)
    /\ peers' = [peers EXCEPT ![p].wire = @ \o SubSeq(peers[p].stream, 1, n),
                              ![p].stream = SubSeq(@, n + 1, Len(@)),
                              ![p].edge = TRUE]
    /\ UNCHANGED <<clients, outbound, published, net, sentLog, dispatched, got>>

\* The peer closes, after what it has sent, or resets.
PeerEnd(p, how) ==
    /\ peers[p].state = "open"
    /\ how = "closed" => peers[p].stream = <<>>
    /\ peers' = [peers EXCEPT ![p].state = how, ![p].edge = TRUE]
    /\ UNCHANGED <<clients, outbound, published, net, sentLog, dispatched, got>>

-----------------------------------------------------------------------------
(* publish_telemetry, called by the simulation's thread: the latest frame  *)
(* replaces one that the polling thread has not taken                      *)

PublishTelemetry ==
    /\ published < MaxPublished
    /\ published' = published + 1
    /\ outbound' = published + 1
    /\ UNCHANGED <<peers, clients, net, sentLog, dispatched, got>>

-----------------------------------------------------------------------------
(* poll: drain the outbound frame, flush every telemetry client, then      *)
(* serve what epoll reports                                                *)

Frame(seq) == [k \in 1..FrameLength |-> [seq |-> seq, part |-> k]]

Drain ==
    /\ net.pc = "drain"
    /\ outbound' = 0
    /\ clients' = [p \in Peers |->
                      IF outbound # 0 /\ p \in Clients("telemetry")
                      THEN [clients[p] EXCEPT !.send = @ \o Frame(outbound)] ELSE clients[p]]
    /\ net' = [net EXCEPT !.pc = "flush", !.flushed = {}]
    /\ UNCHANGED <<peers, published, sentLog, dispatched, got>>

\* Mutant: a full socket buffer makes the next flush start the buffer again.
AfterSendRestart(client, n) ==
    IF client.offset + n = Len(client.send) THEN [client EXCEPT !.send = <<>>, !.offset = 0]
    ELSE [client EXCEPT !.offset = 0]

\* The buffer after n more of its units have gone, reclaimed when it is empty.
AfterSend(client, n) ==
    IF client.offset + n = Len(client.send) THEN [client EXCEPT !.send = <<>>, !.offset = 0]
    ELSE [client EXCEPT !.offset = @ + n]

\* flush_send_queue: the socket takes n units, then it is full or all is sent.
Flush(p, n) ==
    /\ net.pc = "flush" /\ p \in Clients("telemetry") \ net.flushed
    /\ peers[p].state # "reset" /\ n \in 0..(Len(clients[p].send) - clients[p].offset)
    /\ got' = [got EXCEPT ![p] = @ \o SubSeq(clients[p].send, clients[p].offset + 1, clients[p].offset + n)]
    /\ clients' = [clients EXCEPT ![p] = AfterSend(@, n)]
    /\ net' = [net EXCEPT !.flushed = @ \cup {p}]
    /\ UNCHANGED <<peers, outbound, published, sentLog, dispatched>>

\* A hard error, which a reset connection gives: the buffer is thrown away.
FlushError(p) ==
    /\ net.pc = "flush" /\ p \in Clients("telemetry") \ net.flushed
    /\ peers[p].state = "reset"
    /\ clients' = [clients EXCEPT ![p].send = <<>>, ![p].offset = 0]
    /\ net' = [net EXCEPT !.flushed = @ \cup {p}]
    /\ UNCHANGED <<peers, outbound, published, sentLog, dispatched, got>>

Flushed ==
    /\ net.pc = "flush" /\ Clients("telemetry") \subseteq net.flushed
    /\ net' = [net EXCEPT !.pc = "wait", !.flushed = {}]
    /\ UNCHANGED <<peers, clients, outbound, published, sentLog, dispatched, got>>

\* epoll_wait: a connection in the backlog, something to read, or a hangup.
EpollWait ==
    /\ net.pc = "wait"
    /\ net' = [net EXCEPT !.pc = "events",
                          !.batch = {p \in Peers : peers[p].state = "backlog" \/ peers[p].edge}]
    /\ UNCHANGED <<peers, clients, outbound, published, sentLog, dispatched, got>>

\* accept_clients, for one connection of the backlog; with the list full it is
\* closed again and the rest of the port's backlog waits for the next poll.
Accept(p) ==
    LET port == peers[p].port
        full == Cardinality(Clients(port)) >= MaxClients
    IN  /\ net.pc = "events" /\ p \in net.batch /\ peers[p].state = "backlog"
        /\ peers' = [peers EXCEPT ![p].state = IF full THEN "gone" ELSE "open"]
        /\ net' = [net EXCEPT !.batch = {q \in @ \ {p} :
                       ~(full /\ peers[q].state = "backlog" /\ peers[q].port = port)}]
        /\ UNCHANGED <<clients, outbound, published, sentLog, dispatched, got>>

\* remove_client: unread units and undispatched messages go with it.
RemoveClient(p) ==
    /\ peers' = [peers EXCEPT ![p] = [NoPeer EXCEPT !.state = "gone", !.port = peers[p].port]]
    /\ clients' = [clients EXCEPT ![p] = NoClient]
    /\ net' = [net EXCEPT !.pc = "events", !.at = Nobody, !.batch = @ \ {p}]
    /\ UNCHANGED <<outbound, published, sentLog, dispatched, got>>

\* EPOLLERR or EPOLLHUP, seen before anything is read.
HangUp(p) ==
    /\ net.pc = "events" /\ p \in net.batch /\ peers[p].state = "reset"
    /\ RemoveClient(p)

\* handle_readable, on an edge: read until EAGAIN or the end.
Readable(p) ==
    /\ net.pc = "events" /\ p \in net.batch /\ peers[p].state \in {"open", "closed"}
    /\ peers' = [peers EXCEPT ![p].edge = FALSE]
    /\ net' = [net EXCEPT !.pc = "read", !.at = p, !.batch = @ \ {p}]
    /\ UNCHANGED <<clients, outbound, published, sentLog, dispatched, got>>

\* recv and MessageCodec::feed, whose loop try_parse is.
Receive(p) ==
    /\ net.pc = "read" /\ net.at = p
    /\ peers[p].wire # <<>> /\ peers[p].state # "reset"
    /\ clients' = [clients EXCEPT ![p].recv = @ \o peers[p].wire]
    /\ peers' = [peers EXCEPT ![p].wire = <<>>]
    /\ net' = [net EXCEPT !.pc = "parse"]
    /\ UNCHANGED <<outbound, published, sentLog, dispatched, got>>

\* Mutant: a message waits for one unit more than it has.
HasFrameOver(buf) == Len(buf) > buf[1].declared

\* The buffer holds all of its first message.
HasFrame(buf) == Len(buf) >= buf[1].declared

HasHeader(buf) == Len(buf) >= HeaderUnits
LengthOk(buf)  == buf[1].declared \in HeaderUnits..MaxMessage

\* The message at the front of the buffer is queued and erased.
ParseMessage(p) ==
    LET buf == clients[p].recv
    IN  /\ net.pc = "parse" /\ net.at = p
        /\ HasHeader(buf) /\ LengthOk(buf) /\ HasFrame(buf)
        /\ clients' = [clients EXCEPT
                          ![p].recv = SubSeq(buf, buf[1].declared + 1, Len(buf)),
                          ![p].messages = Append(@, [number |-> buf[1].number, valid |-> buf[1].valid])]
        /\ UNCHANGED <<peers, outbound, published, net, sentLog, dispatched, got>>

\* An impossible length empties the buffer.
ParseDiscard(p) ==
    LET buf == clients[p].recv
    IN  /\ net.pc = "parse" /\ net.at = p
        /\ HasHeader(buf) /\ ~LengthOk(buf)
        /\ clients' = [clients EXCEPT ![p].recv = <<>>]
        /\ net' = [net EXCEPT !.pc = "read"]
        /\ UNCHANGED <<peers, outbound, published, sentLog, dispatched, got>>

\* Mutant: what is left of the buffer is thrown away.
ParseEndClears(p) ==
    LET buf == clients[p].recv
    IN  /\ net.pc = "parse" /\ net.at = p
        /\ HasHeader(buf) => LengthOk(buf) /\ ~HasFrame(buf)
        /\ net' = [net EXCEPT !.pc = "read"]
        /\ clients' = [clients EXCEPT ![p].recv = <<>>]
        /\ UNCHANGED <<peers, outbound, published, sentLog, dispatched, got>>

\* The rest of the message at the front has not been read yet.
ParseEnd(p) ==
    LET buf == clients[p].recv
    IN  /\ net.pc = "parse" /\ net.at = p
        /\ HasHeader(buf) => LengthOk(buf) /\ ~HasFrame(buf)
        /\ net' = [net EXCEPT !.pc = "read"]
        /\ UNCHANGED <<peers, clients, outbound, published, sentLog, dispatched, got>>

\* The end of the stream or an error: nothing that was parsed is dispatched.
ReadEnd(p) ==
    /\ net.pc = "read" /\ net.at = p
    /\ peers[p].state = "reset" \/ (peers[p].wire = <<>> /\ peers[p].state = "closed")
    /\ RemoveClient(p)

ReadAgain(p) ==
    /\ net.pc = "read" /\ net.at = p
    /\ peers[p].wire = <<>> /\ peers[p].state = "open"
    /\ net' = [net EXCEPT !.pc = "dispatch"]
    /\ UNCHANGED <<peers, clients, outbound, published, sentLog, dispatched, got>>

\* dispatch_messages: a message that does not deserialize is skipped.
DispatchMessage(p) ==
    /\ net.pc = "dispatch" /\ net.at = p
    /\ IF clients[p].messages = <<>>
       THEN /\ net' = [net EXCEPT !.pc = "events", !.at = Nobody]
            /\ UNCHANGED <<clients, dispatched>>
       ELSE /\ clients' = [clients EXCEPT ![p].messages = Tail(@)]
            /\ dispatched' = IF Head(clients[p].messages).valid
                             THEN [dispatched EXCEPT ![p] = Append(@, Head(clients[p].messages).number)]
                             ELSE dispatched
            /\ UNCHANGED net
    /\ UNCHANGED <<peers, outbound, published, sentLog, got>>

EventsDone ==
    /\ net.pc = "events" /\ net.batch = {}
    /\ net' = [net EXCEPT !.pc = "drain"]
    /\ UNCHANGED <<peers, clients, outbound, published, sentLog, dispatched, got>>

Poll ==
    \/ Drain
    \/ \E p \in Peers : FlushError(p) \/ \E n \in 0..(MaxPublished * FrameLength) : Flush(p, n)
    \/ Flushed
    \/ EpollWait
    \/ \E p \in Peers : Accept(p) \/ HangUp(p) \/ Readable(p)
    \/ \E p \in Peers : Receive(p) \/ ReadEnd(p) \/ ReadAgain(p) \/ DispatchMessage(p)
    \/ \E p \in Peers : ParseMessage(p) \/ ParseDiscard(p) \/ ParseEnd(p)
    \/ EventsDone

Peer(p) ==
    \/ PeerConnect(p)
    \/ \E m \in Messages : PeerSend(p, m)
    \/ \E n \in 1..Len(peers[p].stream) : Arrive(p, n)
    \/ \E how \in {"closed", "reset"} : PeerEnd(p, how)

NetNext == PublishTelemetry \/ Poll \/ \E p \in Peers : Peer(p)

\* The network thread polls; no peer has to do anything.
NetFairness == WF_netVars(Poll)

NetSpec == NetInit /\ [][NetNext]_netVars /\ NetFairness

-----------------------------------------------------------------------------
(***************************************************************************)
(* Properties                                                              *)
(***************************************************************************)

\* The numbers of the messages a peer has sent that make sense.
Sensible(p) == {i \in DOMAIN sentLog[p] : sentLog[p][i].valid}

Conforming(p) == \A i \in DOMAIN sentLog[p] : WellFormed(sentLog[p][i])

\* Commands and controls reach the simulation in the order sent, each once and
\* none left out before another, however the network cuts the stream: the
\* parser finds the boundaries again after every read, message_codec.cpp:32.
\* (A client that declares an impossible length loses whatever is in the
\* buffer, message_codec.cpp:42.)
CommandsInOrder ==
    \A p \in Peers : Conforming(p) =>
        /\ \A i, j \in DOMAIN dispatched[p] : i < j => dispatched[p][i] < dispatched[p][j]
        /\ Range(dispatched[p]) \subseteq Sensible(p)
        /\ \A k \in Sensible(p), n \in Range(dispatched[p]) : k < n => k \in Range(dispatched[p])

\* Message i and those before it have arrived in full.
ArrivedUpTo(p, i) ==
    /\ i \in DOMAIN sentLog[p]
    /\ \A k \in DOMAIN peers[p].stream : peers[p].stream[k].number > i

\* Each command or control that has arrived is dispatched, while its client
\* stays connected.  (One that sends and closes may lose its last ones: the end
\* of the stream removes it before they are dispatched, network_service.cpp:292.)
CommandsArrive ==
    \A p \in Peers, i \in 1..MaxSent :
        (ArrivedUpTo(p, i) /\ Conforming(p) /\ sentLog[p][i].valid)
            ~> (i \in Range(dispatched[p]) \/ peers[p].state # "open" \/ ~Conforming(p))

\* A telemetry client receives whole frames, in the order of publication, with
\* no unit missing or repeated inside one, whatever the socket accepts at a
\* time, whatever frames the single slot has skipped and whoever leaves.
TelemetryWhole ==
    \A p \in Peers : \A i \in DOMAIN got[p] :
        IF i = 1 THEN got[p][1].part = 1
        ELSE LET a == got[p][i - 1]
                 b == got[p][i]
             IN  \/ b.seq = a.seq /\ b.part = a.part + 1
                 \/ b.seq > a.seq /\ b.part = 1 /\ a.part = FrameLength
=============================================================================
