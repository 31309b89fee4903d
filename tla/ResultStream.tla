---------------------------- MODULE ResultStream ----------------------------
(***************************************************************************)
(* The stream of results from the Edge to Studio: the thread of            *)
(* ResultStreamServer, which serves one client at a time with the newest   *)
(* publication, the TCP connection, and Studio's ResultClient, which       *)
(* reassembles packets and reconnects.  The preview stream is a second     *)
(* instance of the same server class with a client of the same shape.      *)
(*                                                                         *)
(* A publication is its generation.  A packet is sent in Chunks pieces;    *)
(* piece i of generation g is <<g, i>>.  Of the connections Studio has     *)
(* made only the newest can still carry data to it; of an older one the    *)
(* server can tell only how it ended.  Studio runs one event loop, so a    *)
(* handler of the client is one step.                                      *)
(***************************************************************************)
EXTENDS Integers, Sequences

CONSTANTS
    MaxPublications,    \* packets published (bound)
    Chunks,             \* calls of send that one packet takes
    WireCapacity,       \* chunks the buffers of a connection hold
    StreamBacklog,      \* connections listen queues
    MaxFaults,          \* lost connections and bad packets (bound)
    SignalsBrokenPipe   \* does send raise SIGPIPE, as on Linux?

ASSUME StreamAssumption ==
    /\ MaxPublications \in Nat /\ MaxFaults \in Nat
    /\ Chunks \in Nat \ {0} /\ WireCapacity \in Nat \ {0}
    /\ StreamBacklog \in Nat \ {0}
    /\ SignalsBrokenPipe \in BOOLEAN

VARIABLES
    generation,     \* generation_, and so latest_packet_
    serverOwner,    \* the owner: idle, startup, running, join, down
    serverStop,     \* stop_requested_
    startup,        \* startup_done_ and startup_succeeded_
    thread,         \* its thread: none, bind, accept, wait, send, done, killed
    delivered,      \* delivered_generation
    packet,         \* generation of the packet being sent
    sent,           \* chunks of it that were sent
    link,           \* the accepted connection, as the server's side sees it:
                    \* none, up, left by fin, reset or in silence, broken
    pending,        \* the connections that wait to be accepted
    wire,           \* chunks on the way to the client
    ending,         \* has the server's side closed the client's connection?
    desired,        \* desired_ of the client
    streamSocket,   \* state of its socket
    reconnectTimer, \* is reconnect_timer_ active?
    buffer,         \* buffer_
    received,       \* newest result that reached Studio
    faults          \* losses of the network and bad packets so far

ownerVars == <<serverOwner, serverStop, startup>>
sendVars == <<delivered, packet, sent>>
connection == <<link, pending, wire, ending>>
studio == <<desired, streamSocket, reconnectTimer, buffer, received>>
streamVars == <<generation, ownerVars, thread, sendVars, connection, studio,
                faults>>

StreamInit ==
    /\ generation = 0
    /\ serverOwner = "idle" /\ serverStop = FALSE /\ startup = "unknown"
    /\ thread = "none" /\ delivered = 0 /\ packet = 0 /\ sent = 0
    /\ link = "none" /\ pending = <<>> /\ wire = <<>> /\ ending = FALSE
    /\ desired = FALSE /\ streamSocket = "unconnected" /\ reconnectTimer = FALSE
    /\ buffer = <<>> /\ received = 0 /\ faults = 0

-----------------------------------------------------------------------------
(* The owner: publish_packet, start and stop.                              *)

Publish ==
    /\ thread # "killed" /\ generation < MaxPublications
    /\ generation' = generation + 1
    /\ UNCHANGED <<ownerVars, thread, sendVars, connection, studio, faults>>

Start ==
    /\ serverOwner = "idle"
    /\ serverStop' = FALSE /\ startup' = "unknown"
    /\ thread' = "bind"
    /\ serverOwner' = "startup"
    /\ UNCHANGED <<generation, sendVars, connection, studio, faults>>

StartReturns ==
    /\ serverOwner = "startup" /\ startup = "listening"
    /\ serverOwner' = "running"
    /\ UNCHANGED <<generation, serverStop, startup, thread, sendVars,
                   connection, studio, faults>>

(* start throws: the thread said why it ends, and is joined.               *)
StartThrows ==
    /\ serverOwner = "startup" /\ startup = "failed" /\ thread = "done"
    /\ thread' = "none"
    /\ serverOwner' = "down"
    /\ UNCHANGED <<generation, serverStop, startup, sendVars, connection,
                   studio, faults>>

(* The thread said nothing for two seconds: start calls stop, and throws.  *)
StartTimesOut ==
    /\ serverOwner = "startup" /\ startup = "unknown"
    /\ serverStop' = TRUE
    /\ serverOwner' = "join"
    /\ UNCHANGED <<generation, startup, thread, sendVars, connection, studio,
                   faults>>

(* Bug for a mutant: stop waits for the thread without telling it.         *)
StopUntold ==
    /\ serverOwner = "running"
    /\ serverOwner' = "join"
    /\ UNCHANGED <<generation, serverStop, startup, thread, sendVars,
                   connection, studio, faults>>

Stop ==
    /\ serverOwner = "running"
    /\ serverStop' = TRUE
    /\ serverOwner' = "join"
    /\ UNCHANGED <<generation, startup, thread, sendVars, connection, studio,
                   faults>>

StopReturns ==
    /\ serverOwner = "join" /\ thread = "done"
    /\ thread' = "none"
    /\ serverOwner' = "down"
    /\ UNCHANGED <<generation, serverStop, startup, sendVars, connection,
                   studio, faults>>

-----------------------------------------------------------------------------
(* The server's thread.                                                    *)

Listen ==
    /\ thread = "bind"
    /\ startup' = "listening"
    /\ thread' = "accept"
    /\ UNCHANGED <<generation, serverOwner, serverStop, sendVars, connection,
                   studio, faults>>

ListenFails ==
    /\ thread = "bind"
    /\ startup' = "failed"
    /\ thread' = "done"
    /\ UNCHANGED <<generation, serverOwner, serverStop, sendVars, connection,
                   studio, faults>>

(* Bug for a mutant: delivered_generation outlives the connection.         *)
AcceptKeepsPlace ==
    /\ thread = "accept" /\ ~serverStop /\ pending # <<>>
    /\ link' = Head(pending) /\ pending' = Tail(pending)
    /\ thread' = "wait"
    /\ UNCHANGED <<generation, ownerVars, sendVars, wire, ending, studio,
                   faults>>

AcceptStream ==
    /\ thread = "accept" /\ ~serverStop /\ pending # <<>>
    /\ link' = Head(pending) /\ pending' = Tail(pending)
    /\ delivered' = 0
    /\ thread' = "wait"
    /\ UNCHANGED <<generation, ownerVars, packet, sent, wire, ending, studio,
                   faults>>

(* The listener is closed, with the connections nobody accepted.           *)
StopListening ==
    /\ thread = "accept" /\ serverStop
    /\ ending' = (ending \/ \E i \in 1 .. Len(pending) : pending[i] = "up")
    /\ pending' = <<>>
    /\ thread' = "done"
    /\ UNCHANGED <<generation, ownerVars, sendVars, link, wire, studio, faults>>

(* Bug for a mutant: publications are queued, and sent one by one.         *)
TakeNext ==
    /\ thread = "wait" /\ ~serverStop
    /\ generation # delivered
    /\ delivered' = delivered + 1 /\ packet' = delivered + 1 /\ sent' = 0
    /\ thread' = "send"
    /\ UNCHANGED <<generation, ownerVars, connection, studio, faults>>

(* The wait ends with a publication the client has not got.                *)
TakeLatest ==
    /\ thread = "wait" /\ ~serverStop
    /\ generation # delivered
    /\ delivered' = generation /\ packet' = generation /\ sent' = 0
    /\ thread' = "send"
    /\ UNCHANGED <<generation, ownerVars, connection, studio, faults>>

(* close_socket(client), after a failed send or at the end.                *)
HangUp ==
    /\ link' = "none"
    /\ ending' = (ending \/ link = "up")
    /\ thread' = "accept"
    /\ UNCHANGED <<generation, ownerVars, sendVars, pending, wire, studio,
                   faults>>

WaitStops == thread = "wait" /\ serverStop /\ HangUp

(* One call of send that succeeds.  What a client that is gone with FIN    *)
(* does not take is answered with a reset, sooner or later: the pipe is    *)
(* broken for the next packet.                                             *)
SendChunk ==
    /\ thread = "send"
    /\ \/ /\ link = "up" /\ Len(wire) < WireCapacity
          /\ wire' = Append(wire, <<packet, sent + 1>>)
          /\ UNCHANGED link
       \/ /\ link = "fin" /\ link' \in {"fin", "broken"}
          /\ UNCHANGED wire
       \/ /\ link = "silent"
          /\ UNCHANGED <<link, wire>>
    /\ sent' = sent + 1
    /\ thread' = IF sent + 1 = Chunks THEN "wait" ELSE "send"
    /\ UNCHANGED <<generation, ownerVars, delivered, packet, pending, ending,
                   studio, faults>>

(* It fails, perhaps within a packet: the connection was reset, or nothing *)
(* could be sent for a second.                                             *)
CannotSend ==
    \/ link = "up" /\ Len(wire) >= WireCapacity
    \/ link \in {"reset", "silent"}
    \/ link = "broken" /\ ~SignalsBrokenPipe

(* Bug for a mutant: after a failed send the next packet is sent on the    *)
(* same connection.                                                        *)
SendFailsOnce ==
    /\ thread = "send" /\ CannotSend
    /\ thread' = "wait"
    /\ UNCHANGED <<generation, ownerVars, sendVars, connection, studio, faults>>

SendFails == thread = "send" /\ CannotSend /\ HangUp

(* SIGPIPE, which nothing in the Edge ignores or handles, ends the process *)
(* with all its connections.                                               *)
SendKills ==
    /\ thread = "send" /\ link = "broken" /\ SignalsBrokenPipe
    /\ thread' = "killed"
    /\ link' = "none"
    /\ ending' = (ending \/ \E i \in 1 .. Len(pending) : pending[i] = "up")
    /\ pending' = <<>>
    /\ UNCHANGED <<generation, ownerVars, sendVars, wire, studio, faults>>

-----------------------------------------------------------------------------
(* Studio's client.                                                        *)

(* The client has no connection any more; the server's side will see how   *)
(* it ended when it sends.                                                 *)
Abandon(how) ==
    /\ link' = IF link = "up" THEN how ELSE link
    /\ pending' = [i \in 1 .. Len(pending) |->
                      IF pending[i] = "up" THEN how ELSE pending[i]]
    /\ wire' = <<>> /\ ending' = FALSE

(* start: connects unless a connection is there or under way.              *)
Connect ==
    /\ ~desired \/ streamSocket = "unconnected"
    /\ desired' = TRUE /\ reconnectTimer' = FALSE /\ buffer' = <<>>
    /\ streamSocket' = "connecting"
    /\ UNCHANGED <<generation, ownerVars, thread, sendVars, connection,
                   received, faults>>

(* stop: abort closes with FIN, or resets when data was not read.          *)
Disconnect ==
    /\ desired
    /\ desired' = FALSE /\ reconnectTimer' = FALSE /\ buffer' = <<>>
    /\ streamSocket' = "unconnected"
    /\ \E how \in {"fin", "reset"} : Abandon(how)
    /\ UNCHANGED <<generation, ownerVars, thread, sendVars, received, faults>>

Listening == thread \in {"accept", "wait", "send"}

(* The kernel completes the handshake whether or not the server accepts.   *)
StreamConnected ==
    /\ streamSocket = "connecting" /\ Listening /\ Len(pending) < StreamBacklog
    /\ pending' = Append(pending, "up")
    /\ streamSocket' = "connected"
    /\ UNCHANGED <<generation, ownerVars, thread, sendVars, link, wire, ending,
                   desired, reconnectTimer, buffer, received, faults>>

(* onError, without a connection: refused, the backlog is full, or the     *)
(* network is gone.                                                        *)
ConnectFails ==
    /\ streamSocket = "connecting"
    /\ \/ (~Listening \/ Len(pending) >= StreamBacklog) /\ UNCHANGED faults
       \/ faults < MaxFaults /\ faults' = faults + 1
    /\ streamSocket' = "unconnected"
    /\ reconnectTimer' = TRUE
    /\ UNCHANGED <<generation, ownerVars, thread, sendVars, connection, desired,
                   buffer, received>>

(* The timer is single-shot; reconnect looks at the socket.                *)
Reconnect ==
    /\ reconnectTimer
    /\ reconnectTimer' = FALSE
    /\ streamSocket' = IF desired /\ streamSocket = "unconnected"
                       THEN "connecting" ELSE streamSocket
    /\ UNCHANGED <<generation, ownerVars, thread, sendVars, connection, desired,
                   buffer, received, faults>>

(* The chunks at the front of a sequence that make up whole packets.       *)
Whole(chunks) == (Len(chunks) \div Chunks) * Chunks
InPlace(chunks, i) ==
    /\ chunks[i][2] = ((i - 1) % Chunks) + 1
    /\ chunks[i][2] > 1 => chunks[i][1] = chunks[i - 1][1]

(* onReadyRead: every packet that is there as a whole is decoded.          *)
ReadPackets ==
    /\ streamSocket = "connected"
    /\ \E n \in 1 .. Len(wire) :
        LET arrived == buffer \o SubSeq(wire, 1, n)
            whole == Whole(arrived)
        IN  /\ \A i \in 1 .. whole : InPlace(arrived, i)
            /\ received' = IF whole > 0 THEN arrived[whole][1] ELSE received
            /\ buffer' = SubSeq(arrived, whole + 1, Len(arrived))
            /\ wire' = SubSeq(wire, n + 1, Len(wire))
    /\ UNCHANGED <<generation, ownerVars, thread, sendVars, link, pending,
                   ending, desired, streamSocket, reconnectTimer, faults>>

(* failProtocol: the length is out of range or a packet does not decode,   *)
(* because it was damaged or because what arrived is not a packet.         *)
FailProtocol ==
    /\ streamSocket = "connected"
    /\ \E n \in 1 .. Len(wire) :
        LET arrived == buffer \o SubSeq(wire, 1, n) IN
        /\ Whole(arrived) > 0
        /\ \/ faults < MaxFaults /\ faults' = faults + 1
           \/ /\ \E i \in 1 .. Whole(arrived) : ~InPlace(arrived, i)
              /\ UNCHANGED faults
    /\ buffer' = <<>>
    /\ streamSocket' = "unconnected"
    /\ \E how \in {"fin", "reset"} : Abandon(how)
    /\ reconnectTimer' = TRUE
    /\ UNCHANGED <<generation, ownerVars, thread, sendVars, desired, received>>

(* Bugs for mutants: the rest of a packet survives its connection; only a  *)
(* bad packet starts the timer.                                            *)
ConnectionLostKeepsRest ==
    /\ streamSocket = "connected"
    /\ \/ ending /\ wire = <<>> /\ UNCHANGED faults /\ Abandon("fin")
       \/ faults < MaxFaults /\ faults' = faults + 1 /\ Abandon("silent")
    /\ streamSocket' = "unconnected"
    /\ reconnectTimer' = TRUE
    /\ UNCHANGED <<generation, ownerVars, thread, sendVars, desired, buffer,
                   received>>

ConnectionLostForGood ==
    /\ streamSocket = "connected"
    /\ \/ ending /\ wire = <<>> /\ UNCHANGED faults /\ Abandon("fin")
       \/ faults < MaxFaults /\ faults' = faults + 1 /\ Abandon("silent")
    /\ buffer' = <<>>
    /\ streamSocket' = "unconnected"
    /\ UNCHANGED <<generation, ownerVars, thread, sendVars, desired,
                   reconnectTimer, received>>

(* onError and onDisconnected: the server closed, or the network is gone.  *)
ConnectionLost ==
    /\ streamSocket = "connected"
    /\ \/ ending /\ wire = <<>> /\ UNCHANGED faults /\ Abandon("fin")
       \/ faults < MaxFaults /\ faults' = faults + 1 /\ Abandon("silent")
    /\ buffer' = <<>>
    /\ streamSocket' = "unconnected"
    /\ reconnectTimer' = TRUE
    /\ UNCHANGED <<generation, ownerVars, thread, sendVars, desired, received>>

-----------------------------------------------------------------------------
OwnerAsks == Publish \/ Start \/ Stop
OwnerContinues == StartReturns \/ StartThrows \/ StartTimesOut \/ StopReturns

ThreadStep ==
    \/ Listen \/ ListenFails
    \/ AcceptStream \/ StopListening
    \/ TakeLatest \/ WaitStops
    \/ SendChunk \/ SendFails \/ SendKills

UserAsks == Connect \/ Disconnect

ClientStep ==
    \/ StreamConnected \/ ConnectFails \/ Reconnect
    \/ ReadPackets \/ FailProtocol \/ ConnectionLost

StreamNext ==
    OwnerAsks \/ OwnerContinues \/ ThreadStep \/ UserAsks \/ ClientStep

StreamSpec == StreamInit /\ [][StreamNext]_streamVars

(* The server's thread and a pending start or stop run.  Nobody has to     *)
(* publish, to stop or to connect, and Studio may stop reading.            *)
FairStreamSpec ==
    StreamSpec /\ WF_streamVars(ThreadStep) /\ WF_streamVars(OwnerContinues)

-----------------------------------------------------------------------------
(* Properties.                                                             *)

(* What the client of the accepted connection has not decoded: what it     *)
(* holds, what is on the way, and what is still to be sent of the packet.  *)
Unsent ==
    IF thread = "send" /\ link = "up"
    THEN [i \in 1 .. (Chunks - sent) |-> <<packet, sent + i>>] ELSE <<>>
Stream == buffer \o wire \o Unsent

(* Studio never reads one packet's bytes as another's: through failed      *)
(* sends, lost connections and reconnections the bytes it sees are whole   *)
(* packets, each newer than the one before and none older than the result  *)
(* on display; only the last packet of a closed connection may be cut off. *)
FramingHolds ==
    /\ \A i \in 1 .. Len(Stream) : InPlace(Stream, i)
    /\ \A i, j \in 1 .. Len(Stream) : i < j => Stream[i][1] <= Stream[j][1]
    /\ \A i \in 1 .. (Len(Stream) - Chunks) :
           Stream[i][1] < Stream[i + Chunks][1]
    /\ \A i \in 1 .. Len(Stream) : received <= Stream[i][1]
    /\ link = "up" => Len(Stream) % Chunks = 0

(* Results reach Studio in the order of publication, across reconnections: *)
(* it may see the newest one again, and never an older one.                *)
ResultsMoveOn == [][received' >= received]_received

(* Studio never gives up while it is meant to be online: without a         *)
(* connection, and without an attempt under way, the timer is running.     *)
ReconnectPending == desired /\ streamSocket = "unconnected" => reconnectTimer

(* stop returns, whatever Studio does with its connection; and start       *)
(* returns or throws.                                                      *)
OwnerReturns ==
    serverOwner \in {"startup", "join"}
        ~> serverOwner \in {"running", "down"} \/ thread = "killed"

(* The server waits for something to send to a client that has left.       *)
ServesNobody == thread = "wait" /\ link # "up" /\ generation = delivered

(* The server is started and was not asked to stop.                        *)
Serving == serverOwner \in {"startup", "running"}

(* Whatever Studio leaves, loses and makes again, as long as its event     *)
(* loop runs and it wants to be online, the newest publication reaches it, *)
(* unless for ever the Edge is dead of SIGPIPE or, with nothing new to     *)
(* publish, the server waits on a connection that Studio has left, which   *)
(* it would notice only by sending.                                        *)
OnlyStaleLinkHoldsBack ==
    WF_streamVars(ClientStep) =>
        \A g \in 1 .. MaxPublications :
            generation >= g /\ desired ~>
                \/ received >= g \/ ~desired \/ ~Serving
                \/ [](thread = "killed")
                \/ []ServesNobody

(* Studio that connects again gets what was published, with nothing new to *)
(* publish too.                                                            *)
NewestArrives ==
    WF_streamVars(ClientStep) =>
        \A g \in 1 .. MaxPublications :
            generation >= g /\ desired ~> received >= g \/ ~desired \/ ~Serving

(* Studio that leaves or loses its connection does not end the Edge.       *)
EdgeSurvives == thread # "killed"
=============================================================================
