------------------------------- MODULE Control -------------------------------
(***************************************************************************)
(* Studio's control of the Edge: EdgeClient, which has one request at a    *)
(* time and gives it up after a while, MainWindow, which polls the status  *)
(* and offers the commands that fit the state it shows, and the thread of  *)
(* TcpControlServer, which serves one connection after the other.          *)
(*                                                                         *)
(* Every request has a connection of its own, named by a token.  Commands  *)
(* that were sent are executed even if Studio gave them up, and as slowly  *)
(* as the hardware likes.  Studio is one event loop: a slot is one step.   *)
(* What a command does to the Edge is modelled in detail in Edge; here it  *)
(* is a change of the state that STATUS reports.                           *)
(***************************************************************************)
EXTENDS Integers, Sequences

CONSTANTS
    Backlog,        \* connections listen queues: eight in the code
    NetworkMayFail  \* may connections be refused or lost?

ASSUME ControlAssumption ==
    /\ Backlog \in Nat \ {0}
    /\ NetworkMayFail \in BOOLEAN

VARIABLES
    connected,  \* connected_ of MainWindow
    label,      \* connection_state_, what it says of the connection
    streams,    \* were the result and preview clients told to start?
    shown,      \* the state STATUS last reported
    asking,     \* is the dialog open that confirms RESUME?
    busy,       \* busy_ of EdgeClient
    timer,      \* is request_timer_ active?
    command,    \* pending_command_
    socket,     \* state of the socket
    request,    \* the connection the socket has or had
    answer,     \* a response Studio can read
    backlog,    \* connections the server has not accepted, with their line
    serving,    \* the connection it serves
    reply,      \* the response of the handler, before it is sent
    edge        \* state of the Edge

window == <<connected, label, streams, shown, asking>>
client == <<busy, timer, command, socket, request, answer>>
server == <<backlog, serving, reply>>
vars == <<window, client, server, edge>>

EdgeState == {"idle", "measuring", "paused", "faulted"}
Command == {"PING", "STATUS", "CONFIG", "START", "STOP", "PAUSE", "RESUME", "RESET"}
Token == 0 .. (Backlog + 3)
Line == [id : Token, command : Command]
Reply == [id : Token, command : Command, ok : BOOLEAN, state : EdgeState]
NoLine == [id |-> -1, command |-> "none"]
NoReply == [id |-> -1, command |-> "none", ok |-> FALSE, state |-> "none"]

Init ==
    /\ connected = FALSE /\ label = "offline" /\ streams = FALSE
    /\ shown = "none" /\ asking = FALSE
    /\ busy = FALSE /\ timer = FALSE /\ command = "none"
    /\ socket = "closed" /\ request = 0 /\ answer = NoReply
    /\ backlog = <<>> /\ serving = NoLine /\ reply = NoReply
    /\ edge = "idle"

-----------------------------------------------------------------------------
(* EdgeClient and what MainWindow does with its signals.                   *)
Taken == {request, answer.id, serving.id, reply.id} \cup
         {backlog[i].id : i \in 1 .. Len(backlog)}
FreshToken == CHOOSE t \in Token : t \notin Taken

(* The stream clients are stopped, too.                                    *)
HandleFailure == connected' = FALSE /\ label' = "error" /\ streams' = FALSE

(* Bug for a mutant: the timer is not started.                            *)
IssueUntimed(c) ==
    /\ ~busy
    /\ busy' = TRUE /\ timer' = FALSE
    /\ command' = c
    /\ socket' = "connecting" /\ request' = FreshToken
    /\ answer' = NoReply

(* sendCommand, when no request is active: what the socket still had is    *)
(* aborted.                                                                *)
Issue(c) ==
    /\ ~busy
    /\ busy' = TRUE /\ timer' = TRUE
    /\ command' = c
    /\ socket' = "connecting" /\ request' = FreshToken
    /\ answer' = NoReply

(* send of MainWindow: while a request is active the command is refused,   *)
(* and MainWindow takes that for a failure of the connection.              *)
Send(c) ==
    \/ Issue(c) /\ UNCHANGED <<connected, label, streams>>
    \/ busy /\ HandleFailure /\ UNCHANGED client

Ping ==
    /\ ~asking
    /\ \/ Issue("PING") /\ connected' = FALSE /\ UNCHANGED <<label, streams>>
       \/ busy /\ HandleFailure /\ UNCHANGED client
    /\ UNCHANGED <<shown, asking, server, edge>>

(* Bug for a mutant: an idle Edge is not polled.                           *)
RefreshStatusOfActive ==
    /\ connected /\ shown # "idle"
    /\ Issue("STATUS")
    /\ UNCHANGED <<window, server, edge>>

(* The status timer ticks, in a dialog as well.                            *)
RefreshStatus ==
    /\ connected
    /\ Issue("STATUS")
    /\ UNCHANGED <<window, server, edge>>

(* The buttons that are enabled, but for the one that resumes.  CONFIG     *)
(* reads, applies or saves.                                                *)
Offered ==
    {"CONFIG"} \cup
    CASE shown \in {"none", "idle"} -> {"START"}
      [] shown = "measuring" -> {"STOP", "PAUSE"}
      [] shown = "paused" -> {"STOP"}
      [] shown = "faulted" -> {"RESET"}

Press ==
    /\ ~asking
    /\ \E c \in Offered : Send(c)
    /\ UNCHANGED <<shown, asking, server, edge>>

(* START with a session name that is not allowed is not sent.              *)
RejectSession ==
    /\ ~asking /\ "START" \in Offered
    /\ HandleFailure
    /\ UNCHANGED <<shown, asking, client, server, edge>>

(* The pause button of a paused measurement asks before it resumes.  The   *)
(* dialog runs the event loop: what is shown may change while it asks.     *)
AskToResume ==
    /\ ~asking /\ shown = "paused"
    /\ asking' = TRUE
    /\ UNCHANGED <<connected, label, streams, shown, client, server, edge>>

CloseDialog ==
    /\ asking
    /\ asking' = FALSE
    /\ \/ Send("RESUME")
       \/ UNCHANGED <<connected, label, streams, client>>
    /\ UNCHANGED <<shown, server, edge>>

(* The host field is edited, and edited back.                              *)
InvalidateConnection ==
    /\ ~asking
    /\ connected' = FALSE /\ label' = "offline" /\ streams' = FALSE
    /\ UNCHANGED <<shown, asking, client, server, edge>>

(* The connection waits in the backlog with its line, which Studio sends   *)
(* as soon as it is connected.                                             *)
Connected ==
    /\ socket = "connecting" /\ Len(backlog) < Backlog
    /\ socket' = "open"
    /\ backlog' = Append(backlog, [id |-> request, command |-> command])
    /\ UNCHANGED <<window, busy, timer, command, request, answer, serving,
                   reply, edge>>

(* The end of a request.                                                   *)
Finish ==
    /\ busy' = FALSE /\ timer' = FALSE
    /\ command' = "none"
    /\ socket' = "closed" /\ answer' = NoReply
    /\ UNCHANGED request

(* onReadyRead: the response goes to MainWindow before the request ends.   *)
ReadResponse ==
    /\ answer # NoReply
    /\ connected' = answer.ok /\ streams' = TRUE
    /\ label' = IF answer.ok THEN "online" ELSE "error"
    /\ shown' = IF answer.command = "STATUS" THEN answer.state ELSE shown
    /\ Finish
    /\ UNCHANGED <<asking, server, edge>>

(* Refused, reset, or closed by the Edge without a response.               *)
Error ==
    /\ NetworkMayFail
    /\ busy /\ socket # "closed"
    /\ HandleFailure
    /\ Finish
    /\ UNCHANGED <<shown, asking, server, edge>>

(* Bug for a mutant: the socket is left as it is.                          *)
TimeoutKeepsSocket ==
    /\ busy /\ timer
    /\ HandleFailure
    /\ busy' = FALSE /\ timer' = FALSE
    /\ command' = "none"
    /\ UNCHANGED <<shown, asking, socket, request, answer, server, edge>>

(* onTimeout: the socket is aborted, so that no late answer is read.       *)
Timeout ==
    /\ busy /\ timer
    /\ HandleFailure
    /\ Finish
    /\ UNCHANGED <<shown, asking, server, edge>>

-----------------------------------------------------------------------------
(* The Edge: one connection at a time, and the state its commands change.  *)
Accept ==
    /\ serving = NoLine /\ backlog # <<>>
    /\ serving' = Head(backlog) /\ backlog' = Tail(backlog)
    /\ UNCHANGED <<window, client, reply, edge>>

(* The connection was lost before its line arrived.                        *)
AcceptLost ==
    /\ NetworkMayFail
    /\ serving # NoLine /\ reply = NoReply
    /\ ~(socket = "open" /\ request = serving.id)
    /\ serving' = NoLine
    /\ UNCHANGED <<window, client, backlog, reply, edge>>

(* The states a command may lead to, and whether it is answered OK.        *)
Outcomes(c) ==
    CASE c \in {"PING", "STATUS"} -> {<<edge, TRUE>>}
      [] c = "CONFIG" -> {<<edge, TRUE>>, <<edge, FALSE>>}
      [] c = "START" /\ edge = "idle" -> {<<"measuring", TRUE>>, <<"faulted", FALSE>>}
      [] c = "STOP" /\ edge \in {"measuring", "paused"} ->
            {<<"idle", TRUE>>, <<"faulted", FALSE>>}
      [] c = "PAUSE" /\ edge = "measuring" ->
            {<<"paused", TRUE>>, <<"faulted", FALSE>>}
      [] c = "RESUME" /\ edge = "paused" ->
            {<<"measuring", TRUE>>, <<"faulted", FALSE>>}
      [] c = "RESET" /\ edge = "faulted" -> {<<"idle", TRUE>>, <<"faulted", FALSE>>}
      [] OTHER -> {<<edge, FALSE>>}

Execute ==
    /\ serving # NoLine /\ reply = NoReply
    /\ \E outcome \in Outcomes(serving.command) :
        /\ edge' = outcome[1]
        /\ reply' = [id |-> serving.id, command |-> serving.command,
                     ok |-> outcome[2], state |-> outcome[1]]
    /\ UNCHANGED <<window, client, backlog, serving>>

(* The response reaches Studio if the socket is still that connection's.   *)
Respond ==
    /\ reply # NoReply
    /\ answer' = IF socket = "open" /\ request = reply.id THEN reply ELSE answer
    /\ serving' = NoLine /\ reply' = NoReply
    /\ UNCHANGED <<window, busy, timer, command, socket, request, backlog, edge>>

(* A fault of the pipeline or the storage.                                 *)
Fault ==
    /\ edge \in {"measuring", "paused"}
    /\ edge' = "faulted"
    /\ UNCHANGED <<window, client, server>>

ServerStep == Accept \/ Execute \/ Respond
OperatorStep ==
    \/ Ping \/ Press \/ RejectSession \/ AskToResume \/ CloseDialog
    \/ InvalidateConnection

Next ==
    \/ OperatorStep \/ RefreshStatus
    \/ Connected \/ ReadResponse \/ Error \/ Timeout
    \/ ServerStep \/ AcceptLost \/ Fault

Spec == Init /\ [][Next]_vars

(* Studio handles its events, and the operator does not use every second   *)
(* in which the status timer ticks for a command of his own.  Nothing is   *)
(* assumed of the Edge and of the network.                                 *)
FairSpec ==
    /\ Spec
    /\ WF_vars(ReadResponse) /\ WF_vars(Timeout) /\ SF_vars(RefreshStatus)

(* The same with a network that connects, and an Edge that serves.         *)
ServedSpec == FairSpec /\ WF_vars(Connected) /\ WF_vars(ServerStep)

-----------------------------------------------------------------------------
(* Properties.                                                             *)
TypeOK ==
    /\ connected \in BOOLEAN /\ streams \in BOOLEAN /\ asking \in BOOLEAN
    /\ label \in {"offline", "online", "error"}
    /\ shown \in EdgeState \cup {"none"}
    /\ busy \in BOOLEAN /\ timer \in BOOLEAN
    /\ command \in Command \cup {"none"}
    /\ socket \in {"closed", "connecting", "open"} /\ request \in Token
    /\ answer \in Reply \cup {NoReply}
    /\ backlog \in Seq(Line) /\ Len(backlog) <= Backlog
    /\ serving \in Line \cup {NoLine} /\ reply \in Reply \cup {NoReply}
    /\ edge \in EdgeState

(* What Studio reads is the answer to the command it waits for, though the *)
(* Edge goes on to answer commands that were given up, and Studio does not *)
(* look at what a response is about.                                       *)
AnswerOfThisRequest ==
    answer # NoReply =>
        busy /\ answer.id = request /\ answer.command = command

(* Said by docs/architecture.md: a request times out, and never leaves the *)
(* client busy for ever, whatever becomes of the network and the Edge.     *)
RequestsEnd == busy ~> ~busy

(* If Studio stays connected to an Edge that stays in a state, it comes to *)
(* show that state, and to offer the commands that fit.                    *)
ShownCatchesUp ==
    WF_vars(Connected) /\ WF_vars(ServerStep) =>
        \A s \in EdgeState :
            <>[](connected /\ edge = s) => <>[](shown = s)

(* Said by EdgeClient ("request timed out; retrying automatically") and by *)
(* docs/architecture.md (status, results and preview reconnect each for    *)
(* itself): a failure that took Studio offline is followed by another      *)
(* request, unless the operator turns to another host.                     *)
FailureIsRetried ==
    (label = "error" /\ ~streams /\ ~busy) ~> (busy \/ label = "offline")
=============================================================================
