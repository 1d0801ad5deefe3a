---------------------------- MODULE ChunkSender ----------------------------
(***************************************************************************)
(* How action chunks leave the phone app (CoalescingSender and             *)
(* GrpcEdgeClient in app/inference/lib/src/grpc/edge_action_client.dart,   *)
(* _connectPi and _disconnectPi in ui/home_page.dart) and the web app      *)
(* (web/src/lib/edgeSender.ts, wsEdgeClient.ts, components/VlaApp.tsx).    *)
(* Both run on one event loop: an action is the code between two awaits.   *)
(* Of the gRPC library and the browser it is assumed that a link comes up  *)
(* or fails, keeps the order, buffers what it cannot send yet, and that    *)
(* nothing of a link is read any more once the app knows that it failed.   *)
(***************************************************************************)
EXTENDS Naturals, Sequences, FiniteSets

CONSTANTS
    Apps,        \* the apps considered, of "phone" and "web"
    MaxChunks,   \* bound: chunks submitted
    MaxSenders,  \* bound: senders, one per connect or disconnect
    MaxLinks     \* bound: gRPC streams or WebSockets

ASSUME SenderAssumption ==
    /\ Apps \subseteq {"phone", "web"}
    /\ {MaxChunks, MaxSenders, MaxLinks} \subseteq Nat \ {0}

Senders == 1..MaxSenders

VARIABLES
    app,
    chunk,     \* chunks submitted so far
    current,   \* _sender, senderRef.current: senders are numbered as made
    dest,      \* the sender's client: "log" or "pi"
    \* CoalescingSender
    pending,   \* _pending, 0 for null
    drain,     \* "delay" while _sending, in the delay
    recent,    \* less than _minInterval since _lastSent
    \* GrpcEdgeClient, WsEdgeClient
    stub,      \* _channel and _stub are set (phone)
    requests,  \* link behind _requests (phone) or ws (web), 0 for null
    closing,   \* where close() awaits
    retry,     \* reconnectTimer is set (web)
    \* outside: gRPC streams and WebSockets, in the order they were opened
    link,
    heard,     \* last chunk of each sender that reached the Pi
    \* history
    caught,    \* replaced while in the delay
    late       \* chunks given to the client after the sender was replaced

senderVars == <<app, chunk, current, dest, pending, drain, recent>>
clientVars == <<stub, requests, closing, retry>>
history == <<caught, late>>
vars == <<senderVars, clientVars, link, heard, history>>

Init ==
    /\ app \in Apps
    /\ chunk = 0 /\ current = 1
    /\ dest = [s \in Senders |-> IF s = 1 THEN "log" ELSE "none"]
    /\ pending = [s \in Senders |-> 0]
    /\ drain = [s \in Senders |-> "idle"]
    /\ recent = [s \in Senders |-> FALSE]
    /\ stub = [s \in Senders |-> FALSE]
    /\ requests = [s \in Senders |-> 0]
    /\ closing = [s \in Senders |-> "no"]
    /\ retry = [s \in Senders |-> FALSE]
    /\ link = <<>>
    /\ heard = [s \in Senders |-> 0]
    /\ caught = {}
    /\ late = [s \in Senders |-> 0]

-----------------------------------------------------------------------------
(* The clients.                                                             *)

NewLink(s, items) == [owner |-> s, state |-> "connecting", ended |-> FALSE, buf |-> items]

Put(l, c) == [link EXCEPT ![l].buf = Append(@, c)]

\* Mutation: _ensureStream() opens a stream whether or not there is one.
GrpcSendAlways(s, c) ==
    /\ Len(link) < MaxLinks
    /\ link' = Append(link, NewLink(s, <<c>>))
    /\ requests' = [requests EXCEPT ![s] = Len(link) + 1]
    /\ stub' = [stub EXCEPT ![s] = TRUE]

\* GrpcEdgeClient.send(): connect() if there is no stub, a stream if there is
\* none, and the chunk into its StreamController.  A channel that is shutting
\* down refuses the stream.
GrpcSend(s, c) ==
    \/ /\ requests[s] # 0
       /\ link' = Put(requests[s], c)
       /\ UNCHANGED <<stub, requests>>
    \/ /\ requests[s] = 0 /\ closing[s] = "channel"
       /\ UNCHANGED <<link, stub, requests>>
    \/ /\ requests[s] = 0 /\ closing[s] # "channel"
       /\ Len(link) < MaxLinks
       /\ link' = Append(link, NewLink(s, <<c>>))
       /\ requests' = [requests EXCEPT ![s] = Len(link) + 1]
       /\ stub' = [stub EXCEPT ![s] = TRUE]

\* WsEdgeClient.send(): without an open WebSocket the chunk is dropped.
WsSend(s, c) ==
    LET open == requests[s] # 0 /\ link[requests[s]].state = "open"
    IN  /\ link' = IF open THEN Put(requests[s], c) ELSE link
        /\ UNCHANGED <<stub, requests>>

Send(s, c) ==
    /\ late' = [late EXCEPT ![s] = IF s # current THEN @ + 1 ELSE @]
    /\ \/ dest[s] = "log" /\ UNCHANGED <<link, stub, requests>>
       \/ dest[s] = "pi" /\ app = "phone" /\ GrpcSend(s, c)
       \/ dest[s] = "pi" /\ app = "web" /\ WsSend(s, c)

\* Mutation: WsEdgeClient.close() does not note that it was called.
CloseUnnoted(s) ==
    LET r == requests[s]
    IN  /\ closing' = [closing EXCEPT ![s] =
               IF dest[s] = "log" THEN "closed"
               ELSE IF app = "web" THEN "no"
               ELSE IF r # 0 THEN "requests" ELSE "channel"]
        /\ retry' = [retry EXCEPT ![s] = FALSE]

\* close() up to its first await; what it does to the link is in EndLink.
Close(s) ==
    LET r == requests[s]
    IN  /\ closing' = [closing EXCEPT ![s] =
               IF dest[s] = "log" \/ app = "web" THEN "closed"
               ELSE IF r # 0 THEN "requests" ELSE "channel"]
        /\ retry' = [retry EXCEPT ![s] = FALSE]

EndLink(s) == IF requests[s] = 0 THEN link ELSE [link EXCEPT ![requests[s]].ended = TRUE]

\* GrpcEdgeClient.close(): "await requests?.close()" returns once the done event
\* was delivered or its listener cancelled, so never for a stream that never had
\* a connection.  Then the channel is shut down.
CloseChannel(s) ==
    /\ closing[s] = "requests"
    /\ \A l \in DOMAIN link : (link[l].owner = s /\ link[l].ended) =>
           \/ link[l].state = "open" /\ link[l].buf = <<>>
           \/ link[l].state = "down"
    /\ closing' = [closing EXCEPT ![s] = "channel"]
    /\ UNCHANGED <<senderVars, stub, requests, retry, link, heard, history>>

\* shutdown() waits for the streams that are open.
CloseFinish(s) ==
    /\ closing[s] = "channel"
    /\ \A l \in DOMAIN link : link[l].owner = s => link[l].state # "open"
    /\ closing' = [closing EXCEPT ![s] = "closed"]
    /\ stub' = [stub EXCEPT ![s] = FALSE]
    /\ UNCHANGED <<senderVars, requests, retry, link, heard, history>>

\* WsEdgeClient: the reconnect timer.
Reconnect(s) ==
    /\ retry[s]
    /\ Len(link) < MaxLinks
    /\ retry' = [retry EXCEPT ![s] = FALSE]
    /\ link' = Append(link, NewLink(s, <<>>))
    /\ requests' = [requests EXCEPT ![s] = Len(link) + 1]
    /\ UNCHANGED <<senderVars, stub, closing, heard, history>>

-----------------------------------------------------------------------------
(* CoalescingSender.                                                        *)

\* Mutation: submit() keeps the chunk that is waiting.
SubmitKeepsOld ==
    LET s == current
    IN  /\ chunk < MaxChunks
        /\ chunk' = chunk + 1
        /\ IF drain[s] = "idle" /\ ~recent[s]
           THEN /\ Send(s, chunk + 1)
                /\ recent' = [recent EXCEPT ![s] = TRUE]
                /\ UNCHANGED <<pending, drain>>
           ELSE /\ pending' = [pending EXCEPT ![s] = IF @ = 0 THEN chunk + 1 ELSE @]
                /\ drain' = [drain EXCEPT ![s] = "delay"]
                /\ UNCHANGED <<recent, link, stub, requests, late>>
        /\ UNCHANGED <<app, current, dest, closing, retry, heard, caught>>

\* submit() and, unless one is under way, _drain() up to its first await.
Submit ==
    LET s == current
    IN  /\ chunk < MaxChunks
        /\ chunk' = chunk + 1
        /\ IF drain[s] = "idle" /\ ~recent[s]
           THEN /\ Send(s, chunk + 1)
                /\ recent' = [recent EXCEPT ![s] = TRUE]
                /\ UNCHANGED <<pending, drain>>
           ELSE /\ pending' = [pending EXCEPT ![s] = chunk + 1]
                /\ drain' = [drain EXCEPT ![s] = "delay"]
                /\ UNCHANGED <<recent, link, stub, requests, late>>
        /\ UNCHANGED <<app, current, dest, closing, retry, heard, caught>>

\* _minInterval has passed since the last chunk.
IntervalPasses(s) ==
    /\ recent[s]
    /\ recent' = [recent EXCEPT ![s] = FALSE]
    /\ UNCHANGED <<app, chunk, current, dest, pending, drain, clientVars, link, heard, history>>

\* Mutation: _drain() sends what is pending and does not clear it.
DrainKeepsPending(s) ==
    /\ drain[s] = "delay" /\ ~recent[s]
    /\ Send(s, pending[s])
    /\ recent' = [recent EXCEPT ![s] = TRUE]
    /\ UNCHANGED <<app, chunk, current, dest, pending, drain, closing, retry, heard, caught>>

\* Mutation: _drain() leaves _sending set.
DrainStaysSending(s) ==
    /\ drain[s] = "delay" /\ ~recent[s]
    /\ Send(s, pending[s])
    /\ pending' = [pending EXCEPT ![s] = 0]
    /\ recent' = [recent EXCEPT ![s] = TRUE]
    /\ UNCHANGED <<app, chunk, current, dest, drain, closing, retry, heard, caught>>

\* The delay ends: the latest chunk goes to the client.
Drain(s) ==
    /\ drain[s] = "delay" /\ ~recent[s]
    /\ Send(s, pending[s])
    /\ pending' = [pending EXCEPT ![s] = 0]
    /\ drain' = [drain EXCEPT ![s] = "idle"]
    /\ recent' = [recent EXCEPT ![s] = TRUE]
    /\ UNCHANGED <<app, chunk, current, dest, closing, retry, heard, caught>>

-----------------------------------------------------------------------------
(* The operator.                                                            *)

\* A new sender takes the place of the old one, whose client is closed.
Replace(kind) ==
    /\ current < MaxSenders
    /\ current' = current + 1
    /\ dest' = [dest EXCEPT ![current + 1] = kind]
    /\ Close(current)
    /\ caught' = IF drain[current] = "delay" THEN caught \cup {current} ELSE caught
    /\ UNCHANGED <<app, chunk, pending, drain, recent, heard, late>>

\* _connectPi, handleWsConnect: the new client connects.
Connect ==
    /\ Replace("pi")
    /\ Len(link) < MaxLinks
    /\ link' = Append(EndLink(current), NewLink(current + 1, <<>>))
    /\ requests' = [requests EXCEPT ![current] = 0, ![current + 1] = Len(link) + 1]
    /\ stub' = [stub EXCEPT ![current + 1] = app = "phone"]

\* _disconnectPi, handleWsDisconnect: back to the LoggingEdgeClient.
Disconnect ==
    /\ dest[current] = "pi"
    /\ Replace("log")
    /\ link' = EndLink(current)
    /\ requests' = [requests EXCEPT ![current] = 0]
    /\ UNCHANGED stub

-----------------------------------------------------------------------------
(* The links and the Pi.                                                    *)

LinkUp(l) ==
    /\ link[l].state = "connecting"
    /\ IF app = "web" THEN ~link[l].ended ELSE closing[link[l].owner] # "channel"
    /\ link' = [link EXCEPT ![l].state = "open"]
    /\ UNCHANGED <<senderVars, clientVars, heard, history>>

\* onError and onDone with _dropStream, onclose: what was buffered is gone.  By
\* assumption so is what the Pi has received and not read, so that it reads nothing
\* of a failed link beside its successor.
LinkDown(l) ==
    LET s == link[l].owner
    IN  /\ link[l].state \in {"connecting", "open"}
        /\ link' = [link EXCEPT ![l].state = IF @ = "open" THEN "down" ELSE "failed",
                                ![l].buf = <<>>]
        /\ requests' = IF requests[s] = l \/ app = "web" THEN [requests EXCEPT ![s] = 0]
                       ELSE requests
        /\ retry' = IF app = "web" /\ closing[s] = "no" THEN [retry EXCEPT ![s] = TRUE]
                    ELSE retry
        /\ UNCHANGED <<senderVars, stub, closing, heard, caught, late>>

PiReads(l) ==
    /\ link[l].state = "open" /\ link[l].buf # <<>>
    /\ heard' = [heard EXCEPT ![link[l].owner] = Head(link[l].buf)]
    /\ link' = [link EXCEPT ![l].buf = Tail(@)]
    /\ UNCHANGED <<senderVars, clientVars, history>>

Next ==
    \/ Submit \/ Connect \/ Disconnect
    \/ \E s \in Senders :
           \/ IntervalPasses(s) \/ Drain(s) \/ CloseChannel(s) \/ CloseFinish(s)
           \/ Reconnect(s)
    \/ \E l \in DOMAIN link : LinkUp(l) \/ LinkDown(l) \/ PiReads(l)

Spec == Init /\ [][Next]_vars

\* Timers fire and the Pi reads what reaches it.  No link has to come up or to
\* stay up, and the operator has to do nothing.
FairSpec ==
    /\ Spec
    /\ \A s \in Senders : WF_vars(IntervalPasses(s)) /\ WF_vars(Drain(s))
    /\ \A l \in 1..MaxLinks : WF_vars(l \in DOMAIN link /\ PiReads(l))

-----------------------------------------------------------------------------
(* Properties.                                                              *)

InUse(l) == link[l].state \in {"connecting", "open"}

Links ==
    [owner : Senders, state : {"connecting", "open", "down", "failed"}, ended : BOOLEAN,
     buf : Seq(1..MaxChunks)]

TypeOK ==
    /\ app \in Apps
    /\ chunk \in 0..MaxChunks /\ current \in Senders
    /\ dest \in [Senders -> {"none", "log", "pi"}]
    /\ pending \in [Senders -> 0..MaxChunks]
    /\ drain \in [Senders -> {"idle", "delay"}]
    /\ \A s \in Senders : drain[s] = "delay" => pending[s] # 0
    /\ recent \in [Senders -> BOOLEAN] /\ stub \in [Senders -> BOOLEAN]
    /\ link \in Seq(Links) /\ Len(link) <= MaxLinks
    /\ requests \in [Senders -> 0..Len(link)]
    /\ closing \in [Senders -> {"no", "requests", "channel", "closed"}]
    /\ retry \in [Senders -> BOOLEAN]
    /\ heard \in [Senders -> 0..MaxChunks]
    /\ caught \subseteq Senders
    /\ late \in [Senders -> 0..MaxChunks]

\* After a connect or disconnect the former sender gives its client at most the
\* one chunk that was waiting for its interval.
OneLateChunk == \A s \in Senders : late[s] <= 1

\* "古い接続は close" (home_page.dart:174), which Dart does not quite do.  What a
\* sender that was replaced still has connecting or open is the one link that its
\* close() ended: in the phone app it may come up even then and deliver all that it
\* was given, since close() waits for it before it shuts the channel down.  There
\* is a second link only if a phone's drain was caught in its delay and send()
\* opened one anew: it carries that one chunk.  The web app opens none.
OldLinkEnded ==
    \A l \in DOMAIN link : (InUse(l) /\ link[l].owner # current) =>
        LET s == link[l].owner
        IN  /\ \A k \in DOMAIN link :
                (InUse(k) /\ link[k].owner = s /\ link[k].ended = link[l].ended) => k = l
            /\ ~link[l].ended =>
                app = "phone" /\ s \in caught /\ late[s] = 1 /\ Len(link[l].buf) <= 1

\* Whatever links fail and are opened anew, the Pi reads the chunks of a sender
\* in the order they were submitted; only a drain caught in its delay may open a
\* second stream beside the one that close() is still ending.
SenderInOrder ==
    \A l \in DOMAIN link :
        (InUse(l) /\ link[l].owner \notin caught) =>
        LET buf == link[l].buf
        IN  /\ \A i \in DOMAIN buf : buf[i] > heard[link[l].owner]
            /\ \A i, j \in DOMAIN buf : i < j => buf[i] < buf[j]

\* A chunk submitted while the sender waits for its interval and its link l is
\* open, be it the first or one opened after others failed, is read by the Pi, or a
\* newer one is, unless l itself goes down or the operator connects elsewhere.
WaitingIsHeard ==
    \A l \in 1..MaxLinks, c \in 1..MaxChunks :
        (/\ drain[current] = "delay" /\ chunk = c
         /\ requests[current] = l /\ link[l].state = "open")
            ~> (/\ l \in DOMAIN link
                /\ \/ heard[link[l].owner] >= c \/ link[l].owner # current
                   \/ link[l].state = "down")

=============================================================================
