-------------------------- MODULE ChunkSenderProofs --------------------------
(***************************************************************************)
(* Proofs about ChunkSender for any number of chunks, replacements and links: *)
(* the former sender sends at most the chunk that was waiting, its link is    *)
(* ended and joined by another only if its drain was caught in the delay, and *)
(* each sender's chunks reach the Pi in order.                              *)
(***************************************************************************)
EXTENDS ChunkSender, TLAPS

\* What a replacement leaves of the former senders: each is closing, gave its
\* client nothing late while its delay runs, and was caught in it if it runs.
Replaced ==
    \A s \in Senders :
        /\ closing[s] = "no" <=> s >= current
        /\ s > current => drain[s] = "idle"
        /\ (s < current /\ drain[s] = "delay") => s \in caught
        /\ (s >= current \/ drain[s] = "delay") => late[s] = 0
        /\ late[s] <= 1

Live(l) == InUse(l) /\ ~link[l].ended

\* The links and the sender's reference to the one it writes to: a link that
\* nobody ended is the one its sender writes to, only a web sender without a link
\* waits to reconnect, and a sender that was not caught has one link at most.
Linked ==
    /\ \A s \in Senders :
        /\ retry[s] => app = "web" /\ requests[s] = 0 /\ s = current
        /\ s > current => requests[s] = 0
        /\ requests[s] # 0 => link[requests[s]].owner = s
    /\ \A l \in DOMAIN link :
        /\ link[l].owner <= current
        /\ link[l].ended => link[l].owner < current
        /\ Live(l) => requests[link[l].owner] = l
        /\ (Live(l) /\ link[l].owner # current) => app = "phone" /\ link[l].owner \in caught
    /\ \A k, l \in DOMAIN link :
        (/\ InUse(k) /\ InUse(l)
         /\ link[k].owner = link[l].owner /\ link[k].owner \notin caught) => k = l

\* What a former sender keeps: the link that close() ended, which is the only one
\* of its links that is ended and in use, and one that took its late chunk.
Kept ==
    /\ \A s \in Senders : (s < current /\ requests[s] # 0) =>
           late[s] = 1 /\ Len(link[requests[s]].buf) <= 1
    /\ \A k, l \in DOMAIN link :
           (/\ InUse(k) /\ link[k].ended /\ InUse(l) /\ link[l].ended
            /\ link[k].owner = link[l].owner) => k = l

\* A chunk that waits is newer than all its sender has sent, and the chunks on a
\* link are in order behind the last one that was read.
InOrder ==
    /\ \A s \in Senders :
        /\ heard[s] <= chunk /\ pending[s] <= chunk
        /\ drain[s] = "delay" => heard[s] < pending[s]
    /\ \A l \in DOMAIN link : \A i \in DOMAIN link[l].buf :
        /\ link[l].buf[i] <= chunk
        /\ drain[link[l].owner] = "delay" => link[l].buf[i] < pending[link[l].owner]
    /\ SenderInOrder

\* The conjuncts of TypeOK, by what they are about.
LinkTypes ==
    /\ link \in Seq(Links) /\ Len(link) <= MaxLinks
    /\ requests \in [Senders -> 0..Len(link)]

SenderTypes ==
    /\ app \in Apps
    /\ chunk \in 0..MaxChunks /\ current \in Senders
    /\ dest \in [Senders -> {"none", "log", "pi"}]
    /\ pending \in [Senders -> 0..MaxChunks]
    /\ drain \in [Senders -> {"idle", "delay"}]
    /\ \A s \in Senders : drain[s] = "delay" => pending[s] # 0
    /\ recent \in [Senders -> BOOLEAN] /\ stub \in [Senders -> BOOLEAN]
    /\ closing \in [Senders -> {"no", "requests", "channel", "closed"}]
    /\ retry \in [Senders -> BOOLEAN]
    /\ heard \in [Senders -> 0..MaxChunks]
    /\ caught \subseteq Senders
    /\ late \in [Senders -> 0..MaxChunks]

-----------------------------------------------------------------------------
(* Sequences of links.                                                      *)

\* Another record in place of one link.
LEMMA SetFacts ==
    ASSUME NEW L \in Seq(Links), NEW l \in DOMAIN L, NEW r \in Links
    PROVE  LET M == [L EXCEPT ![l] = r]
           IN  /\ M \in Seq(Links) /\ Len(M) = Len(L) /\ DOMAIN M = DOMAIN L
               /\ M[l] = r
               /\ \A k \in DOMAIN L : k # l => M[k] = L[k]
OBVIOUS

\* One link more.
LEMMA AppendFacts ==
    ASSUME NEW L \in Seq(Links), NEW r \in Links
    PROVE  LET M == Append(L, r)
           IN  /\ M \in Seq(Links) /\ Len(M) = Len(L) + 1
               /\ DOMAIN M = DOMAIN L \cup {Len(L) + 1}
               /\ Len(L) + 1 \notin DOMAIN L
               /\ M[Len(L) + 1] = r
               /\ \A k \in DOMAIN L : M[k] = L[k]
OBVIOUS

\* The chunks of a link with one more behind them.
LEMMA AppendType ==
    ASSUME NEW S, NEW b \in Seq(S), NEW c \in S
    PROVE  /\ Append(b, c) \in Seq(S)
           /\ DOMAIN Append(b, c) = 1..(Len(b) + 1) /\ DOMAIN b = 1..Len(b) /\ Len(b) \in Nat
           /\ \A i \in DOMAIN b : Append(b, c)[i] = b[i]
           /\ Append(b, c)[Len(b) + 1] = c
OBVIOUS

LEMMA Element == ASSUME NEW S, NEW b \in Seq(S), NEW i \in DOMAIN b PROVE b[i] \in S
OBVIOUS

\* What is left when the first of a sequence is read.
LEMMA TailFacts ==
    ASSUME NEW S, NEW b \in Seq(S), b # <<>>
    PROVE  /\ Tail(b) \in Seq(S) /\ Head(b) = b[1] /\ 1 \in DOMAIN b
           /\ \A i \in DOMAIN Tail(b) : i + 1 \in DOMAIN b /\ Tail(b)[i] = b[i + 1]
OBVIOUS

\* A link that was just opened is a link.
LEMMA NewLinkType ==
    ASSUME NEW s \in Senders, NEW b \in Seq(1..MaxChunks)
    PROVE  NewLink(s, b) \in Links
BY DEF NewLink, Links

\* A chunk behind the others of a link.
LEMMA PutFacts ==
    ASSUME link \in Seq(Links), NEW l \in DOMAIN link, NEW c \in 1..MaxChunks
    PROVE  /\ Put(l, c) \in Seq(Links) /\ Len(Put(l, c)) = Len(link)
           /\ DOMAIN Put(l, c) = DOMAIN link
           /\ Put(l, c)[l] = [link[l] EXCEPT !.buf = Append(@, c)]
           /\ \A k \in DOMAIN link : k # l => Put(l, c)[k] = link[k]
<1> DEFINE r == [link[l] EXCEPT !.buf = Append(@, c)]
<1>1. link[l] \in Links
    OBVIOUS
<1>2. r \in Links
    <2>1. Append(link[l].buf, c) \in Seq(1..MaxChunks)
        BY <1>1, AppendType DEF Links
    <2> QED
        BY <1>1, <2>1 DEF Links
<1>3. Put(l, c) = [link EXCEPT ![l] = r]
    BY DEF Put
<1> QED
    BY <1>2, <1>3, SetFacts

\* close() ends the link the sender writes to, if it has one.
LEMMA EndFacts ==
    ASSUME link \in Seq(Links), NEW s \in Senders, requests[s] \in 0..Len(link)
    PROVE  /\ EndLink(s) \in Seq(Links) /\ Len(EndLink(s)) = Len(link)
           /\ DOMAIN EndLink(s) = DOMAIN link
           /\ \A k \in DOMAIN link :
                 EndLink(s)[k] = IF k = requests[s] THEN [link[k] EXCEPT !.ended = TRUE]
                                 ELSE link[k]
<1>1. CASE requests[s] = 0
    BY <1>1 DEF EndLink
<1>2. CASE requests[s] # 0
    <2> DEFINE l == requests[s]
               r == [link[l] EXCEPT !.ended = TRUE]
    <2>1. l \in DOMAIN link
        BY <1>2
    <2>2. link[l] \in Links
        BY <2>1
    <2>3. r \in Links
        BY <2>2 DEF Links
    <2>4. EndLink(s) = [link EXCEPT ![l] = r]
        BY <1>2 DEF EndLink
    <2> HIDE DEF r
    <2>5. /\ EndLink(s) \in Seq(Links) /\ Len(EndLink(s)) = Len(link)
          /\ DOMAIN EndLink(s) = DOMAIN link /\ EndLink(s)[l] = r
          /\ \A k \in DOMAIN link : k # l => EndLink(s)[k] = link[k]
        BY <2>1, <2>3, <2>4, SetFacts
    <2> QED
        BY <1>2, <2>5 DEF r
<1> QED
    BY <1>1, <1>2

\* What send() of a client may do: nothing, a chunk behind the others of the
\* link that is there, or a new stream (phone).
Opened(s, items) ==
    /\ Len(link) < MaxLinks
    /\ link' = Append(link, NewLink(s, items))
    /\ requests' = [requests EXCEPT ![s] = Len(link) + 1]

LEMMA SendCases ==
    ASSUME LinkTypes, NEW s \in Senders, NEW c \in 1..MaxChunks, Send(s, c)
    PROVE  /\ late' = [late EXCEPT ![s] = IF s # current THEN @ + 1 ELSE @]
           /\ \/ UNCHANGED <<link, requests>>
              \/ /\ requests[s] \in DOMAIN link
                 /\ link' = Put(requests[s], c) /\ UNCHANGED requests
              \/ app = "phone" /\ requests[s] = 0 /\ Opened(s, <<c>>)
           /\ UNCHANGED stub \/ stub' = [stub EXCEPT ![s] = TRUE]
<1>1. requests[s] # 0 => requests[s] \in DOMAIN link
    BY DEF LinkTypes
<1> QED
    BY <1>1 DEF Send, GrpcSend, WsSend, Opened

-----------------------------------------------------------------------------
(* Types.                                                                   *)

LEMMA Split == TypeOK <=> LinkTypes /\ SenderTypes
BY DEF TypeOK, LinkTypes, SenderTypes

LEMMA OpenedTypes ==
    ASSUME LinkTypes, NEW s \in Senders, NEW b \in Seq(1..MaxChunks), Opened(s, b)
    PROVE  LinkTypes'
<1>1. NewLink(s, b) \in Links
    BY NewLinkType
<1>2. link' \in Seq(Links) /\ Len(link') = Len(link) + 1
    BY <1>1, AppendFacts DEF LinkTypes, Opened
<1>3. Len(link) \in Nat /\ MaxLinks \in Nat
    BY SenderAssumption DEF LinkTypes
<1> QED
    BY <1>2, <1>3 DEF LinkTypes, Opened

LEMMA SendLinkTypes ==
    ASSUME LinkTypes, NEW s \in Senders, NEW c \in 1..MaxChunks, Send(s, c)
    PROVE  LinkTypes'
<1>1. CASE UNCHANGED <<link, requests>>
    BY <1>1 DEF LinkTypes
<1>2. CASE requests[s] \in DOMAIN link /\ link' = Put(requests[s], c) /\ UNCHANGED requests
    BY <1>2, PutFacts DEF LinkTypes
<1>3. CASE Opened(s, <<c>>)
    <2>1. <<c>> \in Seq(1..MaxChunks)
        OBVIOUS
    <2> QED
        BY <1>3, <2>1, OpenedTypes
<1> QED
    BY <1>1, <1>2, <1>3, SendCases

\* The chunks of submit() and of the drain.
LEMMA SentChunk ==
    ASSUME SenderTypes
    PROVE  /\ chunk < MaxChunks => chunk + 1 \in 1..MaxChunks
           /\ \A s \in Senders : drain[s] = "delay" => pending[s] \in 1..MaxChunks
BY SenderAssumption DEF SenderTypes

\* A new link or the end of the old one.
LEMMA ReplaceLinkTypes ==
    ASSUME LinkTypes, SenderTypes, Connect \/ Disconnect
    PROVE  LinkTypes'
<1>1. /\ EndLink(current) \in Seq(Links) /\ Len(EndLink(current)) = Len(link)
    BY EndFacts DEF LinkTypes, SenderTypes
<1>2. Len(link) \in Nat /\ MaxLinks \in Nat /\ MaxSenders \in Nat
    BY SenderAssumption DEF LinkTypes
<1>3. CASE Disconnect
    <2>1. link' = EndLink(current) /\ requests' = [requests EXCEPT ![current] = 0]
        BY <1>3 DEF Disconnect
    <2>2. link' \in Seq(Links) /\ Len(link') = Len(link)
        BY <1>1, <2>1
    <2>3. requests' \in [Senders -> 0..Len(link)]
        <3>1. requests \in [Senders -> 0..Len(link)] /\ 0 \in 0..Len(link)
            BY <1>2 DEF LinkTypes
        <3> QED
            BY ONLY <2>1, <3>1
    <2> QED
        BY <2>2, <2>3 DEF LinkTypes
<1>4. CASE Connect
    <2>1. current + 1 \in Senders
        BY <1>2, <1>4 DEF Connect, Replace, SenderTypes, Senders
    <2>2. <<>> \in Seq(1..MaxChunks)
        OBVIOUS
    <2>3. NewLink(current + 1, <<>>) \in Links
        BY <2>1, <2>2, NewLinkType
    <2>4. link' \in Seq(Links) /\ Len(link') = Len(link) + 1
        BY <1>1, <1>4, <2>3, AppendFacts DEF Connect
    <2>5. requests' = [requests EXCEPT ![current] = 0, ![current + 1] = Len(link) + 1]
        BY <1>4 DEF Connect
    <2>6. requests' \in [Senders -> 0..Len(link')]
        <3>1. requests \in [Senders -> 0..(Len(link) + 1)]
            BY <1>2 DEF LinkTypes
        <3>2. 0 \in 0..(Len(link) + 1) /\ Len(link) + 1 \in 0..(Len(link) + 1)
            BY <1>2
        <3> HIDE DEF LinkTypes
        <3>3. requests' \in [Senders -> 0..(Len(link) + 1)]
            BY ONLY <2>5, <3>1, <3>2
        <3> QED
            BY <2>4, <3>3
    <2> QED
        BY <1>2, <1>4, <2>4, <2>6 DEF LinkTypes, Connect
<1> QED
    BY <1>3, <1>4

\* A link comes up, goes down or is read: only that link changes.
LEMMA UpFacts ==
    ASSUME LinkTypes, NEW l \in DOMAIN link, LinkUp(l)
    PROVE  /\ link' \in Seq(Links) /\ Len(link') = Len(link) /\ DOMAIN link' = DOMAIN link
           /\ \A k \in DOMAIN link : k # l => link'[k] = link[k]
           /\ link[l].state = "connecting"
           /\ link'[l] = [link[l] EXCEPT !.state = "open"]
<1> DEFINE r == [link[l] EXCEPT !.state = "open"]
<1>1. link \in Seq(Links) /\ link[l] \in Links
    BY DEF LinkTypes
<1>2. link[l].state = "connecting" /\ link' = [link EXCEPT ![l] = r]
    BY DEF LinkUp
<1>3. r \in Links
    BY <1>1 DEF Links
<1> QED
    BY <1>1, <1>2, <1>3, SetFacts

LEMMA DownFacts ==
    ASSUME LinkTypes, NEW l \in DOMAIN link, LinkDown(l)
    PROVE  /\ link' \in Seq(Links) /\ Len(link') = Len(link) /\ DOMAIN link' = DOMAIN link
           /\ \A k \in DOMAIN link : k # l => link'[k] = link[k]
           /\ link'[l] \in [owner : {link[l].owner}, state : {"down", "failed"},
                             ended : {link[l].ended}, buf : {<<>>}]
<1> DEFINE r == [link[l] EXCEPT !.state = IF @ = "open" THEN "down" ELSE "failed", !.buf = <<>>]
<1>1. link \in Seq(Links) /\ link[l] \in Links
    BY DEF LinkTypes
<1>2. link' = [link EXCEPT ![l] = r]
    BY <1>1 DEF LinkDown, Links
<1>3. <<>> \in Seq(1..MaxChunks)
    OBVIOUS
<1>4. /\ r \in Links
      /\ r \in [owner : {link[l].owner}, state : {"down", "failed"},
                 ended : {link[l].ended}, buf : {<<>>}]
    BY <1>1, <1>3 DEF Links
<1> HIDE DEF r
<1> QED
    BY <1>1, <1>2, <1>4, SetFacts

LEMMA ReadFacts ==
    ASSUME LinkTypes, NEW l \in DOMAIN link, PiReads(l)
    PROVE  /\ link' \in Seq(Links) /\ Len(link') = Len(link) /\ DOMAIN link' = DOMAIN link
           /\ \A k \in DOMAIN link : k # l => link'[k] = link[k]
           /\ link[l].state = "open"
           /\ link[l].buf \in Seq(1..MaxChunks) /\ link[l].buf # <<>>
           /\ link'[l] = [link[l] EXCEPT !.buf = Tail(@)]
<1> DEFINE r == [link[l] EXCEPT !.buf = Tail(@)]
<1>1. link \in Seq(Links) /\ link[l] \in Links
    BY DEF LinkTypes
<1>2. link[l].state = "open" /\ link[l].buf # <<>> /\ link' = [link EXCEPT ![l] = r]
    BY DEF PiReads
<1>3. link[l].buf \in Seq(1..MaxChunks)
    BY <1>1 DEF Links
<1>4. r \in Links
    <2>1. Tail(link[l].buf) \in Seq(1..MaxChunks)
        BY <1>2, <1>3, TailFacts
    <2> QED
        BY <1>1, <2>1 DEF Links
<1> QED
    BY <1>1, <1>2, <1>3, <1>4, SetFacts

LEMMA LinkTypeStep == ASSUME LinkTypes, SenderTypes, [Next]_vars PROVE LinkTypes'
<1>1. CASE Submit
    <2>1. current \in Senders /\ chunk + 1 \in 1..MaxChunks
        BY <1>1, SentChunk DEF Submit, SenderTypes
    <2>2. CASE Send(current, chunk + 1)
        BY <2>1, <2>2, SendLinkTypes
    <2>3. CASE UNCHANGED <<link, requests>>
        BY <2>3 DEF LinkTypes
    <2> QED
        BY <1>1, <2>2, <2>3 DEF Submit
<1>2. ASSUME NEW s \in Senders, Drain(s) PROVE LinkTypes'
    <2>1. pending[s] \in 1..MaxChunks /\ Send(s, pending[s])
        BY <1>2, SentChunk DEF Drain
    <2> QED
        BY <2>1, SendLinkTypes
<1>3. ASSUME NEW s \in Senders, IntervalPasses(s) \/ CloseChannel(s) \/ CloseFinish(s)
      PROVE  LinkTypes'
    BY <1>3 DEF LinkTypes, IntervalPasses, CloseChannel, CloseFinish, clientVars
<1>4. ASSUME NEW s \in Senders, Reconnect(s) PROVE LinkTypes'
    <2>1. <<>> \in Seq(1..MaxChunks) /\ Opened(s, <<>>)
        BY <1>4 DEF Reconnect, Opened
    <2> QED
        BY <2>1, OpenedTypes
<1>5. CASE Connect \/ Disconnect
    BY <1>5, ReplaceLinkTypes
<1>6. ASSUME NEW l \in DOMAIN link, LinkUp(l) PROVE LinkTypes'
    BY <1>6, UpFacts DEF LinkTypes, LinkUp, clientVars
<1>7. ASSUME NEW l \in DOMAIN link, LinkDown(l) PROVE LinkTypes'
    <2>1. 0 \in 0..Len(link) /\ requests \in [Senders -> 0..Len(link)]
        BY DEF LinkTypes
    <2>2. requests' = requests \/ requests' = [requests EXCEPT ![link[l].owner] = 0]
        BY <1>7 DEF LinkDown
    <2>3. requests' \in [Senders -> 0..Len(link)]
        BY ONLY <2>1, <2>2
    <2> QED
        BY <1>7, <2>3, DownFacts DEF LinkTypes
<1>8. ASSUME NEW l \in DOMAIN link, PiReads(l) PROVE LinkTypes'
    BY <1>8, ReadFacts DEF LinkTypes, PiReads, clientVars
<1>9. CASE UNCHANGED vars
    BY <1>9 DEF LinkTypes, vars, clientVars
<1> QED
    BY <1>1, <1>2, <1>3, <1>4, <1>5, <1>6, <1>7, <1>8, <1>9 DEF Next

LEMMA SenderTypeStep ==
    ASSUME LinkTypes, SenderTypes, Replaced, [Next]_vars
    PROVE  SenderTypes'
<1> USE SenderAssumption DEF SenderTypes
<1>0. /\ 0 \in 0..MaxChunks /\ 1 \in 0..MaxChunks
      /\ \A s \in Senders : drain[s] = "delay" => pending[s] \in 1..MaxChunks /\ late[s] = 0
    BY DEF Replaced
<1>1. CASE Submit
    <2>1. current \in Senders /\ chunk + 1 \in 1..MaxChunks /\ chunk' = chunk + 1
        BY <1>1, SentChunk DEF Submit
    <2>2. CASE Send(current, chunk + 1)
        <3>1. /\ late' = [late EXCEPT ![current] = IF current # current THEN @ + 1 ELSE @]
              /\ UNCHANGED stub \/ stub' = [stub EXCEPT ![current] = TRUE]
            BY ONLY <2>1, <2>2, LinkTypes, SendCases
        <3>2. late' = late /\ stub' \in [Senders -> BOOLEAN]
            BY <3>1
        <3>3. /\ recent' \in [Senders -> BOOLEAN] /\ pending' \in [Senders -> 0..MaxChunks]
              /\ drain' \in [Senders -> {"idle", "delay"}]
              /\ \A s \in Senders : drain'[s] = "delay" => pending'[s] # 0
            <4>1. /\ recent' = recent \/ recent' = [recent EXCEPT ![current] = TRUE]
                  /\ UNCHANGED <<pending, drain>> \/
                        /\ pending' = [pending EXCEPT ![current] = chunk + 1]
                        /\ drain' = [drain EXCEPT ![current] = "delay"]
                BY <1>1 DEF Submit
            <4>2. chunk + 1 \in 0..MaxChunks /\ chunk + 1 # 0
                BY <2>1
            <4>3. recent' \in [Senders -> BOOLEAN]
                BY ONLY <4>1, recent \in [Senders -> BOOLEAN]
            <4>4. /\ pending' \in [Senders -> 0..MaxChunks] /\ drain' \in [Senders -> {"idle", "delay"}]
                  /\ \A s \in Senders : drain'[s] = "delay" => pending'[s] # 0
                <5>1. /\ pending \in [Senders -> 0..MaxChunks] /\ drain \in [Senders -> {"idle", "delay"}]
                      /\ \A s \in Senders : drain[s] = "delay" => pending[s] # 0
                    OBVIOUS
                <5> QED
                    BY ONLY <4>1, <4>2, <5>1
            <4> QED
                BY <4>3, <4>4
        <3> QED
            BY <1>1, <2>1, <3>2, <3>3 DEF Submit
    <2>3. CASE UNCHANGED <<link, stub, requests, late>> /\ ~Send(current, chunk + 1)
        BY <1>1, <2>1, <2>3 DEF Submit
    <2> QED
        BY <1>1, <2>2, <2>3 DEF Submit
<1>2. ASSUME NEW s \in Senders, Drain(s) PROVE SenderTypes'
    <2>1. pending[s] \in 1..MaxChunks /\ Send(s, pending[s]) /\ late[s] = 0
        BY <1>0, <1>2 DEF Drain
    <2>2. late' \in [Senders -> 0..MaxChunks] /\ stub' \in [Senders -> BOOLEAN]
        <3>1. /\ late' = [late EXCEPT ![s] = IF s # current THEN @ + 1 ELSE @]
              /\ UNCHANGED stub \/ stub' = [stub EXCEPT ![s] = TRUE]
            BY ONLY <1>0, <2>1, LinkTypes, SendCases
        <3>2. /\ late' = [late EXCEPT ![s] = 0] \/ late' = [late EXCEPT ![s] = 1]
              /\ late \in [Senders -> 0..MaxChunks] /\ stub \in [Senders -> BOOLEAN]
            <4>1. late[s] = 0 /\ late[s] + 1 = 1
                BY ONLY <2>1
            <4>2. late' = [late EXCEPT ![s] = IF s # current THEN 1 ELSE 0]
                BY ONLY <3>1, <4>1
            <4> QED
                BY <4>2
        <3> QED
            BY ONLY <1>0, <3>1, <3>2
    <2> QED
        BY <1>0, <1>2, <2>2 DEF Drain
<1>3. ASSUME NEW s \in Senders,
             IntervalPasses(s) \/ CloseChannel(s) \/ CloseFinish(s) \/ Reconnect(s)
      PROVE  SenderTypes'
    BY <1>3
    DEF IntervalPasses, CloseChannel, CloseFinish, Reconnect, senderVars, clientVars, history
<1>4. CASE Connect \/ Disconnect
    <2>1. current + 1 \in Senders /\ current' = current + 1
        BY <1>4 DEF Connect, Disconnect, Replace, Senders
    <2>2. PICK to \in {"pi", "log"} : Replace(to)
        BY <1>4 DEF Connect, Disconnect
    <2>3. stub' \in [Senders -> BOOLEAN]
        BY <1>4 DEF Connect, Disconnect
    <2> QED
        BY <2>1, <2>2, <2>3 DEF Replace, Close
<1>5. ASSUME NEW l \in DOMAIN link, LinkUp(l) PROVE SenderTypes'
    BY <1>5 DEF LinkUp, senderVars, clientVars, history
<1>6. ASSUME NEW l \in DOMAIN link, LinkDown(l) PROVE SenderTypes'
    <2>1. link[l] \in Links
        BY DEF LinkTypes
    <2> QED
        BY <1>6, <2>1 DEF LinkDown, Links, senderVars
<1>7. ASSUME NEW l \in DOMAIN link, PiReads(l) PROVE SenderTypes'
    <2>1. Head(link[l].buf) \in 1..MaxChunks
        <3>1. link[l].buf \in Seq(1..MaxChunks) /\ link[l].buf # <<>>
            BY ONLY LinkTypes, <1>7, ReadFacts
        <3> QED
            BY <3>1
    <2>2. heard' \in [Senders -> 0..MaxChunks]
        <3>1. /\ heard \in [Senders -> 0..MaxChunks]
              /\ heard' = [heard EXCEPT ![link[l].owner] = Head(link[l].buf)]
            BY <1>7 DEF PiReads
        <3>2. Head(link[l].buf) \in 0..MaxChunks
            BY <2>1
        <3> QED
            BY ONLY <3>1, <3>2
    <2> QED
        BY <1>7, <2>2 DEF PiReads, senderVars, clientVars, history
<1>8. CASE UNCHANGED vars
    BY <1>8 DEF vars, senderVars, clientVars, history
<1> QED
    BY <1>1, <1>2, <1>3, <1>4, <1>5, <1>6, <1>7, <1>8 DEF Next

-----------------------------------------------------------------------------
(* Former senders.                                                          *)

LEMMA ReplacedQuiet ==
    ASSUME Replaced, UNCHANGED <<closing, current, drain, caught, late>>
    PROVE  Replaced'
BY DEF Replaced

LEMMA ReplacedStep ==
    ASSUME LinkTypes, SenderTypes, Replaced, [Next]_vars
    PROVE  Replaced'
<1>1. current \in Nat /\ Senders \subseteq Nat
    BY DEF SenderTypes, Senders
<1>2. CASE Submit
    <2>1. Send(current, chunk + 1) => late' = late
        BY <1>1 DEF Send, SenderTypes
    <2>2. UNCHANGED <<closing, current, caught, late>>
        BY <1>2, <2>1 DEF Submit
    <2>3. drain' = drain \/ drain' = [drain EXCEPT ![current] = "delay"]
        BY <1>2 DEF Submit
    <2>4. \A s \in Senders : drain'[s] = drain[s] \/ (s = current /\ drain'[s] = "delay")
        BY <2>3 DEF SenderTypes
    <2> QED
        BY ONLY <1>1, <2>2, <2>4, Replaced DEF Replaced
<1>3. ASSUME NEW s \in Senders, Drain(s) PROVE Replaced'
    <2>1. /\ drain[s] = "delay" /\ drain' = [drain EXCEPT ![s] = "idle"]
          /\ UNCHANGED <<closing, current, caught>>
          /\ late' = [late EXCEPT ![s] = IF s # current THEN @ + 1 ELSE @]
        BY <1>3 DEF Drain, Send
    <2>2. late[s] = 0 /\ late[s] + 1 = 1 /\ s <= current
        BY <1>1, <2>1 DEF Replaced
    <2>3. late'[s] = IF s # current THEN 1 ELSE 0
        BY <2>1, <2>2 DEF SenderTypes
    <2>4. drain'[s] = "idle" /\ \A t \in Senders : t # s => drain'[t] = drain[t] /\ late'[t] = late[t]
        BY <2>1 DEF SenderTypes
    <2>5. ASSUME NEW t \in Senders
          PROVE  /\ closing[t] = "no" <=> t >= current
                 /\ t > current => drain'[t] = "idle"
                 /\ (t < current /\ drain'[t] = "delay") => t \in caught
                 /\ (t >= current \/ drain'[t] = "delay") => late'[t] = 0
                 /\ late'[t] <= 1
        <3>1. CASE t = s
            BY ONLY <1>1, <2>2, <2>3, <2>4, <3>1, Replaced, s \in Senders DEF Replaced
        <3>2. CASE t # s
            BY ONLY <1>1, <2>4, <3>2, Replaced, t \in Senders DEF Replaced
        <3> QED
            BY <3>1, <3>2
    <2> QED
        BY ONLY <2>1, <2>5 DEF Replaced
<1>4. ASSUME NEW s \in Senders, IntervalPasses(s) \/ Reconnect(s) PROVE Replaced'
    BY <1>4, ReplacedQuiet DEF IntervalPasses, Reconnect, senderVars, clientVars, history
<1>5. ASSUME NEW s \in Senders, CloseChannel(s) \/ CloseFinish(s) PROVE Replaced'
    <2>1. /\ closing[s] # "no" /\ UNCHANGED <<current, drain, caught, late>>
          /\ closing' = [closing EXCEPT ![s] = "channel"] \/ closing' = [closing EXCEPT ![s] = "closed"]
        BY <1>5 DEF CloseChannel, CloseFinish, senderVars, history
    <2>2. \A t \in Senders : closing'[t] = "no" <=> closing[t] = "no"
        BY <2>1 DEF SenderTypes
    <2> QED
        BY <2>1, <2>2 DEF Replaced
<1>6. CASE Connect \/ Disconnect
    <2>1. PICK to \in {"pi", "log"} : Replace(to)
        BY <1>6 DEF Connect, Disconnect
    <2>2. /\ current' = current + 1 /\ UNCHANGED <<drain, late>>
          /\ caught' = IF drain[current] = "delay" THEN caught \cup {current} ELSE caught
        BY <2>1 DEF Replace
    <2>3. closing'[current] # "no" /\ \A s \in Senders : s # current => closing'[s] = closing[s]
        BY <2>1 DEF Replace, Close, SenderTypes
    <2> QED
        BY ONLY <1>1, <2>2, <2>3, Replaced DEF Replaced
<1>7. ASSUME NEW l \in DOMAIN link, LinkUp(l) \/ LinkDown(l) \/ PiReads(l) PROVE Replaced'
    BY <1>7, ReplacedQuiet DEF LinkUp, LinkDown, PiReads, senderVars, clientVars, history
<1>8. CASE UNCHANGED vars
    BY <1>8, ReplacedQuiet DEF vars, senderVars, clientVars, history
<1> QED
    BY <1>2, <1>3, <1>4, <1>5, <1>6, <1>7, <1>8 DEF Next

-----------------------------------------------------------------------------
(* Links.                                                                   *)

\* A step that opens, ends and loses no link.
LEMMA LinkedSame ==
    ASSUME Linked, LinkTypes, DOMAIN link' = DOMAIN link,
           \A k \in DOMAIN link :
               /\ link'[k].owner = link[k].owner /\ link'[k].ended = link[k].ended
               /\ InUse(k)' <=> InUse(k),
           UNCHANGED <<app, requests, retry, current, caught>>
    PROVE  Linked'
<1>1. \A k \in DOMAIN link : Live(k)' <=> Live(k)
    BY DEF Live, InUse
<1>2. \A s \in Senders : requests[s] # 0 => requests[s] \in DOMAIN link
    BY DEF LinkTypes
<1> QED
    BY <1>1, <1>2 DEF Linked

\* A sender without a link opens one: the present one, or a former one of the
\* phone that was caught in its delay.
LEMMA LinkedOpen ==
    ASSUME Linked, LinkTypes, current \in Nat, NEW s \in Senders, NEW b \in Seq(1..MaxChunks),
           requests[s] = 0, Opened(s, b), s <= current,
           s = current \/ (app = "phone" /\ s \in caught),
           retry'[s] = FALSE, \A t \in Senders : t # s => retry'[t] = retry[t],
           UNCHANGED <<app, current, caught>>
    PROVE  Linked'
<1> DEFINE n == Len(link) + 1
<1>0. link \in Seq(Links) /\ Len(link) \in Nat /\ n \in Nat /\ n # 0 /\ Senders \subseteq Nat
    BY DEF LinkTypes, Senders
<1>1. NewLink(s, b) \in Links
    BY NewLinkType
<1>2. /\ DOMAIN link' = DOMAIN link \cup {n} /\ n \notin DOMAIN link
      /\ link'[n] = NewLink(s, b) /\ \A k \in DOMAIN link : link'[k] = link[k]
    BY ONLY <1>0, <1>1, AppendFacts, Opened(s, b) DEF Opened
<1>3. /\ link'[n].owner = s /\ link'[n].ended = FALSE /\ link'[n].state = "connecting"
    BY <1>2 DEF NewLink
<1>4. requests'[s] = n /\ \A t \in Senders : t # s => requests'[t] = requests[t]
    BY DEF LinkTypes, Opened
<1>5. \A k \in DOMAIN link : (Live(k)' <=> Live(k)) /\ (InUse(k)' <=> InUse(k))
    BY <1>2 DEF Live, InUse
<1>6. \A t \in Senders : requests[t] # 0 => requests[t] \in DOMAIN link
    BY DEF LinkTypes
<1>7. \A k \in DOMAIN link : link[k].owner \in Senders /\ k # 0 /\ link[k].ended \in BOOLEAN
    <2>1. \A k \in DOMAIN link : link[k] \in Links /\ k # 0
        BY <1>0
    <2> QED
        BY <2>1 DEF Links
<1> HIDE DEF n
\* No link of a sender that was not caught is in use.
<1>8. ASSUME NEW k \in DOMAIN link, InUse(k), link[k].owner = s
      PROVE  s \in caught
    <2>1. ~Live(k)
        BY <1>7, <1>8 DEF Linked
    <2>2. link[k].ended
        BY <2>1, <1>8 DEF Live, InUse
    <2>3. link[k].owner < current
        BY <2>2 DEF Linked
    <2> QED
        BY <1>0, <2>3, <1>8
<1>9. \A t \in Senders :
        /\ retry'[t] => app' = "web" /\ requests'[t] = 0 /\ t = current'
        /\ t > current' => requests'[t] = 0
        /\ requests'[t] # 0 => link'[requests'[t]].owner = t
    <2>1. ASSUME NEW t \in Senders, t # s
          PROVE  /\ retry'[t] => app' = "web" /\ requests'[t] = 0 /\ t = current'
                 /\ t > current' => requests'[t] = 0
                 /\ requests'[t] # 0 => link'[requests'[t]].owner = t
        BY <1>2, <1>4, <1>6, <2>1 DEF Linked
    <2>2. /\ ~retry'[s] /\ ~(s > current') /\ link'[requests'[s]].owner = s
        BY <1>0, <1>3, <1>4
    <2> QED
        BY <2>1, <2>2
<1>10. ASSUME NEW l \in DOMAIN link'
       PROVE  /\ link'[l].owner <= current'
              /\ link'[l].ended => link'[l].owner < current'
              /\ Live(l)' => requests'[link'[l].owner] = l
              /\ (Live(l)' /\ link'[l].owner # current') => app' = "phone" /\ link'[l].owner \in caught'
    <2>1. CASE l = n
        BY <2>1, <1>3, <1>4
    <2>2. CASE l \in DOMAIN link
        <3>1. link'[l] = link[l] /\ (Live(l)' <=> Live(l))
            BY <2>2, <1>2, <1>5
        <3>2. link[l].owner = s => ~Live(l)
            BY <1>7, <2>2 DEF Linked
        <3> QED
            BY <1>4, <1>7, <2>2, <3>1, <3>2 DEF Linked
    <2> QED
        BY <1>2, <2>1, <2>2
<1>11. \A k, l \in DOMAIN link' :
        (/\ InUse(k)' /\ InUse(l)'
         /\ link'[k].owner = link'[l].owner /\ link'[k].owner \notin caught') => k = l
    BY <1>2, <1>3, <1>5, <1>8 DEF Linked
<1> QED
    BY <1>9, <1>10, <1>11 DEF Linked

\* The reference of the web client is dropped with any of its links, but the one
\* that is in use is the only one.
LEMMA LinkedDown ==
    ASSUME Linked, LinkTypes, SenderTypes, Replaced, NEW l \in DOMAIN link, LinkDown(l)
    PROVE  Linked'
<1> DEFINE s == link[l].owner
<1>0. /\ DOMAIN link' = DOMAIN link /\ \A k \in DOMAIN link : k # l => link'[k] = link[k]
      /\ link'[l].owner = s /\ link'[l].ended = link[l].ended
      /\ link'[l].state \in {"down", "failed"}
    BY DownFacts
<1>1. InUse(l) /\ s \in Senders /\ current \in Nat /\ Senders \subseteq Nat
    <2>1. link[l] \in Links
        BY DEF LinkTypes
    <2> QED
        BY <2>1 DEF LinkDown, InUse, Links, SenderTypes, Senders
<1>2. /\ requests' = IF requests[s] = l \/ app = "web" THEN [requests EXCEPT ![s] = 0] ELSE requests
      /\ retry' = IF app = "web" /\ closing[s] = "no" THEN [retry EXCEPT ![s] = TRUE] ELSE retry
      /\ UNCHANGED <<app, current, caught>>
    BY DEF LinkDown, senderVars
<1>3. \A k \in DOMAIN link :
        /\ link'[k].owner = link[k].owner /\ link'[k].ended = link[k].ended
        /\ Live(k)' <=> Live(k) /\ k # l
        /\ InUse(k)' <=> InUse(k) /\ k # l
    BY <1>0 DEF Live, InUse
<1>4. \A t \in Senders :
        /\ requests'[t] = IF t = s /\ (requests[s] = l \/ app = "web") THEN 0 ELSE requests[t]
        /\ retry'[t] => retry[t] \/ (t = s /\ app = "web" /\ closing[s] = "no")
        /\ requests[t] # 0 => requests[t] \in DOMAIN link
    BY <1>1, <1>2 DEF LinkTypes, SenderTypes
<1> HIDE DEF s
<1>5. \A t \in Senders :
        /\ retry'[t] => app' = "web" /\ requests'[t] = 0 /\ t = current'
        /\ t > current' => requests'[t] = 0
        /\ requests'[t] # 0 => link'[requests'[t]].owner = t
    <2>1. closing[s] = "no" => s = current
        <3>1. closing[s] = "no" => s >= current
            BY <1>1 DEF Replaced
        <3>2. s <= current
            BY DEF Linked, s
        <3> QED
            BY <1>1, <3>1, <3>2
    <2> QED
        BY <1>2, <1>3, <1>4, <2>1 DEF Linked
<1>6. ASSUME NEW k \in DOMAIN link, k # l, Live(k), link[k].owner = s, app = "web"
      PROVE  FALSE
    <2>1. s = current
        BY <1>6 DEF Linked
    <2>2. ~link[l].ended
        BY <1>1, <2>1 DEF Linked, s
    <2>3. Live(l)
        BY <1>1, <2>2 DEF Live, InUse
    <2> QED
        BY <1>6, <2>3 DEF Linked, s
<1>7. ASSUME NEW k \in DOMAIN link
      PROVE  /\ link'[k].owner <= current'
             /\ link'[k].ended => link'[k].owner < current'
             /\ Live(k)' => requests'[link'[k].owner] = k
             /\ (Live(k)' /\ link'[k].owner # current') => app' = "phone" /\ link'[k].owner \in caught'
    <2>1. link[k].owner \in Senders
        <3>1. link[k] \in Links
            BY DEF LinkTypes
        <3> QED
            BY <3>1 DEF Links
    <2>2. ASSUME Live(k)' PROVE requests'[link[k].owner] = k
        BY <1>3, <1>4, <1>6, <2>1, <2>2 DEF Linked
    <2> QED
        BY <1>2, <1>3, <2>2 DEF Linked
<1> QED
    BY <1>0, <1>2, <1>3, <1>5, <1>7 DEF Linked

\* A connect or disconnect ends the link in use before the new sender has one.
LEMMA LinkedReplace ==
    ASSUME Linked, LinkTypes, SenderTypes, Connect \/ Disconnect
    PROVE  Linked'
<1> DEFINE n == current + 1
           m == Len(link) + 1
<1>0. /\ current \in Nat /\ n \in Nat /\ current < n /\ Senders \subseteq Nat
      /\ current \in Senders /\ n \in Senders /\ link \in Seq(Links)
      /\ m \in Nat /\ m # 0
    BY SenderAssumption DEF SenderTypes, LinkTypes, Senders, Connect, Disconnect, Replace
<1>1. PICK to \in {"pi", "log"} : Replace(to)
    BY DEF Connect, Disconnect
<1>2. /\ current' = n /\ app' = app
      /\ caught \subseteq caught' /\ retry' = [retry EXCEPT ![current] = FALSE]
    BY <1>1 DEF Replace, Close
<1>3. /\ EndLink(current) \in Seq(Links) /\ Len(EndLink(current)) = Len(link)
      /\ DOMAIN EndLink(current) = DOMAIN link
      /\ \A k \in DOMAIN link :
            EndLink(current)[k] = IF k = requests[current] THEN [link[k] EXCEPT !.ended = TRUE]
                                  ELSE link[k]
    BY <1>0, EndFacts DEF LinkTypes
<1>4. \A k \in DOMAIN link : link[k] \in Links /\ k # 0 /\ link[k].owner \in Senders
    <2>1. \A k \in DOMAIN link : link[k] \in Links /\ k # 0
        BY <1>0
    <2> QED
        BY <2>1 DEF Links
<1>5. \A k \in DOMAIN link :
        /\ EndLink(current)[k].owner = link[k].owner
        /\ EndLink(current)[k].state = link[k].state
        /\ EndLink(current)[k].ended = (link[k].ended \/ k = requests[current])
    BY <1>3, <1>4 DEF Links
<1>6. \/ link' = EndLink(current) /\ requests' = [requests EXCEPT ![current] = 0]
      \/ /\ link' = Append(EndLink(current), NewLink(n, <<>>))
         /\ requests' = [requests EXCEPT ![current] = 0, ![n] = m]
    BY DEF Connect, Disconnect
<1>7. /\ NewLink(n, <<>>) \in Links
      /\ NewLink(n, <<>>).owner = n /\ NewLink(n, <<>>).ended = FALSE
    <2>1. <<>> \in Seq(1..MaxChunks)
        OBVIOUS
    <2> QED
        BY <1>0, <2>1, NewLinkType DEF NewLink
<1> HIDE DEF n
<1>8. /\ \A k \in DOMAIN link : link'[k] = EndLink(current)[k]
      /\ \/ DOMAIN link' = DOMAIN link /\ requests'[n] = requests[n]
         \/ /\ DOMAIN link' = DOMAIN link \cup {m} /\ m \notin DOMAIN link
            /\ link'[m] = NewLink(n, <<>>) /\ requests'[n] = m
      /\ requests'[current] = 0
      /\ \A t \in Senders : t # n /\ t # current => requests'[t] = requests[t]
    <2>1. CASE link' = EndLink(current) /\ requests' = [requests EXCEPT ![current] = 0]
        BY <1>0, <1>3, <2>1 DEF LinkTypes
    <2>2. CASE /\ link' = Append(EndLink(current), NewLink(n, <<>>))
               /\ requests' = [requests EXCEPT ![current] = 0, ![n] = m]
        <3>1. /\ \A k \in DOMAIN link : link'[k] = EndLink(current)[k]
              /\ DOMAIN link' = DOMAIN link \cup {m} /\ m \notin DOMAIN link
              /\ link'[m] = NewLink(n, <<>>)
            BY ONLY <1>3, <1>7, <2>2, AppendFacts
        <3>2. /\ requests'[n] = m /\ requests'[current] = 0
              /\ \A t \in Senders : t # n /\ t # current => requests'[t] = requests[t]
            BY <1>0, <2>2 DEF LinkTypes
        <3> QED
            BY <3>1, <3>2
    <2> QED
        BY <1>6, <2>1, <2>2
<1> HIDE DEF m
<1>9. \A k \in DOMAIN link :
        /\ link'[k].owner = link[k].owner
        /\ link'[k].ended = (link[k].ended \/ k = requests[current])
        /\ Live(k)' <=> Live(k) /\ k # requests[current]
        /\ InUse(k)' <=> InUse(k)
    BY <1>5, <1>8 DEF Live, InUse
<1>10. \A t \in Senders : ~retry'[t] /\ (requests[t] # 0 => requests[t] \in DOMAIN link)
    BY <1>2 DEF Linked, LinkTypes, SenderTypes
<1>11. \A t \in Senders :
        /\ t > n => requests'[t] = 0
        /\ requests'[t] # 0 => link'[requests'[t]].owner = t
    BY <1>0, <1>7, <1>8, <1>9, <1>10 DEF Linked
<1>12. ASSUME NEW k \in DOMAIN link
       PROVE  /\ link'[k].owner < n
              /\ Live(k)' => requests'[link'[k].owner] = k
              /\ Live(k)' => app' = "phone" /\ link'[k].owner \in caught'
    <2>1. link[k].owner <= current /\ link[k].owner \in Nat
        BY <1>0, <1>4 DEF Linked
    <2>2. ASSUME Live(k)' PROVE link[k].owner # current /\ requests[link[k].owner] = k
        BY <1>9, <2>2 DEF Linked
    <2>3. link[k].owner < n /\ link[k].owner # n
        BY <1>0, <2>1
    <2> QED
        BY <1>2, <1>4, <1>8, <1>9, <2>2, <2>3 DEF Linked
<1>13. \A k \in DOMAIN link' : k \notin DOMAIN link =>
        k = m /\ link'[k].owner = n /\ link'[k].ended = FALSE /\ requests'[n] = m
    BY <1>7, <1>8
<1>14. \A k, l \in DOMAIN link' :
        (/\ InUse(k)' /\ InUse(l)'
         /\ link'[k].owner = link'[l].owner /\ link'[k].owner \notin caught') => k = l
    <2>1. \A k, l \in DOMAIN link :
            (/\ InUse(k)' /\ InUse(l)'
             /\ link'[k].owner = link'[l].owner /\ link'[k].owner \notin caught') => k = l
        BY <1>2, <1>9 DEF Linked
    <2>2. \A k \in DOMAIN link : link'[k].owner # n
        BY <1>0, <1>12
    <2> QED
        BY <1>13, <2>1, <2>2
<1>15. ASSUME NEW k \in DOMAIN link'
       PROVE  /\ link'[k].owner <= n
              /\ link'[k].ended => link'[k].owner < n
              /\ Live(k)' => requests'[link'[k].owner] = k
              /\ (Live(k)' /\ link'[k].owner # n) => app' = "phone" /\ link'[k].owner \in caught'
    <2>1. CASE k \in DOMAIN link
        <3>1. link'[k].owner \in Nat /\ link'[k].owner < n
            BY <1>0, <1>4, <1>9, <1>12, <2>1
        <3>2. link'[k].owner <= n
            BY <1>0, <3>1
        <3> QED
            BY <1>12, <2>1, <3>1, <3>2
    <2>2. CASE k \notin DOMAIN link
        BY <1>0, <1>13, <2>2
    <2> QED
        BY <2>1, <2>2
<1> QED
    BY <1>2, <1>10, <1>11, <1>14, <1>15 DEF Linked

LEMMA LinkedStep ==
    ASSUME LinkTypes, SenderTypes, Replaced, Linked, [Next]_vars
    PROVE  Linked'
<1>0. current \in Nat /\ current \in Senders /\ Senders \subseteq Nat /\ retry \in [Senders -> BOOLEAN]
    BY DEF SenderTypes, Senders
<1>t. LinkTypes /\ SenderTypes /\ Replaced /\ Linked
    OBVIOUS
<1>1. ASSUME NEW s \in Senders, NEW c \in 1..MaxChunks, Send(s, c), s <= current,
             s = current \/ s \in caught, UNCHANGED <<app, current, caught, retry>>
      PROVE  Linked'
    <2>1. CASE UNCHANGED <<link, requests>>
        BY <1>1, <2>1, LinkedSame DEF InUse
    <2>2. CASE requests[s] \in DOMAIN link /\ link' = Put(requests[s], c) /\ UNCHANGED requests
        <3>1. /\ DOMAIN link' = DOMAIN link
              /\ link'[requests[s]] = [link[requests[s]] EXCEPT !.buf = Append(@, c)]
              /\ \A k \in DOMAIN link : k # requests[s] => link'[k] = link[k]
            <4> DEFINE r == requests[s]
            <4>1. r \in DOMAIN link /\ link \in Seq(Links) /\ link' = Put(r, c)
                BY <2>2 DEF LinkTypes
            <4> HIDE DEF r
            <4>2. /\ DOMAIN link' = DOMAIN link
                  /\ link'[r] = [link[r] EXCEPT !.buf = Append(@, c)]
                  /\ \A k \in DOMAIN link : k # r => link'[k] = link[k]
                <5>1. /\ DOMAIN Put(r, c) = DOMAIN link
                      /\ Put(r, c)[r] = [link[r] EXCEPT !.buf = Append(@, c)]
                      /\ \A k \in DOMAIN link : k # r => Put(r, c)[k] = link[k]
                    BY ONLY <4>1, c \in 1..MaxChunks, PutFacts, Zenon
                <5> QED
                    BY ONLY <4>1, <5>1, Zenon
            <4> QED
                BY <4>2 DEF r
        <3>2. link[requests[s]] \in Links
            BY <2>2 DEF LinkTypes
        <3>3. \A k \in DOMAIN link :
                /\ link'[k].owner = link[k].owner /\ link'[k].ended = link[k].ended
                /\ link'[k].state = link[k].state
            BY <3>1, <3>2 DEF Links
        <3> QED
            BY <1>1, <2>2, <3>1, <3>3, LinkedSame DEF InUse
    <2>3. CASE app = "phone" /\ requests[s] = 0 /\ Opened(s, <<c>>)
        <3>1. <<c>> \in Seq(1..MaxChunks)
            OBVIOUS
        <3>2. retry[s] = FALSE
            BY <1>0, <2>3 DEF Linked
        <3>3. retry'[s] = FALSE /\ \A t \in Senders : t # s => retry'[t] = retry[t]
            BY <1>1, <3>2
        <3> QED
            BY ONLY <1>0, <1>1, <2>3, <3>1, <3>3, <1>t, LinkedOpen
    <2> QED
        BY <1>1, <2>1, <2>2, <2>3, SendCases
<1>2. CASE Submit
    <2>1. chunk + 1 \in 1..MaxChunks /\ UNCHANGED <<app, current, caught, retry>>
        BY <1>2, SentChunk DEF Submit
    <2>2. CASE Send(current, chunk + 1)
        BY <1>0, <1>1, <2>1, <2>2
    <2>3. CASE UNCHANGED <<link, requests>>
        BY <2>1, <2>3, LinkedSame DEF InUse
    <2> QED
        BY <1>2, <2>2, <2>3 DEF Submit
<1>3. ASSUME NEW s \in Senders, Drain(s) PROVE Linked'
    <2>1. /\ pending[s] \in 1..MaxChunks /\ Send(s, pending[s])
          /\ UNCHANGED <<app, current, caught, retry>> /\ drain[s] = "delay"
        BY <1>3, SentChunk DEF Drain
    <2>2. s <= current /\ (s = current \/ s \in caught)
        BY <1>0, <2>1 DEF Replaced
    <2> QED
        BY <1>1, <2>1, <2>2
<1>4. ASSUME NEW s \in Senders, IntervalPasses(s) \/ CloseChannel(s) \/ CloseFinish(s)
      PROVE  Linked'
    BY <1>4, LinkedSame
    DEF IntervalPasses, CloseChannel, CloseFinish, InUse, senderVars, clientVars, history
<1>5. ASSUME NEW s \in Senders, Reconnect(s) PROVE Linked'
    <2>1. <<>> \in Seq(1..MaxChunks) /\ Opened(s, <<>>) /\ UNCHANGED <<app, current, caught>>
        BY <1>5 DEF Reconnect, Opened, senderVars, history
    <2>2. requests[s] = 0 /\ s = current /\ s <= current
        BY <1>0, <1>5 DEF Reconnect, Linked
    <2>3. retry'[s] = FALSE /\ \A t \in Senders : t # s => retry'[t] = retry[t]
        BY <1>0, <1>5 DEF Reconnect
    <2> QED
        BY ONLY <1>0, <1>t, <2>1, <2>2, <2>3, s \in Senders, LinkedOpen
<1>6. CASE Connect \/ Disconnect
    BY <1>6, LinkedReplace
<1>7. ASSUME NEW l \in DOMAIN link, LinkUp(l) PROVE Linked'
    <2>1. link[l] \in Links
        BY DEF LinkTypes
    <2>2. \A k \in DOMAIN link :
            /\ link'[k].owner = link[k].owner /\ link'[k].ended = link[k].ended
            /\ InUse(k)' <=> InUse(k)
        <3>1. link[l].state \in {"connecting", "open"} /\ link'[l] = [link[l] EXCEPT !.state = "open"]
              /\ \A k \in DOMAIN link : k # l => link'[k] = link[k]
            BY <1>7, UpFacts
        <3>2. /\ link'[l].owner = link[l].owner /\ link'[l].ended = link[l].ended
              /\ link'[l].state = "open"
            BY <2>1, <3>1 DEF Links
        <3> QED
            BY <3>1, <3>2 DEF InUse
    <2>3. DOMAIN link' = DOMAIN link /\ UNCHANGED <<app, requests, retry, current, caught>>
        BY <1>7, UpFacts DEF LinkUp, senderVars, clientVars, history
    <2> QED
        BY <2>2, <2>3, LinkedSame
<1>8. ASSUME NEW l \in DOMAIN link, LinkDown(l) PROVE Linked'
    BY <1>8, LinkedDown
<1>9. ASSUME NEW l \in DOMAIN link, PiReads(l) PROVE Linked'
    <2>1. link[l] \in Links
        BY DEF LinkTypes
    <2>2. \A k \in DOMAIN link :
            /\ link'[k].owner = link[k].owner /\ link'[k].ended = link[k].ended
            /\ InUse(k)' <=> InUse(k)
        <3>1. link[l].state \in {"connecting", "open"} /\ link'[l] = [link[l] EXCEPT !.buf = Tail(@)]
              /\ \A k \in DOMAIN link : k # l => link'[k] = link[k]
            BY <1>9, ReadFacts
        <3>2. /\ link'[l].owner = link[l].owner /\ link'[l].ended = link[l].ended
              /\ link'[l].state = link[l].state
            BY <2>1, <3>1 DEF Links
        <3> QED
            BY <3>1, <3>2 DEF InUse
    <2>3. DOMAIN link' = DOMAIN link /\ UNCHANGED <<app, requests, retry, current, caught>>
        BY <1>9, ReadFacts DEF PiReads, senderVars, clientVars, history
    <2> QED
        BY <2>2, <2>3, LinkedSame
<1>10. CASE UNCHANGED vars
    BY <1>10, LinkedSame DEF vars, InUse, senderVars, clientVars, history
<1> QED
    BY <1>2, <1>3, <1>4, <1>5, <1>6, <1>7, <1>8, <1>9, <1>10 DEF Next

-----------------------------------------------------------------------------
(* What former senders keep.                                                *)

\* A step that opens and ends no link and sends nothing.
LEMMA KeptSame ==
    ASSUME Kept, Linked, LinkTypes, DOMAIN link' = DOMAIN link,
           \A k \in DOMAIN link :
               /\ link'[k].owner = link[k].owner /\ link'[k].ended = link[k].ended
               /\ InUse(k)' => InUse(k)
               /\ Len(link'[k].buf) <= 1 \/ Len(link'[k].buf) = Len(link[k].buf)
                    \/ link[k].owner = current,
           \A s \in Senders : requests'[s] \in {0, requests[s]} /\ (s < current => late'[s] = late[s]),
           UNCHANGED current
    PROVE  Kept'
<1>1. \A s \in Senders : requests[s] # 0 =>
        requests[s] \in DOMAIN link /\ link[requests[s]].owner = s
    BY DEF Linked, LinkTypes
<1>2. ASSUME NEW s \in Senders, s < current, requests'[s] # 0
      PROVE  late'[s] = 1 /\ Len(link'[requests'[s]].buf) <= 1
    <2>1. requests'[s] = requests[s] /\ requests[s] \in DOMAIN link /\ link[requests[s]].owner = s
        BY <1>1, <1>2
    <2>2. s # current
        BY <1>2 DEF Senders
    <2>3. late[s] = 1 /\ Len(link[requests[s]].buf) <= 1
        BY <1>2, <2>1 DEF Kept
    <2> QED
        BY <1>2, <2>1, <2>2, <2>3
<1> QED
    BY <1>2 DEF Kept

\* A link is opened by the present sender, or with its late chunk by a former one.
LEMMA KeptOpen ==
    ASSUME Kept, LinkTypes, current \in Nat, NEW s \in Senders, NEW b \in Seq(1..MaxChunks),
           Opened(s, b), s = current \/ (late'[s] = 1 /\ Len(b) <= 1),
           \A t \in Senders : t # s => late'[t] = late[t],
           UNCHANGED current
    PROVE  Kept'
<1> DEFINE n == Len(link) + 1
<1>0. link \in Seq(Links) /\ Len(link) \in Nat /\ n \in Nat /\ n # 0
    BY DEF LinkTypes
<1>1. NewLink(s, b) \in Links
    BY NewLinkType
<1>2. /\ DOMAIN link' = DOMAIN link \cup {n} /\ n \notin DOMAIN link
      /\ link'[n] = NewLink(s, b) /\ \A k \in DOMAIN link : link'[k] = link[k]
    BY ONLY <1>0, <1>1, AppendFacts, Opened(s, b) DEF Opened
<1>3. /\ link'[n].ended = FALSE /\ link'[n].buf = b
    BY <1>2 DEF NewLink
<1>4. requests'[s] = n /\ \A t \in Senders : t # s => requests'[t] = requests[t]
    BY DEF LinkTypes, Opened
<1>5. \A t \in Senders : requests[t] # 0 => requests[t] \in DOMAIN link
    BY DEF LinkTypes
<1> HIDE DEF n
<1>6. ASSUME NEW t \in Senders, t < current, requests'[t] # 0
      PROVE  late'[t] = 1 /\ Len(link'[requests'[t]].buf) <= 1
    <2>1. CASE t = s
        <3>1. s # current
            BY <1>6, <2>1 DEF Senders
        <3> QED
            BY <1>3, <1>4, <2>1, <3>1
    <2>2. CASE t # s
        BY <1>2, <1>4, <1>5, <1>6, <2>2 DEF Kept
    <2> QED
        BY <2>1, <2>2
<1>7. \A k \in DOMAIN link : InUse(k)' => InUse(k)
    BY <1>2 DEF InUse
<1>8. \A k, l \in DOMAIN link' :
        (/\ InUse(k)' /\ link'[k].ended /\ InUse(l)' /\ link'[l].ended
         /\ link'[k].owner = link'[l].owner) => k = l
    BY <1>2, <1>3, <1>7 DEF Kept
<1> QED
    BY <1>6, <1>8 DEF Kept

\* The link that close() ends is the first of its sender that is ended.
LEMMA KeptReplace ==
    ASSUME Kept, Linked, LinkTypes, SenderTypes, Connect \/ Disconnect
    PROVE  Kept'
<1> DEFINE n == current + 1
           m == Len(link) + 1
<1>0. /\ current \in Nat /\ n \in Nat /\ current < n /\ Senders \subseteq Nat
      /\ current \in Senders /\ n \in Senders /\ link \in Seq(Links)
      /\ m \in Nat /\ m # 0
    BY SenderAssumption DEF SenderTypes, LinkTypes, Senders, Connect, Disconnect, Replace
<1>1. current' = n /\ late' = late
    BY DEF Connect, Disconnect, Replace
<1>2. /\ EndLink(current) \in Seq(Links) /\ Len(EndLink(current)) = Len(link)
      /\ DOMAIN EndLink(current) = DOMAIN link
      /\ \A k \in DOMAIN link :
            EndLink(current)[k] = IF k = requests[current] THEN [link[k] EXCEPT !.ended = TRUE]
                                  ELSE link[k]
    BY <1>0, EndFacts DEF LinkTypes
<1>3. \A k \in DOMAIN link : link[k] \in Links
    BY <1>0
<1>4. \A k \in DOMAIN link :
        /\ EndLink(current)[k].owner = link[k].owner
        /\ EndLink(current)[k].state = link[k].state
        /\ EndLink(current)[k].buf = link[k].buf
        /\ EndLink(current)[k].ended = (link[k].ended \/ k = requests[current])
    BY <1>2, <1>3 DEF Links
<1>5. \/ link' = EndLink(current) /\ requests' = [requests EXCEPT ![current] = 0]
      \/ /\ link' = Append(EndLink(current), NewLink(n, <<>>))
         /\ requests' = [requests EXCEPT ![current] = 0, ![n] = m]
    BY DEF Connect, Disconnect
<1>6. NewLink(n, <<>>) \in Links /\ NewLink(n, <<>>).ended = FALSE
    <2>1. <<>> \in Seq(1..MaxChunks)
        OBVIOUS
    <2> QED
        BY <1>0, <2>1, NewLinkType DEF NewLink
<1> HIDE DEF n, m
<1>7. /\ \A k \in DOMAIN link : link'[k] = EndLink(current)[k]
      /\ \/ DOMAIN link' = DOMAIN link
         \/ DOMAIN link' = DOMAIN link \cup {m} /\ link'[m] = NewLink(n, <<>>)
    <2>1. CASE link' = EndLink(current)
        BY ONLY <1>2, <2>1
    <2>2. CASE link' = Append(EndLink(current), NewLink(n, <<>>))
        <3>1. /\ DOMAIN link' = DOMAIN EndLink(current) \cup {Len(EndLink(current)) + 1}
              /\ link'[Len(EndLink(current)) + 1] = NewLink(n, <<>>)
              /\ \A k \in DOMAIN EndLink(current) : link'[k] = EndLink(current)[k]
            BY ONLY <1>2, <1>6, <2>2, AppendFacts
        <3>2. m = Len(EndLink(current)) + 1
            BY <1>2 DEF m
        <3> QED
            BY ONLY <1>2, <3>1, <3>2
    <2> QED
        BY <1>5, <2>1, <2>2
<1>8. requests'[current] = 0 /\ \A t \in Senders : t # n /\ t # current => requests'[t] = requests[t]
    BY <1>0, <1>5 DEF LinkTypes
<1>9. ASSUME NEW t \in Senders, t < n, requests'[t] # 0
      PROVE  late'[t] = 1 /\ Len(link'[requests'[t]].buf) <= 1
    <2>1. t # current /\ t # n /\ t < current
        BY <1>0, <1>8, <1>9 DEF n
    <2>2. requests'[t] = requests[t] /\ requests[t] \in DOMAIN link
        BY <1>8, <1>9, <2>1 DEF LinkTypes
    <2>3. late[t] = 1 /\ Len(link[requests[t]].buf) <= 1
        BY <1>9, <2>1, <2>2 DEF Kept
    <2> QED
        BY <1>1, <1>4, <1>7, <2>2, <2>3
<1>10. ASSUME NEW k \in DOMAIN link', NEW l \in DOMAIN link',
              InUse(k)', link'[k].ended, InUse(l)', link'[l].ended,
              link'[k].owner = link'[l].owner
       PROVE  k = l
    <2>1. k \in DOMAIN link /\ l \in DOMAIN link
        BY <1>6, <1>7, <1>10
    <2>2. /\ link[k].owner = link[l].owner /\ InUse(k) /\ InUse(l)
          /\ link[k].ended \/ k = requests[current]
          /\ link[l].ended \/ l = requests[current]
        <3>1. \A i \in {k, l} :
                /\ link'[i].owner = link[i].owner /\ link'[i].state = link[i].state
                /\ link'[i].ended = (link[i].ended \/ i = requests[current])
            BY ONLY <1>4, <1>7, <2>1
        <3> QED
            BY ONLY <1>10, <3>1 DEF InUse
    <2>3. requests[current] \in DOMAIN link => link[requests[current]].owner = current
        BY <1>0 DEF Linked
    <2>4. /\ link[k].ended => link[k].owner # current
          /\ link[l].ended => link[l].owner # current
        BY <1>0, <2>1 DEF Linked
    <2> QED
        BY <2>1, <2>2, <2>3, <2>4 DEF Kept
<1> QED
    BY <1>1, <1>9, <1>10 DEF Kept

LEMMA KeptStep ==
    ASSUME LinkTypes, SenderTypes, Replaced, Linked, Kept, [Next]_vars
    PROVE  Kept'
<1>0. current \in Nat /\ current \in Senders /\ Senders \subseteq Nat
    BY DEF SenderTypes, Senders
<1>t. LinkTypes /\ SenderTypes /\ Replaced /\ Linked /\ Kept
    OBVIOUS
<1>r. \A k \in DOMAIN link : link[k] \in Links
    BY DEF LinkTypes
\* The present sender writes to its link, or opens one.
<1>1. ASSUME NEW c \in 1..MaxChunks, Send(current, c), UNCHANGED current
      PROVE  Kept'
    <2>0. late' = late
        <3>1. late' = [late EXCEPT ![current] = IF current # current THEN @ + 1 ELSE @]
            BY <1>0, <1>1, SendCases
        <3> QED
            BY <3>1 DEF SenderTypes
    <2>1. CASE UNCHANGED <<link, requests>>
        BY <1>1, <2>0, <2>1, KeptSame DEF InUse
    <2>2. CASE requests[current] \in DOMAIN link /\ link' = Put(requests[current], c) /\ UNCHANGED requests
        <3> DEFINE q == requests[current]
        <3>1. q \in DOMAIN link /\ link \in Seq(Links) /\ link' = Put(q, c) /\ q # 0
            BY <2>2 DEF LinkTypes
        <3>2. link[q].owner = current
            BY <1>0, <3>1 DEF Linked
        <3> HIDE DEF q
        <3>3. /\ DOMAIN link' = DOMAIN link
              /\ link'[q] = [link[q] EXCEPT !.buf = Append(@, c)]
              /\ \A k \in DOMAIN link : k # q => link'[k] = link[k]
            <4>1. /\ DOMAIN Put(q, c) = DOMAIN link
                  /\ Put(q, c)[q] = [link[q] EXCEPT !.buf = Append(@, c)]
                  /\ \A k \in DOMAIN link : k # q => Put(q, c)[k] = link[k]
                BY ONLY <3>1, c \in 1..MaxChunks, PutFacts, Zenon
            <4> QED
                BY ONLY <3>1, <4>1, Zenon
        <3>4. \A k \in DOMAIN link :
                /\ link'[k].owner = link[k].owner /\ link'[k].ended = link[k].ended
                /\ link'[k].state = link[k].state
            <4>1. link[q] \in Links
                BY <1>r, <3>1
            <4>2. /\ link'[q].owner = link[q].owner /\ link'[q].ended = link[q].ended
                  /\ link'[q].state = link[q].state
                BY ONLY <3>3, <4>1 DEF Links
            <4> QED
                BY ONLY <3>3, <4>2
        <3>5. \A k \in DOMAIN link :
                Len(link'[k].buf) = Len(link[k].buf) \/ link[k].owner = current
            BY <3>2, <3>3
        <3> QED
            BY <1>1, <2>0, <2>2, <3>3, <3>4, <3>5, KeptSame DEF InUse
    <2>3. CASE requests[current] = 0 /\ Opened(current, <<c>>)
        <3>1. <<c>> \in Seq(1..MaxChunks)
            OBVIOUS
        <3> QED
            BY <1>0, <1>1, <2>0, <2>3, <3>1, KeptOpen
    <2> QED
        BY <1>0, <1>1, <2>1, <2>2, <2>3, SendCases
<1>2. CASE Submit
    <2>1. chunk + 1 \in 1..MaxChunks /\ UNCHANGED current
        BY <1>2, SentChunk DEF Submit
    <2>2. CASE Send(current, chunk + 1)
        BY <1>1, <2>1, <2>2
    <2>3. CASE UNCHANGED <<link, requests, late>>
        BY <2>1, <2>3, KeptSame DEF InUse
    <2> QED
        BY <1>2, <2>2, <2>3 DEF Submit
\* A former sender has no link when its delay ends.
<1>3. ASSUME NEW s \in Senders, Drain(s) PROVE Kept'
    <2>1. /\ pending[s] \in 1..MaxChunks /\ Send(s, pending[s])
          /\ UNCHANGED current /\ drain[s] = "delay"
        BY <1>3, SentChunk DEF Drain
    <2>2. s <= current /\ late[s] = 0
        BY <1>0, <2>1 DEF Replaced
    <2>3. CASE s = current
        BY <1>1, <2>1, <2>3
    <2>4. CASE s # current
        <3>1. s < current
            BY <1>0, <2>2, <2>4
        <3>2. requests[s] = 0
            BY <2>2, <3>1 DEF Kept
        <3>3. /\ late'[s] = 1 /\ \A t \in Senders : t # s => late'[t] = late[t]
            <4>1. late' = [late EXCEPT ![s] = IF s # current THEN @ + 1 ELSE @]
                BY <2>1, SendCases
            <4> QED
                BY <2>2, <2>4, <4>1 DEF SenderTypes
        <3>4. CASE UNCHANGED <<link, requests>>
            <4>1. \A t \in Senders : requests[t] # 0 => t # s
                BY <3>2
            <4> QED
                BY <2>1, <3>3, <3>4, <4>1 DEF Kept, InUse
        <3>5. CASE Opened(s, <<pending[s]>>)
            <4>1. <<pending[s]>> \in Seq(1..MaxChunks) /\ Len(<<pending[s]>>) <= 1
                BY <2>1
            <4> QED
                BY ONLY <1>0, <1>t, <2>1, <3>3, <3>5, <4>1, s \in Senders, KeptOpen
        <3>6. requests[s] \notin DOMAIN link
            BY <3>2 DEF LinkTypes
        <3> QED
            BY <2>1, <3>4, <3>5, <3>6, SendCases
    <2> QED
        BY <2>3, <2>4
<1>4. ASSUME NEW s \in Senders, IntervalPasses(s) \/ CloseChannel(s) \/ CloseFinish(s)
      PROVE  Kept'
    BY <1>4, KeptSame
    DEF IntervalPasses, CloseChannel, CloseFinish, InUse, senderVars, clientVars, history
<1>5. ASSUME NEW s \in Senders, Reconnect(s) PROVE Kept'
    <2>1. <<>> \in Seq(1..MaxChunks) /\ Opened(s, <<>>) /\ UNCHANGED <<current, late>>
        BY <1>5 DEF Reconnect, Opened, senderVars, history
    <2>2. s = current
        BY <1>5 DEF Reconnect, Linked
    <2> QED
        BY ONLY <1>0, <1>t, <2>1, <2>2, s \in Senders, KeptOpen
<1>6. CASE Connect \/ Disconnect
    BY <1>6, KeptReplace
<1>7. ASSUME NEW l \in DOMAIN link, LinkUp(l) PROVE Kept'
    <2>1. \A k \in DOMAIN link :
            /\ link'[k].owner = link[k].owner /\ link'[k].ended = link[k].ended
            /\ InUse(k)' => InUse(k) /\ link'[k].buf = link[k].buf
        <3>1. link[l].state = "connecting" /\ link'[l] = [link[l] EXCEPT !.state = "open"]
              /\ \A k \in DOMAIN link : k # l => link'[k] = link[k]
            BY <1>7, UpFacts
        <3>2. /\ link'[l].owner = link[l].owner /\ link'[l].ended = link[l].ended
              /\ link'[l].buf = link[l].buf
            BY <1>r, <3>1 DEF Links
        <3> QED
            BY <3>1, <3>2 DEF InUse
    <2>2. \A k \in DOMAIN link : link'[k].buf = link[k].buf
        <3>1. link'[l] = [link[l] EXCEPT !.state = "open"]
              /\ \A k \in DOMAIN link : k # l => link'[k] = link[k]
            BY <1>7, UpFacts
        <3>2. link'[l].buf = link[l].buf
            BY <1>r, <3>1 DEF Links
        <3> QED
            BY <3>1, <3>2
    <2>3. DOMAIN link' = DOMAIN link /\ UNCHANGED <<requests, current, late>>
        BY <1>7, UpFacts DEF LinkUp, senderVars, clientVars, history
    <2> QED
        BY <2>1, <2>2, <2>3, KeptSame
<1>8. ASSUME NEW l \in DOMAIN link, LinkDown(l) PROVE Kept'
    <2>1. \A k \in DOMAIN link :
            /\ link'[k].owner = link[k].owner /\ link'[k].ended = link[k].ended
            /\ InUse(k)' => InUse(k)
            /\ link'[k].buf = link[k].buf \/ Len(link'[k].buf) <= 1
        BY <1>8, DownFacts DEF InUse
    <2>2. DOMAIN link' = DOMAIN link /\ UNCHANGED <<current, late>>
        BY <1>8, DownFacts DEF LinkDown, senderVars
    <2>3. \A s \in Senders : requests'[s] \in {0, requests[s]}
        BY <1>8 DEF LinkDown, LinkTypes
    <2> QED
        BY <2>1, <2>2, <2>3, KeptSame
<1>9. ASSUME NEW l \in DOMAIN link, PiReads(l) PROVE Kept'
    <2>1. /\ link[l].state = "open" /\ link'[l] = [link[l] EXCEPT !.buf = Tail(@)]
          /\ link[l].buf \in Seq(1..MaxChunks) /\ link[l].buf # <<>>
          /\ \A k \in DOMAIN link : k # l => link'[k] = link[k]
          /\ DOMAIN link' = DOMAIN link /\ UNCHANGED <<requests, current, late>>
        BY <1>9, ReadFacts DEF PiReads, senderVars, clientVars, history
    <2>2. /\ link'[l].owner = link[l].owner /\ link'[l].ended = link[l].ended
          /\ link'[l].state = link[l].state /\ link'[l].buf = Tail(link[l].buf)
        BY <1>r, <2>1 DEF Links
    <2>3. Len(link'[l].buf) <= Len(link[l].buf)
        BY <2>1, <2>2
    <2>4. \A s \in Senders : requests[s] # 0 => requests[s] \in DOMAIN link
        BY DEF LinkTypes
    <2>5. ASSUME NEW s \in Senders, s < current, requests[s] # 0
          PROVE  late[s] = 1 /\ Len(link'[requests[s]].buf) <= 1
        <3>1. late[s] = 1 /\ Len(link[requests[s]].buf) <= 1 /\ requests[s] \in DOMAIN link
            BY <2>4, <2>5 DEF Kept
        <3>2. CASE requests[s] = l
            <4>1. Len(link'[l].buf) \in Nat /\ Len(link[l].buf) \in Nat
                BY <2>1, <2>2
            <4> QED
                BY <2>3, <3>1, <3>2, <4>1
        <3> QED
            BY <2>1, <3>1, <3>2
    <2>6. \A k \in DOMAIN link :
            /\ link'[k].owner = link[k].owner /\ link'[k].ended = link[k].ended
            /\ InUse(k)' => InUse(k)
        BY <2>1, <2>2 DEF InUse
    <2> QED
        BY <2>1, <2>5, <2>6 DEF Kept
<1>10. CASE UNCHANGED vars
    BY <1>10, KeptSame DEF vars, InUse, senderVars, clientVars, history
<1> QED
    BY <1>2, <1>3, <1>4, <1>5, <1>6, <1>7, <1>8, <1>9, <1>10 DEF Next

-----------------------------------------------------------------------------
(* Order of the chunks.                                                     *)

\* A step that leaves what is buffered alone and lets no more senders count.
LEMMA OrderQuiet ==
    ASSUME InOrder, LinkTypes, SenderTypes, DOMAIN link' = DOMAIN link,
           \A k \in DOMAIN link :
               /\ link'[k].owner = link[k].owner /\ link'[k].buf = link[k].buf
               /\ InUse(k)' => InUse(k),
           UNCHANGED <<chunk, pending, drain, heard>>, caught \subseteq caught'
    PROVE  InOrder'
BY DEF InOrder, SenderInOrder, InUse

\* The chunk a sender gives its client is newer than all it has sent.
LEMMA OrderSend ==
    ASSUME InOrder, LinkTypes, SenderTypes, Linked, NEW s \in Senders, NEW c \in 1..MaxChunks,
           Send(s, c), c <= chunk', chunk <= chunk', chunk' \in Nat, heard[s] < c,
           \A l \in DOMAIN link : link[l].owner = s => \A i \in DOMAIN link[l].buf : link[l].buf[i] < c,
           drain'[s] = "idle", pending'[s] <= chunk',
           \A t \in Senders : t # s => drain'[t] = drain[t] /\ pending'[t] = pending[t],
           UNCHANGED <<heard, caught>>
    PROVE  InOrder'
<1>0. /\ \A t \in Senders : heard[t] \in Nat /\ pending[t] \in Nat
      /\ chunk \in Nat /\ c \in Nat
    BY DEF SenderTypes
<1>1. \A k \in DOMAIN link :
        /\ link[k].owner \in Senders /\ link[k].buf \in Seq(1..MaxChunks)
    <2>1. \A k \in DOMAIN link : link[k] \in Links
        BY DEF LinkTypes
    <2> QED
        BY <2>1 DEF Links
<1>2. \A k \in DOMAIN link : \A i \in DOMAIN link[k].buf : link[k].buf[i] \in Nat
    <2>1. \A n \in 1..MaxChunks : n \in Nat
        BY SenderAssumption
    <2>2. ASSUME NEW k \in DOMAIN link, NEW i \in DOMAIN link[k].buf
          PROVE  link[k].buf[i] \in 1..MaxChunks
        <3>1. link[k].buf \in Seq(1..MaxChunks)
            BY <1>1
        <3> QED
            BY ONLY <3>1, i \in DOMAIN link[k].buf, Element
    <2> QED
        BY <2>1, <2>2
<1>3. \A t \in Senders :
        /\ heard'[t] <= chunk' /\ pending'[t] <= chunk'
        /\ drain'[t] = "delay" => heard'[t] < pending'[t]
    BY <1>0 DEF InOrder
\* Links that keep their buffer.
<1>4. ASSUME NEW k \in DOMAIN link, link'[k] = link[k]
      PROVE  /\ \A i \in DOMAIN link'[k].buf :
                    /\ link'[k].buf[i] <= chunk'
                    /\ drain'[link'[k].owner] = "delay" => link'[k].buf[i] < pending'[link'[k].owner]
             /\ (link'[k].state \in {"connecting", "open"} /\ link'[k].owner \notin caught') =>
                    /\ \A i \in DOMAIN link'[k].buf : link'[k].buf[i] > heard'[link'[k].owner]
                    /\ \A i, j \in DOMAIN link'[k].buf : i < j => link'[k].buf[i] < link'[k].buf[j]
    <2>1. \A i \in DOMAIN link[k].buf : link[k].buf[i] <= chunk'
        BY <1>0, <1>2 DEF InOrder
    <2> QED
        BY <1>1, <1>4, <2>1 DEF InOrder, SenderInOrder, InUse
<1>5. CASE UNCHANGED <<link, requests>>
    BY <1>3, <1>4, <1>5 DEF InOrder, SenderInOrder, InUse
<1>6. CASE requests[s] \in DOMAIN link /\ link' = Put(requests[s], c) /\ UNCHANGED requests
    <2> DEFINE r == requests[s]
               b == link[r].buf
    <2>1. /\ DOMAIN link' = DOMAIN link /\ link'[r] = [link[r] EXCEPT !.buf = Append(@, c)]
          /\ \A k \in DOMAIN link : k # r => link'[k] = link[k]
        BY <1>6, PutFacts DEF LinkTypes
    <2>2. link[r] \in Links
        BY <1>6 DEF LinkTypes
    <2>3. r # 0
        BY <1>6 DEF LinkTypes
    <2>4. /\ link'[r].buf = Append(b, c) /\ link'[r].state = link[r].state
          /\ link'[r].owner = s /\ link[r].owner = s
        BY <2>1, <2>2, <2>3 DEF Links, Linked
    <2> HIDE DEF r, b
    <2>5. /\ DOMAIN Append(b, c) = 1..(Len(b) + 1) /\ DOMAIN b = 1..Len(b) /\ Len(b) \in Nat
          /\ \A i \in DOMAIN b : Append(b, c)[i] = b[i]
          /\ Append(b, c)[Len(b) + 1] = c
        BY <1>1, <1>6, AppendType DEF b, r
    <2>6. \A i \in DOMAIN b : b[i] < c /\ b[i] <= chunk' /\ b[i] \in Nat
        BY <1>0, <1>2, <1>6, <2>4 DEF b, r, InOrder
    <2>7. \A i \in DOMAIN link'[r].buf : link'[r].buf[i] <= chunk'
        BY <2>4, <2>5, <2>6
    <2>8. ASSUME link'[r].state \in {"connecting", "open"}, s \notin caught'
          PROVE  /\ \A i \in DOMAIN link'[r].buf : link'[r].buf[i] > heard'[s]
                 /\ \A i, j \in DOMAIN link'[r].buf : i < j => link'[r].buf[i] < link'[r].buf[j]
        <3>1. /\ \A i \in DOMAIN b : b[i] > heard[s]
              /\ \A i, j \in DOMAIN b : i < j => b[i] < b[j]
            BY <1>6, <2>4, <2>8 DEF InOrder, SenderInOrder, InUse, b, r
        <3>2. c > heard[s]
            BY <1>0
        <3> QED
            BY <2>4, <2>5, <2>6, <3>1, <3>2
    <2>9. ASSUME NEW k \in DOMAIN link'
          PROVE  /\ \A i \in DOMAIN link'[k].buf :
                        /\ link'[k].buf[i] <= chunk'
                        /\ drain'[link'[k].owner] = "delay" => link'[k].buf[i] < pending'[link'[k].owner]
                 /\ (link'[k].state \in {"connecting", "open"} /\ link'[k].owner \notin caught') =>
                        /\ \A i \in DOMAIN link'[k].buf : link'[k].buf[i] > heard'[link'[k].owner]
                        /\ \A i, j \in DOMAIN link'[k].buf : i < j => link'[k].buf[i] < link'[k].buf[j]
        <3>1. CASE k = r
            BY <2>4, <2>7, <2>8, <3>1
        <3>2. CASE k # r
            BY ONLY <1>4, <2>1, <3>2, k \in DOMAIN link'
        <3> QED
            BY <3>1, <3>2
    <2> QED
        BY ONLY <1>3, <2>9 DEF InOrder, SenderInOrder, InUse
<1>7. CASE Opened(s, <<c>>)
    <2> DEFINE n == Len(link) + 1
    <2>0. <<c>> \in Seq(1..MaxChunks)
        OBVIOUS
    <2>1. /\ DOMAIN link' = DOMAIN link \cup {n} /\ link'[n] = NewLink(s, <<c>>)
          /\ \A k \in DOMAIN link : link'[k] = link[k]
        BY ONLY <1>7, <2>0, LinkTypes, NewLinkType, AppendFacts, s \in Senders DEF Opened, LinkTypes
    <2> HIDE DEF n
    <2>2. link'[n].owner = s /\ link'[n].buf = <<c>>
        BY <2>1 DEF NewLink
    <2>3. DOMAIN link'[n].buf = {1} /\ link'[n].buf[1] = c
        BY <2>2
    <2>4. c > heard[s]
        BY <1>0
    <2> QED
        BY <1>3, <1>4, <2>1, <2>2, <2>3, <2>4 DEF InOrder, SenderInOrder, InUse
<1> QED
    BY <1>5, <1>6, <1>7, SendCases

LEMMA OrderStep ==
    ASSUME LinkTypes, SenderTypes, Replaced, Linked, InOrder, [Next]_vars
    PROVE  InOrder'
<1>t. LinkTypes /\ SenderTypes /\ Linked /\ InOrder
    OBVIOUS
<1>0. /\ \A t \in Senders : heard[t] \in Nat /\ pending[t] \in Nat
      /\ chunk \in Nat /\ current \in Senders
    BY DEF SenderTypes
<1>1. \A k \in DOMAIN link :
        /\ link[k] \in Links /\ link[k].owner \in Senders /\ link[k].buf \in Seq(1..MaxChunks)
        /\ \A i \in DOMAIN link[k].buf : link[k].buf[i] \in Nat
    <2>1. \A k \in DOMAIN link : link[k] \in Links
        BY DEF LinkTypes
    <2>2. \A k \in DOMAIN link : link[k].owner \in Senders /\ link[k].buf \in Seq(1..MaxChunks)
        BY <2>1 DEF Links
    <2>3. \A n \in 1..MaxChunks : n \in Nat
        BY SenderAssumption
    <2>4. ASSUME NEW k \in DOMAIN link, NEW i \in DOMAIN link[k].buf
          PROVE  link[k].buf[i] \in 1..MaxChunks
        <3>1. link[k].buf \in Seq(1..MaxChunks)
            BY <2>2
        <3> QED
            BY ONLY <3>1, i \in DOMAIN link[k].buf, Element
    <2> QED
        BY <2>1, <2>2, <2>3, <2>4
<1>2. CASE Submit
    <2>1. /\ chunk + 1 \in 1..MaxChunks /\ chunk' = chunk + 1 /\ chunk' \in Nat
          /\ UNCHANGED <<heard, caught>>
        BY <1>2, <1>0, SentChunk DEF Submit
    <2>2. \A k \in DOMAIN link : \A i \in DOMAIN link[k].buf : link[k].buf[i] < chunk + 1
        BY <1>0, <1>1 DEF InOrder
    <2>3. \A t \in Senders : heard[t] < chunk + 1 /\ pending[t] <= chunk + 1
        BY <1>0 DEF InOrder
    <2>4. CASE /\ Send(current, chunk + 1) /\ drain[current] = "idle"
               /\ UNCHANGED <<pending, drain>>
        <3>1. /\ drain'[current] = "idle" /\ pending'[current] <= chunk'
              /\ \A t \in Senders : t # current => drain'[t] = drain[t] /\ pending'[t] = pending[t]
              /\ chunk + 1 <= chunk' /\ chunk <= chunk'
            BY <1>0, <2>1, <2>3, <2>4
        <3> QED
            BY ONLY <1>0, <1>t, <2>1, <2>2, <2>3, <2>4, <3>1, OrderSend
    <2>5. CASE /\ pending' = [pending EXCEPT ![current] = chunk + 1]
               /\ drain' = [drain EXCEPT ![current] = "delay"]
               /\ UNCHANGED link
        <3>1. /\ pending'[current] = chunk + 1
              /\ \A t \in Senders : t # current => drain'[t] = drain[t] /\ pending'[t] = pending[t]
            BY <1>0, <2>5 DEF SenderTypes
        <3>2. \A t \in Senders :
                /\ heard'[t] <= chunk' /\ pending'[t] <= chunk'
                /\ drain'[t] = "delay" => heard'[t] < pending'[t]
            BY <1>0, <2>1, <2>3, <3>1 DEF InOrder
        <3>3. ASSUME NEW k \in DOMAIN link, NEW i \in DOMAIN link[k].buf
              PROVE  /\ link[k].buf[i] <= chunk'
                     /\ drain'[link[k].owner] = "delay" => link[k].buf[i] < pending'[link[k].owner]
            <4>1. link[k].buf[i] < chunk + 1 /\ link[k].buf[i] <= chunk'
                BY <1>0, <1>1, <2>1, <2>2
            <4>2. CASE link[k].owner = current
                BY <3>1, <4>1, <4>2
            <4>3. CASE link[k].owner # current
                BY <1>1, <3>1, <4>1, <4>3 DEF InOrder
            <4> QED
                BY <4>2, <4>3
        <3>4. SenderInOrder'
            BY <2>1, <2>5 DEF InOrder, SenderInOrder, InUse
        <3> QED
            BY <2>5, <3>2, <3>3, <3>4 DEF InOrder
    <2> QED
        BY <1>2, <2>4, <2>5 DEF Submit
<1>3. ASSUME NEW s \in Senders, Drain(s) PROVE InOrder'
    <2>1. /\ drain[s] = "delay" /\ Send(s, pending[s]) /\ pending[s] \in 1..MaxChunks
          /\ pending' = [pending EXCEPT ![s] = 0] /\ drain' = [drain EXCEPT ![s] = "idle"]
          /\ UNCHANGED <<chunk, heard, caught>>
        BY <1>3, SentChunk DEF Drain
    <2>2. /\ drain'[s] = "idle" /\ pending'[s] = 0 /\ pending'[s] <= chunk'
          /\ \A t \in Senders : t # s => drain'[t] = drain[t] /\ pending'[t] = pending[t]
        BY <1>0, <2>1 DEF SenderTypes
    <2>3. /\ heard[s] < pending[s] /\ pending[s] <= chunk' /\ chunk <= chunk' /\ chunk' \in Nat
          /\ \A l \in DOMAIN link : link[l].owner = s =>
                \A i \in DOMAIN link[l].buf : link[l].buf[i] < pending[s]
        BY <1>0, <2>1 DEF InOrder
    <2> QED
        BY ONLY <1>t, <2>1, <2>2, <2>3, s \in Senders, OrderSend
<1>4. ASSUME NEW s \in Senders, IntervalPasses(s) \/ CloseChannel(s) \/ CloseFinish(s)
      PROVE  InOrder'
    BY <1>4, OrderQuiet
    DEF IntervalPasses, CloseChannel, CloseFinish, InUse, senderVars, clientVars, history
<1>5. ASSUME NEW s \in Senders, NEW b, b = <<>>, Opened(s, b),
             UNCHANGED <<chunk, pending, drain, heard, caught>>
      PROVE  InOrder'
    <2> DEFINE n == Len(link) + 1
    <2>1. /\ DOMAIN link' = DOMAIN link \cup {n} /\ link'[n] = NewLink(s, b)
          /\ \A k \in DOMAIN link : link'[k] = link[k]
        <3>1. b \in Seq(1..MaxChunks)
            BY <1>5
        <3>2. NewLink(s, b) \in Links
            BY ONLY <3>1, NewLinkType, s \in Senders
        <3> QED
            BY ONLY <1>5, <1>t, <3>2, AppendFacts DEF Opened, LinkTypes
    <2>2. DOMAIN link'[n].buf = {}
        BY <1>5, <2>1 DEF NewLink
    <2> HIDE DEF n
    <2> QED
        BY <1>5, <2>1, <2>2 DEF InOrder, SenderInOrder, InUse
<1>6. ASSUME NEW s \in Senders, Reconnect(s) PROVE InOrder'
    BY <1>5, <1>6 DEF Reconnect, Opened, senderVars, history
<1>7. CASE Connect \/ Disconnect
    <2>1. PICK to \in {"pi", "log"} : Replace(to)
        BY <1>7 DEF Connect, Disconnect
    <2>2. UNCHANGED <<chunk, pending, drain, heard>> /\ caught \subseteq caught'
        BY <2>1 DEF Replace
    <2>3. /\ EndLink(current) \in Seq(Links) /\ DOMAIN EndLink(current) = DOMAIN link
          /\ \A k \in DOMAIN link :
                EndLink(current)[k] = IF k = requests[current] THEN [link[k] EXCEPT !.ended = TRUE]
                                      ELSE link[k]
        BY <1>0, EndFacts DEF LinkTypes
    <2>4. \A k \in DOMAIN link :
            /\ EndLink(current)[k].owner = link[k].owner
            /\ EndLink(current)[k].state = link[k].state
            /\ EndLink(current)[k].buf = link[k].buf
        BY <1>1, <2>3 DEF Links
    <2>5. CASE Disconnect
        BY <2>2, <2>3, <2>4, <2>5, OrderQuiet DEF Disconnect, InUse
    <2>6. CASE Connect
        <3> DEFINE n == current + 1
                   m == Len(EndLink(current)) + 1
        <3>1. n \in Senders /\ <<>> \in Seq(1..MaxChunks)
            BY <1>0, <2>6, SenderAssumption DEF Connect, Replace, Senders
        <3>2. /\ DOMAIN link' = DOMAIN link \cup {m} /\ link'[m] = NewLink(n, <<>>)
              /\ \A k \in DOMAIN link : link'[k] = EndLink(current)[k]
            <4>1. NewLink(n, <<>>) \in Links
                BY <3>1, NewLinkType
            <4>2. link' = Append(EndLink(current), NewLink(n, <<>>))
                BY <2>6 DEF Connect
            <4> QED
                BY ONLY <2>3, <4>1, <4>2, AppendFacts
        <3>3. DOMAIN link'[m].buf = {}
            BY <3>2 DEF NewLink
        <3> HIDE DEF n, m
        <3> QED
            BY <2>2, <2>4, <3>2, <3>3 DEF InOrder, SenderInOrder, InUse
    <2> QED
        BY <1>7, <2>5, <2>6
<1>8. ASSUME NEW l \in DOMAIN link, LinkUp(l) PROVE InOrder'
    <2>1. link'[l] = [link[l] EXCEPT !.state = "open"] /\ link[l].state = "connecting"
        BY <1>8, UpFacts
    <2>2. link'[l].owner = link[l].owner /\ link'[l].buf = link[l].buf
        BY <1>1, <2>1 DEF Links
    <2>3. /\ DOMAIN link' = DOMAIN link /\ \A k \in DOMAIN link : k # l => link'[k] = link[k]
          /\ UNCHANGED <<chunk, pending, drain, heard, caught>>
        BY <1>8, UpFacts DEF LinkUp, senderVars, history
    <2> QED
        BY <2>1, <2>2, <2>3, OrderQuiet DEF InUse
<1>9. ASSUME NEW l \in DOMAIN link, LinkDown(l) PROVE InOrder'
    <2>1. /\ DOMAIN link' = DOMAIN link /\ \A k \in DOMAIN link : k # l => link'[k] = link[k]
          /\ link'[l].owner = link[l].owner /\ link'[l].buf = <<>>
          /\ UNCHANGED <<chunk, pending, drain, heard, caught>>
        BY <1>9, DownFacts DEF LinkDown, senderVars
    <2>2. DOMAIN link'[l].buf = {}
        BY <2>1
    <2> QED
        BY <2>1, <2>2 DEF InOrder, SenderInOrder, InUse
<1>10. ASSUME NEW l \in DOMAIN link, PiReads(l) PROVE InOrder'
    <2> DEFINE s == link[l].owner
               b == link[l].buf
    <2>1. /\ DOMAIN link' = DOMAIN link /\ \A k \in DOMAIN link : k # l => link'[k] = link[k]
          /\ link[l].state = "open" /\ b \in Seq(1..MaxChunks) /\ b # <<>>
          /\ link'[l] = [link[l] EXCEPT !.buf = Tail(@)]
        BY <1>10, ReadFacts
    <2>2. link'[l].owner = s /\ link'[l].state = "open" /\ link'[l].buf = Tail(b) /\ s \in Senders
        BY <1>1, <2>1 DEF Links
    <2>3. /\ Head(b) = b[1] /\ 1 \in DOMAIN b /\ DOMAIN b \subseteq Nat \ {0}
          /\ \A i \in DOMAIN Tail(b) : i + 1 \in DOMAIN b /\ Tail(b)[i] = b[i + 1]
          /\ DOMAIN Tail(b) \subseteq Nat \ {0}
        BY ONLY <2>1, TailFacts
    <2>4. /\ heard' = [heard EXCEPT ![s] = Head(b)]
          /\ UNCHANGED <<chunk, pending, drain, caught>>
        BY <1>10 DEF PiReads, senderVars, history
    <2>5. heard'[s] = b[1] /\ \A t \in Senders : t # s => heard'[t] = heard[t]
        BY <2>2, <2>3, <2>4 DEF SenderTypes
    <2>6. \A i \in DOMAIN b :
            b[i] \in Nat /\ b[i] <= chunk /\ (drain[s] = "delay" => b[i] < pending[s])
        BY <1>1 DEF InOrder
    <2> HIDE DEF s, b
    <2>7. \A t \in Senders :
            /\ heard'[t] <= chunk' /\ pending'[t] <= chunk'
            /\ drain'[t] = "delay" => heard'[t] < pending'[t]
        BY <2>3, <2>4, <2>5, <2>6 DEF InOrder
    <2>8. \A k \in DOMAIN link' : \A i \in DOMAIN link'[k].buf :
            /\ link'[k].buf[i] <= chunk'
            /\ drain'[link'[k].owner] = "delay" => link'[k].buf[i] < pending'[link'[k].owner]
        <3>1. \A i \in DOMAIN link'[l].buf :
                /\ link'[l].buf[i] <= chunk'
                /\ drain'[link'[l].owner] = "delay" => link'[l].buf[i] < pending'[link'[l].owner]
            BY <2>2, <2>3, <2>4, <2>6
        <3> QED
            BY <2>1, <2>4, <3>1 DEF InOrder
    <2>9. ASSUME NEW k \in DOMAIN link, InUse(k)', link'[k].owner \notin caught'
          PROVE  /\ \A i \in DOMAIN link'[k].buf : link'[k].buf[i] > heard'[link'[k].owner]
                 /\ \A i, j \in DOMAIN link'[k].buf : i < j => link'[k].buf[i] < link'[k].buf[j]
        <3>1. CASE k # l
            <4>1. link'[k] = link[k] /\ InUse(k) /\ InUse(l) /\ link[k].owner \notin caught
                BY <2>1, <2>4, <2>9, <3>1 DEF InUse
            <4>2. link[k].owner # s
                BY <3>1, <4>1 DEF Linked, s
            <4>3. /\ \A i \in DOMAIN link[k].buf : link[k].buf[i] > heard[link[k].owner]
                  /\ \A i, j \in DOMAIN link[k].buf : i < j => link[k].buf[i] < link[k].buf[j]
                BY <4>1 DEF InOrder, SenderInOrder, InUse
            <4>4. heard'[link[k].owner] = heard[link[k].owner]
                BY <1>1, <2>5, <4>2
            <4> QED
                BY ONLY <4>1, <4>3, <4>4
        <3>2. CASE k = l
            <4>1. s \notin caught /\ \A i, j \in DOMAIN b : i < j => b[i] < b[j]
                BY <2>1, <2>2, <2>4, <2>9, <3>2 DEF InOrder, SenderInOrder, InUse, s, b
            <4>2. ASSUME NEW i \in DOMAIN Tail(b)
                  PROVE  Tail(b)[i] > b[1]
                <5>1. i + 1 \in DOMAIN b /\ 1 < i + 1 /\ Tail(b)[i] = b[i + 1]
                    BY <2>3
                <5> QED
                    BY <2>3, <2>6, <4>1, <5>1
            <4>3. ASSUME NEW i \in DOMAIN Tail(b), NEW j \in DOMAIN Tail(b), i < j
                  PROVE  Tail(b)[i] < Tail(b)[j]
                <5>1. i + 1 \in DOMAIN b /\ j + 1 \in DOMAIN b /\ i + 1 < j + 1
                    BY <2>3, <4>3
                <5> QED
                    BY <2>3, <4>1, <5>1
            <4> QED
                BY <2>2, <2>5, <3>2, <4>2, <4>3
        <3> QED
            BY <3>1, <3>2
    <2>10. SenderInOrder'
        BY <2>1, <2>9 DEF SenderInOrder, InUse
    <2> QED
        BY <2>7, <2>8, <2>10 DEF InOrder
<1>11. CASE UNCHANGED vars
    BY <1>11, OrderQuiet DEF vars, InUse, senderVars, clientVars, history
<1> QED
    BY <1>2, <1>3, <1>4, <1>6, <1>7, <1>8, <1>9, <1>10, <1>11 DEF Next

-----------------------------------------------------------------------------
(* The theorems.                                                            *)

SenderInv == TypeOK /\ Replaced /\ Linked /\ Kept /\ InOrder

LEMMA SenderInit == Init => SenderInv
<1> SUFFICES ASSUME Init PROVE SenderInv
    OBVIOUS
<1>1. 1 \in Senders /\ 0 \in 0..MaxChunks /\ Senders \subseteq Nat \ {0} /\ MaxLinks \in Nat
    BY SenderAssumption DEF Senders
<1>2. link \in Seq(Links) /\ Len(link) = 0 /\ DOMAIN link = {}
    BY DEF Init
<1>3. TypeOK
    BY <1>1, <1>2 DEF Init, TypeOK
<1>4. Replaced
    BY <1>1 DEF Init, Replaced
<1>5. Linked /\ Kept /\ InOrder
    BY <1>1, <1>2 DEF Init, Linked, Kept, InOrder, SenderInOrder, InUse
<1> QED
    BY <1>3, <1>4, <1>5 DEF SenderInv

LEMMA SenderStep == SenderInv /\ [Next]_vars => SenderInv'
<1> SUFFICES ASSUME SenderInv, [Next]_vars PROVE SenderInv'
    OBVIOUS
<1>1. LinkTypes /\ SenderTypes /\ Replaced /\ Linked /\ Kept /\ InOrder
    BY Split DEF SenderInv
<1>2. LinkTypes' /\ SenderTypes'
    BY <1>1, LinkTypeStep, SenderTypeStep
<1>3. TypeOK'
    BY <1>2 DEF LinkTypes, SenderTypes, TypeOK
<1>4. Replaced' /\ Linked' /\ Kept' /\ InOrder'
    BY <1>1, ReplacedStep, LinkedStep, KeptStep, OrderStep
<1> QED
    BY <1>3, <1>4 DEF SenderInv

LEMMA SenderInvariant == Spec => []SenderInv
BY SenderInit, SenderStep, PTL DEF Spec

\* The variables keep their types; in particular no sender gives its client more
\* chunks than there are after it was replaced.
THEOREM SenderTypesHold == Spec => []TypeOK
BY SenderInvariant, PTL DEF SenderInv

\* After a connect or disconnect the former sender gives its client at most the
\* chunk that was waiting, however many links there are and whenever they fail.
THEOREM FormerSenderSendsOnce == Spec => []OneLateChunk
<1>1. SenderInv => OneLateChunk
    BY DEF SenderInv, Replaced, OneLateChunk
<1> QED
    BY <1>1, SenderInvariant, PTL

\* Of the links of a replaced sender at most one that is connecting or open is the
\* one close() ended, and at most one more is there, without end: one that send() of a
\* caught phone drain opened anew, with at most its one late chunk; none of the web app.
THEOREM FormerLinkIsEnded == Spec => []OldLinkEnded
<1>1. SenderInv => OldLinkEnded
    <2> SUFFICES ASSUME SenderInv, NEW l \in DOMAIN link, InUse(l), link[l].owner # current
                 PROVE  /\ \A k \in DOMAIN link :
                             (/\ InUse(k) /\ link[k].owner = link[l].owner
                              /\ link[k].ended = link[l].ended) => k = l
                        /\ ~link[l].ended =>
                             /\ app = "phone" /\ link[l].owner \in caught
                             /\ late[link[l].owner] = 1 /\ Len(link[l].buf) <= 1
        BY DEF OldLinkEnded
    <2>1. link[l] \in Links /\ l # 0 /\ current \in Nat /\ Senders \subseteq Nat
        BY DEF SenderInv, TypeOK, Senders
    <2>2. link[l].owner \in Senders /\ link[l].owner <= current
        BY <2>1 DEF SenderInv, Linked, Links
    <2>3. link[l].owner < current
        <3>1. link[l].owner \in Nat /\ link[l].owner # current
            BY <2>1, <2>2
        <3> QED
            BY ONLY <2>1, <2>2, <3>1
    <2>4. CASE link[l].ended
        BY <2>4 DEF SenderInv, Kept
    <2>5. CASE ~link[l].ended
        <3>1. \A k \in DOMAIN link :
                (InUse(k) /\ link[k].owner = link[l].owner /\ link[k].ended = link[l].ended)
                    => requests[link[l].owner] = k
            BY <2>5 DEF SenderInv, Linked, Live
        <3>2. requests[link[l].owner] = l
            BY <3>1
        <3>3. app = "phone" /\ link[l].owner \in caught
            BY <2>5 DEF SenderInv, Linked, Live
        <3>4. late[link[l].owner] = 1 /\ Len(link[l].buf) <= 1
            BY <2>1, <2>2, <2>3, <3>2 DEF SenderInv, Kept
        <3> QED
            BY <3>1, <3>2, <3>3, <3>4
    <2> QED
        BY <2>4, <2>5
<1> QED
    BY <1>1, SenderInvariant, PTL

\* The Pi reads the chunks of a sender that was not caught in the order in which
\* they were submitted, over any number of links that fail and reopen, if nothing of a
\* link is read after it failed.
THEOREM ChunksArriveInOrder == Spec => []SenderInOrder
<1>1. SenderInv => SenderInOrder
    BY DEF SenderInv, InOrder
<1> QED
    BY <1>1, SenderInvariant, PTL

=============================================================================
