------------------------ MODULE RequestHandlerProofs ------------------------
(***************************************************************************)
(* Proofs about RequestHandler, for any number of requests, any ports and  *)
(* any size of the descriptor table: its invariants, and that it           *)
(* implements RequestReply.                                                *)
(*                                                                         *)
(* Everything rests on one observation: a request is told from the others  *)
(* by its place in the order of arrival, so what is in flight, was sent or *)
(* was published belongs to a request that was already taken from the      *)
(* inbox, and to an EARLIER one than the request served as long as that    *)
(* one has not been sent, or published, itself.                            *)
(***************************************************************************)
EXTENDS RequestHandler, SequenceTheorems, TLAPS

\* How many requests were taken from the inbox: the id of the last of them.
served == arrived - Len(inbox)

\* Where the request that is served has not been sent, or has no answer, or
\* has not been published.
Unsent == {"socket", "lookup", "sendto"}
Unanswered == Unsent \cup {"recvfrom"}
Unpublished == Unanswered \cup {"close", "connect", "publish"}

\* The inbox holds the requests that arrived last, in order.
InboxInOrder ==
  /\ Len(inbox) <= arrived
  /\ \A j \in 1 .. Len(inbox) : inbox[j].id = served + j

\* The request served is the last one taken from the inbox.
ServesTheLast ==
  IF pc = "idle" THEN req = NoRequest
                 ELSE req.id = served /\ served \in 1 .. MaxRequests

\* sockfd accounts for every descriptor that no failed lookup has lost.
SocketsCounted ==
  /\ reqFds = leaks + (IF port = NoSocket THEN 0 ELSE 1)
  /\ pc \in {"lookup", "sendto"} => port \in {NoSocket, Unbound}
  /\ pc = "recvfrom" => port \in Ports /\ portOf[req.id] = port
  /\ pc \notin {"lookup", "sendto", "recvfrom", "close"} => port = NoSocket

\* The publishing client lives from Connect to Disconnect.
LinkCounted ==
  /\ pubFds = IF link = "up" THEN 1 ELSE 0
  /\ link = "none" <=> pc \notin {"publish", "wait", "disconnect"}
  /\ reqFds + pubFds + others <= MaxFd

\* Only requests that were taken have been sent.
SentSoFar ==
  \A i \in 1 .. Len(sent) :
    sent[i] \in 1 .. served /\ (pc \in Unsent => sent[i] < req.id)

\* A datagram belongs to a request that was sent, and to its port.
DatagramsKnown ==
  \A d \in udp :
    /\ d.id \in 1 .. served /\ d.port = portOf[d.id]
    /\ pc \in Unsent => d.id < req.id

\* The response is the device's answer to this request, or to an earlier one
\* sent from the same port.
ResponseKnown ==
  /\ pc \in Unanswered => response = NoAnswer
  /\ pc \in Unpublished =>
       \/ response \in {NoAnswer, req.id}
       \/ /\ response \in 1 .. (req.id - 1)
          /\ portOf[response] = portOf[req.id]

\* Only requests that were taken have been replied to.
RepliesSoFar ==
  \A i \in 1 .. Len(replies) :
    /\ replies[i].id \in 1 .. served /\ replies[i].answer \in 0 .. replies[i].id
    /\ pc \in Unpublished => replies[i].id < req.id

IInv ==
  /\ TypeOK /\ InboxInOrder /\ ServesTheLast
  /\ SocketsCounted /\ LinkCounted
  /\ SentSoFar /\ SentOnceInOrder
  /\ DatagramsKnown /\ ResponseKnown
  /\ RepliesSoFar /\ AnswerIsOwn /\ NoneForgotten

USE HandlerAssumption DEF Step, Unsent, Unanswered, Unpublished, served, NoAnswer,
    NoRequest, msgVars, sockVars, pubVars

-----------------------------------------------------------------------------
(***************************************************************************)
(* Initially.                                                              *)
(***************************************************************************)

LEMMA InitInv == Init => IInv
<1> SUFFICES ASSUME Init PROVE IInv
  OBVIOUS
<1>1. TypeOK
  <2>1. inbox \in Seq(Requests) /\ sent \in Seq(Nat) /\ replies \in Seq([id : Nat, answer : Nat])
    BY EmptySeq DEF Init
  <2>2. others \in Nat /\ req \in Requests /\ portOf \in [1 .. MaxRequests -> Ports \cup {NoSocket}]
    BY DEF Init, Requests, Ops
  <2>3. running \in BOOLEAN /\ armed \in BOOLEAN /\ delivered \in BOOLEAN
    BY DEF Init
  <2>4. arrived \in 0 .. MaxRequests /\ udp \subseteq Datagrams
    BY DEF Init
  <2>5. QED BY <2>1, <2>2, <2>3, <2>4 DEF Init, TypeOK
<1>2. InboxInOrder /\ ServesTheLast /\ SocketsCounted /\ LinkCounted
  BY DEF Init, InboxInOrder, ServesTheLast, SocketsCounted, LinkCounted
<1>3. SentSoFar /\ SentOnceInOrder /\ DatagramsKnown /\ ResponseKnown
  BY DEF Init, SentSoFar, SentOnceInOrder, DatagramsKnown, ResponseKnown
<1>4. RepliesSoFar /\ AnswerIsOwn /\ NoneForgotten
  BY DEF Init, RepliesSoFar, AnswerIsOwn, NoneForgotten
<1>5. QED BY <1>1, <1>2, <1>3, <1>4 DEF IInv

-----------------------------------------------------------------------------
(***************************************************************************)
(* Taking a request.                                                       *)
(***************************************************************************)

\* The head of the inbox is the request that arrived after all that were
\* taken, and taking it leaves the rest in order.
LEMMA HeadIsNext ==
  ASSUME TypeOK, InboxInOrder, inbox # <<>>, inbox' = Tail(inbox), arrived' = arrived
  PROVE  /\ Head(inbox) \in Requests /\ Head(inbox).id = served + 1
         /\ inbox' \in Seq(Requests) /\ InboxInOrder'
         /\ served \in Nat /\ served' = served + 1 /\ served' \in 1 .. MaxRequests
<1>1. inbox \in Seq(Requests) /\ arrived \in 0 .. MaxRequests
  BY DEF TypeOK
<1>2. /\ Head(inbox) \in Requests
      /\ Tail(inbox) \in Seq(Requests) /\ Len(Tail(inbox)) = Len(inbox) - 1
      /\ \A j \in 1 .. Len(Tail(inbox)) : Tail(inbox)[j] = inbox[j + 1]
  BY <1>1, HeadTailProperties
<1>3. Len(inbox) \in Nat \ {0} /\ Head(inbox) = inbox[1]
  BY <1>1
<1>4. served \in Nat /\ served' = served + 1 /\ served' \in 1 .. MaxRequests
  BY <1>1, <1>2, <1>3 DEF InboxInOrder
<1>5. Head(inbox).id = served + 1
  BY <1>3 DEF InboxInOrder
<1>6. InboxInOrder'
  <2>1. Len(inbox') <= arrived'
    BY <1>1, <1>2, <1>3 DEF InboxInOrder
  <2>2. ASSUME NEW j \in 1 .. Len(inbox')
        PROVE  inbox'[j].id = served' + j
    <3>1. j + 1 \in 1 .. Len(inbox) /\ inbox'[j] = inbox[j + 1]
      BY <1>2, <1>3
    <3>2. inbox[j + 1].id = served + (j + 1)
      BY <3>1 DEF InboxInOrder
    <3>3. QED BY <1>4, <3>1, <3>2
  <2>3. QED BY <2>1, <2>2 DEF InboxInOrder
<1>7. QED BY <1>2, <1>4, <1>5, <1>6

LEMMA TakeRequestStep ==
  ASSUME IInv, TakeRequest
  PROVE  IInv'
<1>1. /\ req' \in Requests /\ req'.id = served + 1 /\ req'.id = served'
      /\ inbox' \in Seq(Requests) /\ InboxInOrder'
      /\ served \in Nat /\ served' = served + 1 /\ served' \in 1 .. MaxRequests
  BY HeadIsNext DEF IInv, TakeRequest
<1>2. TypeOK'
  BY <1>1 DEF IInv, TakeRequest, TypeOK, Requests
<1>3. ServesTheLast'
  BY <1>1 DEF TakeRequest, ServesTheLast
<1>4. SocketsCounted' /\ LinkCounted'
  BY DEF IInv, TakeRequest, SocketsCounted, LinkCounted
<1>5. SentSoFar' /\ SentOnceInOrder'
  <2>1. \A i \in 1 .. Len(sent) : sent[i] \in 1 .. served
    BY DEF IInv, SentSoFar
  <2>2. QED BY <1>1, <2>1 DEF IInv, TakeRequest, SentSoFar, SentOnceInOrder
<1>6. DatagramsKnown'
  <2>1. \A d \in udp : d.id \in 1 .. served /\ d.port = portOf[d.id]
    BY DEF IInv, DatagramsKnown
  <2>2. QED BY <1>1, <2>1 DEF TakeRequest, DatagramsKnown
<1>7. ResponseKnown'
  BY DEF TakeRequest, ResponseKnown
<1>8. RepliesSoFar'
  <2>1. \A i \in 1 .. Len(replies) :
          replies[i].id \in 1 .. served /\ replies[i].answer \in 0 .. replies[i].id
    BY DEF IInv, RepliesSoFar
  <2>2. QED BY <1>1, <2>1 DEF TakeRequest, RepliesSoFar
<1>9. AnswerIsOwn'
  BY DEF IInv, TakeRequest, AnswerIsOwn
<1>10. NoneForgotten'
  BY DEF IInv, TakeRequest, NoneForgotten
<1>11. QED
  BY <1>1, <1>2, <1>3, <1>4, <1>5, <1>6, <1>7, <1>8, <1>9, <1>10 DEF IInv

LEMMA DropRequestStep ==
  ASSUME IInv, DropRequest
  PROVE  IInv'
<1>1. /\ inbox' \in Seq(Requests) /\ InboxInOrder'
      /\ served \in Nat /\ served' = served + 1
  BY HeadIsNext DEF IInv, DropRequest
<1>2. TypeOK' /\ ServesTheLast' /\ SocketsCounted' /\ LinkCounted'
  BY <1>1 DEF IInv, DropRequest, TypeOK, ServesTheLast, SocketsCounted, LinkCounted
<1>3. SentSoFar' /\ SentOnceInOrder' /\ DatagramsKnown'
  <2>1. /\ \A i \in 1 .. Len(sent) : sent[i] \in 1 .. served
        /\ \A d \in udp : d.id \in 1 .. served /\ d.port = portOf[d.id]
    BY DEF IInv, SentSoFar, DatagramsKnown
  <2>2. QED
    BY <1>1, <2>1 DEF IInv, DropRequest, SentSoFar, SentOnceInOrder, DatagramsKnown
<1>4. ResponseKnown' /\ AnswerIsOwn' /\ NoneForgotten'
  BY DEF IInv, DropRequest, ResponseKnown, AnswerIsOwn, NoneForgotten
<1>5. RepliesSoFar'
  <2>1. \A i \in 1 .. Len(replies) :
          replies[i].id \in 1 .. served /\ replies[i].answer \in 0 .. replies[i].id
    BY DEF IInv, RepliesSoFar
  <2>2. QED BY <1>1, <2>1 DEF DropRequest, RepliesSoFar
<1>6. QED BY <1>1, <1>2, <1>3, <1>4, <1>5 DEF IInv

-----------------------------------------------------------------------------
(***************************************************************************)
(* The exchange with the device.                                           *)
(***************************************************************************)

LEMMA OpenSocketStep ==
  ASSUME IInv, OpenSocket
  PROVE  IInv'
<1>1. TypeOK' /\ SocketsCounted' /\ LinkCounted'
  BY DEF IInv, OpenSocket, Room, TypeOK, SocketsCounted, LinkCounted
<1>2. InboxInOrder' /\ ServesTheLast' /\ SentSoFar' /\ SentOnceInOrder'
  BY DEF IInv, OpenSocket, InboxInOrder, ServesTheLast, SentSoFar, SentOnceInOrder
<1>3. DatagramsKnown' /\ ResponseKnown' /\ RepliesSoFar'
  BY DEF IInv, OpenSocket, DatagramsKnown, ResponseKnown, RepliesSoFar
<1>4. AnswerIsOwn' /\ NoneForgotten'
  BY DEF IInv, OpenSocket, AnswerIsOwn, NoneForgotten
<1>5. QED BY <1>1, <1>2, <1>3, <1>4 DEF IInv

LEMMA LookupSucceedsStep ==
  ASSUME IInv, LookupSucceeds
  PROVE  IInv'
BY DEF IInv, LookupSucceeds, TypeOK, InboxInOrder, ServesTheLast, SocketsCounted,
   LinkCounted, SentSoFar, SentOnceInOrder, DatagramsKnown, ResponseKnown,
   RepliesSoFar, AnswerIsOwn, NoneForgotten

LEMMA LookupFailsStep ==
  ASSUME IInv, LookupFails
  PROVE  IInv'
BY DEF IInv, LookupFails, TypeOK, InboxInOrder, ServesTheLast, SocketsCounted,
   LinkCounted, SentSoFar, SentOnceInOrder, DatagramsKnown, ResponseKnown,
   RepliesSoFar, AnswerIsOwn, NoneForgotten

\* The request gets its port, and is sent after all the others.
LEMMA SendToStep ==
  ASSUME IInv, SendTo
  PROVE  IInv'
<1>1. /\ req \in Requests /\ req.id \in 1 .. MaxRequests /\ req.id = served
      /\ portOf \in [1 .. MaxRequests -> Ports \cup {NoSocket}]
      /\ sent \in Seq(Nat) /\ req.id \in Nat
  BY DEF IInv, SendTo, TypeOK, ServesTheLast, Requests
<1>2. PICK p \in Ports :
        /\ port' = p
        /\ portOf' = [portOf EXCEPT ![req.id] = p]
        /\ udp' = udp \cup {[kind |-> "request", id |-> req.id, port |-> p]}
  BY DEF SendTo
<1>3. portOf'[req.id] = p /\ \A k \in 1 .. (req.id - 1) : portOf'[k] = portOf[k]
  BY <1>1, <1>2
<1>4. /\ sent' \in Seq(Nat) /\ Len(sent') = Len(sent) + 1
      /\ \A i \in 1 .. Len(sent) : sent'[i] = sent[i]
      /\ sent'[Len(sent) + 1] = req.id
  BY <1>1, AppendProperties DEF SendTo
<1>5. TypeOK'
  BY <1>1, <1>2, <1>4 DEF IInv, SendTo, TypeOK, Datagrams
<1>6. InboxInOrder' /\ ServesTheLast' /\ SocketsCounted' /\ LinkCounted'
  BY <1>2, <1>3 DEF IInv, SendTo, InboxInOrder, ServesTheLast, SocketsCounted, LinkCounted
<1>7. SentSoFar' /\ SentOnceInOrder'
  <2>1. \A i \in 1 .. Len(sent) : sent[i] \in 1 .. served /\ sent[i] < req.id
    BY DEF IInv, SendTo, SentSoFar
  <2>2. \A i \in 1 .. Len(sent') : sent'[i] \in 1 .. served'
    BY <1>1, <1>4, <2>1 DEF SendTo
  <2>3. ASSUME NEW i \in 1 .. Len(sent'), NEW j \in 1 .. Len(sent'), i < j
        PROVE  sent'[i] < sent'[j]
    <3>1. Len(sent) \in Nat
      BY <1>1
    <3>2. CASE j = Len(sent) + 1
      BY <1>4, <2>1, <2>3, <3>1, <3>2
    <3>3. CASE j \in 1 .. Len(sent)
      BY <1>4, <2>3, <3>1, <3>3 DEF IInv, SentOnceInOrder
    <3>4. QED BY <1>4, <3>1, <3>2, <3>3
  <2>4. QED BY <2>2, <2>3 DEF SendTo, SentSoFar, SentOnceInOrder
<1>8. DatagramsKnown'
  <2>1. \A d \in udp : d.id \in 1 .. (req.id - 1) /\ d.port = portOf[d.id]
    BY <1>1 DEF IInv, SendTo, DatagramsKnown
  <2>2. QED BY <1>1, <1>2, <1>3, <2>1 DEF SendTo, DatagramsKnown
<1>9. ResponseKnown'
  BY DEF IInv, SendTo, ResponseKnown
<1>10. RepliesSoFar' /\ NoneForgotten'
  BY DEF IInv, SendTo, RepliesSoFar, NoneForgotten
<1>11. AnswerIsOwn'
  <2> SUFFICES ASSUME NEW i \in 1 .. Len(replies),
                      replies[i].answer \notin {NoAnswer, replies[i].id}
               PROVE  /\ replies[i].answer < replies[i].id
                      /\ portOf'[replies[i].answer] = portOf'[replies[i].id]
    BY DEF SendTo, AnswerIsOwn
  <2>1. /\ replies[i].answer < replies[i].id
        /\ portOf[replies[i].answer] = portOf[replies[i].id]
    BY DEF IInv, AnswerIsOwn
  <2>2. /\ replies[i].id \in 1 .. (req.id - 1)
        /\ replies[i].answer \in 1 .. (req.id - 1)
    BY <1>1, <2>1 DEF IInv, SendTo, RepliesSoFar
  <2>3. QED BY <1>3, <2>1, <2>2
<1>12. QED BY <1>5, <1>6, <1>7, <1>8, <1>9, <1>10, <1>11 DEF IInv

LEMMA SendToFailsStep ==
  ASSUME IInv, SendToFails
  PROVE  IInv'
BY DEF IInv, SendToFails, TypeOK, InboxInOrder, ServesTheLast, SocketsCounted,
   LinkCounted, SentSoFar, SentOnceInOrder, DatagramsKnown, ResponseKnown,
   RepliesSoFar, AnswerIsOwn, NoneForgotten

\* The datagram received was sent, perhaps for an earlier request, from the
\* port of this request's socket.
LEMMA ReceiveAnswerStep ==
  ASSUME IInv, ReceiveAnswer
  PROVE  IInv'
<1>1. PICK d \in udp : d.port = port /\ response' = d.id /\ udp' = udp \ {d}
  BY DEF ReceiveAnswer
<1>2. /\ d \in Datagrams /\ req.id \in Nat
      /\ d.id \in 1 .. req.id /\ portOf[d.id] = portOf[req.id]
  BY <1>1 DEF IInv, ReceiveAnswer, TypeOK, DatagramsKnown, ServesTheLast, SocketsCounted
<1>3. TypeOK'
  BY <1>1, <1>2 DEF IInv, ReceiveAnswer, TypeOK, Datagrams
<1>4. ResponseKnown'
  BY <1>1, <1>2 DEF ReceiveAnswer, ResponseKnown
<1>5. DatagramsKnown'
  BY <1>1 DEF IInv, ReceiveAnswer, DatagramsKnown
<1>6. InboxInOrder' /\ ServesTheLast' /\ SocketsCounted' /\ LinkCounted'
  BY DEF IInv, ReceiveAnswer, InboxInOrder, ServesTheLast, SocketsCounted, LinkCounted
<1>7. SentSoFar' /\ SentOnceInOrder'
  BY DEF IInv, ReceiveAnswer, SentSoFar, SentOnceInOrder
<1>8. RepliesSoFar' /\ AnswerIsOwn' /\ NoneForgotten'
  BY DEF IInv, ReceiveAnswer, RepliesSoFar, AnswerIsOwn, NoneForgotten
<1>9. QED BY <1>3, <1>4, <1>5, <1>6, <1>7, <1>8 DEF IInv

LEMMA ReceiveTimesOutStep ==
  ASSUME IInv, ReceiveTimesOut
  PROVE  IInv'
BY DEF IInv, ReceiveTimesOut, TypeOK, InboxInOrder, ServesTheLast, SocketsCounted,
   LinkCounted, SentSoFar, SentOnceInOrder, DatagramsKnown, ResponseKnown,
   RepliesSoFar, AnswerIsOwn, NoneForgotten

LEMMA CloseSocketStep ==
  ASSUME IInv, CloseSocket
  PROVE  IInv'
<1>1. TypeOK' /\ SocketsCounted' /\ LinkCounted'
  BY DEF IInv, CloseSocket, TypeOK, SocketsCounted, LinkCounted
<1>2. InboxInOrder' /\ ServesTheLast' /\ SentSoFar' /\ SentOnceInOrder'
  BY DEF IInv, CloseSocket, InboxInOrder, ServesTheLast, SentSoFar, SentOnceInOrder
<1>3. DatagramsKnown' /\ ResponseKnown' /\ RepliesSoFar'
  BY DEF IInv, CloseSocket, DatagramsKnown, ResponseKnown, RepliesSoFar
<1>4. AnswerIsOwn' /\ NoneForgotten'
  BY DEF IInv, CloseSocket, AnswerIsOwn, NoneForgotten
<1>5. QED BY <1>1, <1>2, <1>3, <1>4 DEF IInv

-----------------------------------------------------------------------------
(***************************************************************************)
(* The publication.                                                        *)
(***************************************************************************)

LEMMA ConnectStep ==
  ASSUME IInv, Connect
  PROVE  IInv'
<1>1. TypeOK' /\ SocketsCounted' /\ LinkCounted'
  <2>1. pubFds = 0
    BY DEF IInv, Connect, LinkCounted
  <2>2. TypeOK'
    <3>1. delivered' \in BOOLEAN
      BY DEF Connect
    <3>2. QED BY <2>1, <3>1 DEF IInv, Connect, TypeOK
  <2>3. SocketsCounted'
    BY DEF IInv, Connect, SocketsCounted
  <2>4. LinkCounted'
    BY <2>1 DEF IInv, Connect, Room, TypeOK, LinkCounted
  <2>5. QED BY <2>2, <2>3, <2>4
<1>2. InboxInOrder' /\ ServesTheLast' /\ SentSoFar' /\ SentOnceInOrder'
  BY DEF IInv, Connect, InboxInOrder, ServesTheLast, SentSoFar, SentOnceInOrder
<1>3. DatagramsKnown' /\ ResponseKnown' /\ RepliesSoFar'
  BY DEF IInv, Connect, DatagramsKnown, ResponseKnown, RepliesSoFar
<1>4. AnswerIsOwn' /\ NoneForgotten'
  BY DEF IInv, Connect, AnswerIsOwn, NoneForgotten
<1>5. QED BY <1>1, <1>2, <1>3, <1>4 DEF IInv

LEMMA ConnectFailsStep ==
  ASSUME IInv, ConnectFails
  PROVE  IInv'
<1>1. TypeOK' /\ SocketsCounted' /\ LinkCounted'
  BY DEF IInv, ConnectFails, TypeOK, SocketsCounted, LinkCounted
<1>2. InboxInOrder' /\ ServesTheLast' /\ SentSoFar' /\ SentOnceInOrder'
  BY DEF IInv, ConnectFails, InboxInOrder, ServesTheLast, SentSoFar, SentOnceInOrder
<1>3. DatagramsKnown' /\ ResponseKnown' /\ RepliesSoFar'
  BY DEF IInv, ConnectFails, DatagramsKnown, ResponseKnown, RepliesSoFar
<1>4. AnswerIsOwn' /\ NoneForgotten'
  BY DEF IInv, ConnectFails, AnswerIsOwn, NoneForgotten
<1>5. QED BY <1>1, <1>2, <1>3, <1>4 DEF IInv

LEMMA ProcessEndsStep ==
  ASSUME IInv, ProcessEnds
  PROVE  IInv'
<1>1. TypeOK' /\ SocketsCounted' /\ LinkCounted'
  BY DEF IInv, ProcessEnds, TypeOK, SocketsCounted, LinkCounted
<1>2. InboxInOrder' /\ ServesTheLast' /\ SentSoFar' /\ SentOnceInOrder'
  BY DEF IInv, ProcessEnds, InboxInOrder, ServesTheLast, SentSoFar, SentOnceInOrder
<1>3. DatagramsKnown' /\ ResponseKnown' /\ RepliesSoFar'
  BY DEF IInv, ProcessEnds, DatagramsKnown, ResponseKnown, RepliesSoFar
<1>4. AnswerIsOwn' /\ NoneForgotten'
  BY DEF IInv, ProcessEnds, AnswerIsOwn, NoneForgotten
<1>5. QED BY <1>1, <1>2, <1>3, <1>4 DEF IInv

\* The reply carries the request's id and the response of its exchange.
LEMMA PublishStep ==
  ASSUME IInv, Publish
  PROVE  IInv'
<1> DEFINE r == [id |-> req.id, answer |-> response]
<1>1. /\ req.id \in 1 .. MaxRequests /\ req.id = served /\ response \in 0 .. req.id
      /\ r \in [id : Nat, answer : Nat]
      /\ replies \in Seq([id : Nat, answer : Nat])
  <2>1. req.id \in 1 .. MaxRequests /\ req.id = served
    BY DEF IInv, Publish, ServesTheLast
  <2>2. response \in 0 .. req.id
    BY <2>1 DEF IInv, Publish, ResponseKnown
  <2>3. QED BY <2>1, <2>2 DEF IInv, TypeOK
<1>2. /\ replies' \in Seq([id : Nat, answer : Nat]) /\ Len(replies') = Len(replies) + 1
      /\ \A i \in 1 .. Len(replies) : replies'[i] = replies[i]
      /\ replies'[Len(replies) + 1] = r
      /\ Len(replies) \in Nat
  BY <1>1, AppendProperties, LenProperties DEF Publish
<1> HIDE DEF r
<1>3. TypeOK'
  BY <1>2 DEF IInv, Publish, TypeOK
<1>4. InboxInOrder' /\ ServesTheLast' /\ SocketsCounted' /\ LinkCounted'
  BY DEF IInv, Publish, InboxInOrder, ServesTheLast, SocketsCounted, LinkCounted
<1>5. SentSoFar' /\ SentOnceInOrder' /\ DatagramsKnown' /\ ResponseKnown'
  BY DEF IInv, Publish, SentSoFar, SentOnceInOrder, DatagramsKnown, ResponseKnown
<1>6. RepliesSoFar'
  <2>1. \A i \in 1 .. Len(replies) :
          replies[i].id \in 1 .. served /\ replies[i].answer \in 0 .. replies[i].id
    BY DEF IInv, RepliesSoFar
  <2>2. r.id \in 1 .. served /\ r.answer \in 0 .. r.id
    BY <1>1 DEF r
  <2>3. ASSUME NEW i \in 1 .. Len(replies')
        PROVE  replies'[i].id \in 1 .. served /\ replies'[i].answer \in 0 .. replies'[i].id
    <3>1. CASE i = Len(replies) + 1
      BY <1>2, <2>2, <3>1
    <3>2. CASE i \in 1 .. Len(replies)
      BY <1>2, <2>1, <3>2
    <3>3. QED BY <1>2, <3>1, <3>2
  <2>4. QED BY <2>3 DEF Publish, RepliesSoFar
<1>7. AnswerIsOwn'
  <2>1. ASSUME NEW i \in 1 .. Len(replies')
        PROVE  \/ replies'[i].answer \in {NoAnswer, replies'[i].id}
               \/ /\ replies'[i].answer < replies'[i].id
                  /\ portOf[replies'[i].answer] = portOf[replies'[i].id]
    <3>1. CASE i = Len(replies) + 1
      BY <1>1, <1>2, <3>1 DEF IInv, Publish, ResponseKnown, r
    <3>2. CASE i \in 1 .. Len(replies)
      BY <1>2, <3>2 DEF IInv, AnswerIsOwn
    <3>3. QED BY <1>2, <3>1, <3>2
  <2>2. QED BY <2>1 DEF Publish, AnswerIsOwn
<1>8. NoneForgotten'
  <2>1. ASSUME NEW id \in taken, id = req.id
        PROVE  \E i \in 1 .. Len(replies') : replies'[i].id = id
    <3>1. Len(replies) + 1 \in 1 .. Len(replies') /\ replies'[Len(replies) + 1].id = id
      BY <1>2, <2>1 DEF r
    <3>2. QED BY <3>1
  <2>2. ASSUME NEW id \in taken, NEW i \in 1 .. Len(replies), replies[i].id = id
        PROVE  \E k \in 1 .. Len(replies') : replies'[k].id = id
    <3>1. i \in 1 .. Len(replies') /\ replies'[i].id = id
      BY <1>2, <2>2
    <3>2. QED BY <3>1
  <2>3. QED BY <2>1, <2>2 DEF IInv, Publish, NoneForgotten
<1>9. QED BY <1>3, <1>4, <1>5, <1>6, <1>7, <1>8 DEF IInv

LEMMA PublishFailsStep ==
  ASSUME IInv, PublishFails
  PROVE  IInv'
<1>1. TypeOK'
  <2>1. delivered' \in BOOLEAN
    BY DEF PublishFails
  <2>2. missed' \subseteq Nat
    BY DEF IInv, PublishFails, TypeOK, Requests
  <2>3. QED BY <2>1, <2>2 DEF IInv, PublishFails, TypeOK
<1>2. SocketsCounted' /\ LinkCounted'
  BY DEF IInv, PublishFails, TypeOK, SocketsCounted, LinkCounted
<1>3. InboxInOrder' /\ ServesTheLast' /\ SentSoFar' /\ SentOnceInOrder'
  BY DEF IInv, PublishFails, InboxInOrder, ServesTheLast, SentSoFar, SentOnceInOrder
<1>4. DatagramsKnown' /\ ResponseKnown' /\ RepliesSoFar'
  BY DEF IInv, PublishFails, DatagramsKnown, ResponseKnown, RepliesSoFar
<1>5. AnswerIsOwn' /\ NoneForgotten'
  BY DEF IInv, PublishFails, AnswerIsOwn, NoneForgotten
<1>6. QED BY <1>1, <1>2, <1>3, <1>4, <1>5 DEF IInv

LEMMA WaitEndsStep ==
  ASSUME IInv, WaitEnds
  PROVE  IInv'
BY DEF IInv, WaitEnds, TypeOK, InboxInOrder, ServesTheLast, SocketsCounted,
   LinkCounted, SentSoFar, SentOnceInOrder, DatagramsKnown, ResponseKnown,
   RepliesSoFar, AnswerIsOwn, NoneForgotten

LEMMA DisconnectStep ==
  ASSUME IInv, Disconnect
  PROVE  IInv'
<1>1. TypeOK'
  BY DEF IInv, Disconnect, Requests, Ops, TypeOK
<1>2. SocketsCounted' /\ LinkCounted'
  BY DEF IInv, Disconnect, TypeOK, SocketsCounted, LinkCounted
<1>3. InboxInOrder' /\ ServesTheLast' /\ SentSoFar' /\ SentOnceInOrder'
  BY DEF IInv, Disconnect, InboxInOrder, ServesTheLast, SentSoFar, SentOnceInOrder
<1>4. DatagramsKnown' /\ ResponseKnown' /\ RepliesSoFar'
  BY DEF IInv, Disconnect, DatagramsKnown, ResponseKnown, RepliesSoFar
<1>5. AnswerIsOwn' /\ NoneForgotten'
  BY DEF IInv, Disconnect, AnswerIsOwn, NoneForgotten
<1>6. QED BY <1>1, <1>2, <1>3, <1>4, <1>5 DEF IInv

-----------------------------------------------------------------------------
(***************************************************************************)
(* The library, the broker and the network.                                *)
(***************************************************************************)

\* A request that arrives goes to the end of the inbox.
LEMMA ArriveStep ==
  ASSUME IInv, Arrive
  PROVE  IInv'
<1>1. PICK op \in Ops : inbox' = Append(inbox, [id |-> arrived + 1, op |-> op])
  BY DEF Arrive
<1>2. arrived \in Nat /\ arrived' = arrived + 1 /\ arrived' \in 0 .. MaxRequests
  BY DEF IInv, Arrive, TypeOK
<1>3. inbox \in Seq(Requests) /\ [id |-> arrived + 1, op |-> op] \in Requests
  BY <1>2 DEF IInv, TypeOK, Requests
<1>4. /\ inbox' \in Seq(Requests) /\ Len(inbox') = Len(inbox) + 1
      /\ \A j \in 1 .. Len(inbox) : inbox'[j] = inbox[j]
      /\ inbox'[Len(inbox) + 1].id = arrived + 1
      /\ Len(inbox) \in Nat
  BY <1>1, <1>3, AppendProperties, LenProperties
<1>5. served \in Int /\ served' = served
  BY <1>2, <1>4
<1>6. InboxInOrder'
  <2>1. Len(inbox') <= arrived'
    BY <1>2, <1>4 DEF IInv, InboxInOrder
  <2>2. ASSUME NEW j \in 1 .. Len(inbox')
        PROVE  inbox'[j].id = served' + j
    <3>1. CASE j = Len(inbox) + 1
      BY <1>2, <1>4, <1>5, <3>1
    <3>2. CASE j \in 1 .. Len(inbox)
      BY <1>4, <1>5, <3>2 DEF IInv, InboxInOrder
    <3>3. QED BY <1>4, <3>1, <3>2
  <2>3. QED BY <2>1, <2>2 DEF InboxInOrder
<1>7. TypeOK'
  BY <1>2, <1>4 DEF IInv, Arrive, TypeOK
<1>8. ServesTheLast' /\ SocketsCounted' /\ LinkCounted'
  BY <1>5 DEF IInv, Arrive, ServesTheLast, SocketsCounted, LinkCounted
<1>9. SentSoFar' /\ SentOnceInOrder' /\ DatagramsKnown' /\ ResponseKnown'
  BY <1>5 DEF IInv, Arrive, SentSoFar, SentOnceInOrder, DatagramsKnown, ResponseKnown
<1>10. RepliesSoFar' /\ AnswerIsOwn' /\ NoneForgotten'
  BY <1>5 DEF IInv, Arrive, RepliesSoFar, AnswerIsOwn, NoneForgotten
<1>11. QED BY <1>6, <1>7, <1>8, <1>9, <1>10 DEF IInv

LEMMA DeliveredStep ==
  ASSUME IInv, Delivered
  PROVE  IInv'
BY DEF IInv, Delivered, TypeOK, InboxInOrder, ServesTheLast, SocketsCounted,
   LinkCounted, SentSoFar, SentOnceInOrder, DatagramsKnown, ResponseKnown,
   RepliesSoFar, AnswerIsOwn, NoneForgotten

LEMMA LinkLostStep ==
  ASSUME IInv, LinkLost
  PROVE  IInv'
<1>1. TypeOK' /\ SocketsCounted' /\ LinkCounted'
  BY DEF IInv, LinkLost, TypeOK, SocketsCounted, LinkCounted
<1>2. InboxInOrder' /\ ServesTheLast' /\ SentSoFar' /\ SentOnceInOrder'
  BY DEF IInv, LinkLost, InboxInOrder, ServesTheLast, SentSoFar, SentOnceInOrder
<1>3. DatagramsKnown' /\ ResponseKnown' /\ RepliesSoFar'
  BY DEF IInv, LinkLost, DatagramsKnown, ResponseKnown, RepliesSoFar
<1>4. AnswerIsOwn' /\ NoneForgotten'
  BY DEF IInv, LinkLost, AnswerIsOwn, NoneForgotten
<1>5. QED BY <1>1, <1>2, <1>3, <1>4 DEF IInv

LEMMA DeviceAnswersStep ==
  ASSUME IInv, DeviceAnswers
  PROVE  IInv'
<1>1. TypeOK'
  <2>1. PICK d \in udp, rest \in SUBSET udp : udp' = rest \cup {[d EXCEPT !.kind = "answer"]}
    BY DEF DeviceAnswers
  <2>2. [d EXCEPT !.kind = "answer"] \in Datagrams
    BY DEF IInv, TypeOK, Datagrams
  <2>3. udp' \subseteq Datagrams
    BY <2>1, <2>2 DEF IInv, TypeOK
  <2>4. QED BY <2>3 DEF IInv, DeviceAnswers, TypeOK
<1>2. SocketsCounted' /\ LinkCounted'
  BY DEF IInv, DeviceAnswers, TypeOK, SocketsCounted, LinkCounted
<1>3. InboxInOrder' /\ ServesTheLast' /\ SentSoFar' /\ SentOnceInOrder'
  BY DEF IInv, DeviceAnswers, InboxInOrder, ServesTheLast, SentSoFar, SentOnceInOrder
<1>4. DatagramsKnown' /\ ResponseKnown' /\ RepliesSoFar'
  <2>1. \A e \in udp' : \E d \in udp : e.id = d.id /\ e.port = d.port
    <3>1. PICK d \in udp, rest \in SUBSET udp : udp' = rest \cup {[d EXCEPT !.kind = "answer"]}
      BY DEF DeviceAnswers
    <3>2. d \in Datagrams
      BY DEF IInv, TypeOK
    <3>3. QED BY <3>1, <3>2 DEF Datagrams
  <2>2. DatagramsKnown'
    BY <2>1 DEF IInv, DeviceAnswers, DatagramsKnown
  <2>3. QED BY <2>2 DEF IInv, DeviceAnswers, ResponseKnown, RepliesSoFar
<1>5. AnswerIsOwn' /\ NoneForgotten'
  BY DEF IInv, DeviceAnswers, AnswerIsOwn, NoneForgotten
<1>6. QED BY <1>1, <1>2, <1>3, <1>4, <1>5 DEF IInv

LEMMA DatagramLostStep ==
  ASSUME IInv, DatagramLost
  PROVE  IInv'
BY DEF IInv, DatagramLost, TypeOK, InboxInOrder, ServesTheLast, SocketsCounted,
   LinkCounted, SentSoFar, SentOnceInOrder, DatagramsKnown, ResponseKnown,
   RepliesSoFar, AnswerIsOwn, NoneForgotten

LEMMA OthersChangeStep ==
  ASSUME IInv, OthersChange
  PROVE  IInv'
<1>1. TypeOK'
  BY DEF IInv, OthersChange, SocketsCounted, LinkCounted, TypeOK
<1>2. SocketsCounted' /\ LinkCounted'
  <2>1. reqFds \in Nat /\ pubFds \in Nat /\ MaxFd - reqFds - pubFds \in Int
    BY DEF IInv, TypeOK
  <2>2. others' \in Int /\ others' <= MaxFd - reqFds - pubFds
    BY <2>1 DEF OthersChange
  <2>3. ASSUME NEW a \in Nat, NEW b \in Nat, NEW c \in Int, c <= MaxFd - a - b
        PROVE  a + b + c <= MaxFd
    BY <2>3
  <2>4. reqFds + pubFds + others' <= MaxFd
    BY <2>1, <2>2, <2>3
  <2>5. QED BY <2>4 DEF IInv, OthersChange, SocketsCounted, LinkCounted
<1>3. InboxInOrder' /\ ServesTheLast' /\ SentSoFar' /\ SentOnceInOrder'
  BY DEF IInv, OthersChange, InboxInOrder, ServesTheLast, SentSoFar, SentOnceInOrder
<1>4. DatagramsKnown' /\ ResponseKnown' /\ RepliesSoFar'
  BY DEF IInv, OthersChange, DatagramsKnown, ResponseKnown, RepliesSoFar
<1>5. AnswerIsOwn' /\ NoneForgotten'
  BY DEF IInv, OthersChange, AnswerIsOwn, NoneForgotten
<1>6. QED BY <1>1, <1>2, <1>3, <1>4, <1>5 DEF IInv

-----------------------------------------------------------------------------
(***************************************************************************)
(* The theorems.                                                           *)
(***************************************************************************)

LEMMA InvariantKept ==
  ASSUME IInv, [Next]_vars
  PROVE  IInv'
<1>1. CASE Callback
  BY <1>1,
     TakeRequestStep, DropRequestStep, OpenSocketStep,
     LookupSucceedsStep, LookupFailsStep, SendToStep, SendToFailsStep,
     ReceiveAnswerStep, ReceiveTimesOutStep, CloseSocketStep,
     ConnectStep, ConnectFailsStep, PublishStep, PublishFailsStep,
     WaitEndsStep, DisconnectStep
     DEF Callback
<1>2. CASE Environment
  BY <1>2,
     ArriveStep, DeliveredStep, LinkLostStep, DeviceAnswersStep,
     DatagramLostStep, OthersChangeStep, ProcessEndsStep
     DEF Environment
<1>3. CASE UNCHANGED vars
  BY <1>3 DEF vars, IInv, TypeOK, InboxInOrder, ServesTheLast, SocketsCounted,
     LinkCounted, SentSoFar, SentOnceInOrder, DatagramsKnown, ResponseKnown,
     RepliesSoFar, AnswerIsOwn, NoneForgotten
<1>4. QED BY <1>1, <1>2, <1>3 DEF Next

\* Every step of the request path keeps the invariant.
THEOREM Invariance == Spec => []IInv
BY InitInv, InvariantKept, PTL DEF Spec

\* Every variable of the request path keeps its type.
THEOREM TypeCorrect == Spec => []TypeOK
<1>1. IInv => TypeOK
  BY DEF IInv
<1>2. QED BY Invariance, <1>1, PTL

\* An answer is published for the request it answers, or for a later one sent
\* from the same port (pnio.c compares nothing in it with the request).
THEOREM AnswersOwn == Spec => []AnswerIsOwn
<1>1. IInv => AnswerIsOwn
  BY DEF IInv
<1>2. QED BY Invariance, <1>1, PTL

\* Requests are sent at most once, in the order they arrived.
THEOREM InOrder == Spec => []SentOnceInOrder
<1>1. IInv => SentOnceInOrder
  BY DEF IInv
<1>2. QED BY Invariance, <1>1, PTL

\* A request that was taken up is replied to, unless the connection of the
\* publishing client broke under it.
THEOREM NothingForgotten == Spec => []NoneForgotten
<1>1. IInv => NoneForgotten
  BY DEF IInv
<1>2. QED BY Invariance, <1>1, PTL

\* Between two requests the path holds the descriptors of failed lookups, and
\* no others.
THEOREM DescriptorsKept == Spec => []DescriptorsReturned
<1>1. IInv => DescriptorsReturned
  BY DEF IInv, TypeOK, SocketsCounted, LinkCounted, DescriptorsReturned
<1>2. QED BY Invariance, <1>1, PTL

-----------------------------------------------------------------------------
(***************************************************************************)
(* The request path implements RequestReply.                               *)
(***************************************************************************)

USE DEF Abstract!vars, Abstract!NoRequest, Abstract!Ops, Ops

\* A publication is a first reply, with an answer of an earlier request at
\* most.
LEMMA PublishReplies ==
  ASSUME IInv, Publish
  PROVE  Abstract!Next
<1>1. response \in 0 .. req.id /\ req # NoRequest
  <2>1. req.id \in 1 .. MaxRequests
    BY DEF IInv, Publish, ServesTheLast
  <2>2. QED BY <2>1 DEF IInv, Publish, ResponseKnown
<1>2. \A i \in 1 .. Len(replies) : replies[i].id # req.id
  <2>1. \A i \in 1 .. Len(replies) : replies[i].id \in 1 .. served /\ replies[i].id < req.id
    BY DEF IInv, Publish, RepliesSoFar
  <2>2. served \in Int /\ req.id = served
    BY DEF IInv, Publish, ServesTheLast, TypeOK
  <2>3. QED BY <2>1, <2>2
<1>3. Abstract!Reply(response)
  BY <1>1, <1>2 DEF Publish, Abstract!Reply
<1>4. QED BY <1>1, <1>3 DEF Abstract!Next

\* Every step is a step of RequestReply, or none.
LEMMA StepImplements ==
  ASSUME IInv, [Next]_vars
  PROVE  [Abstract!Next]_(Abstract!vars)
<1>1. CASE TakeRequest
  <2>1. Abstract!Take
    BY <1>1 DEF IInv, ServesTheLast, TakeRequest, Abstract!Take
  <2>2. QED BY <2>1 DEF Abstract!Next
<1>2. CASE DropRequest
  <2>1. Abstract!Ignore
    BY <1>2 DEF IInv, ServesTheLast, DropRequest, Abstract!Ignore
  <2>2. QED BY <2>1 DEF Abstract!Next
<1>3. CASE OpenSocket \/ LookupSucceeds \/ LookupFails \/ SendTo \/ SendToFails
           \/ ReceiveAnswer \/ ReceiveTimesOut \/ CloseSocket
  BY <1>3 DEF OpenSocket, LookupSucceeds, LookupFails, SendTo, SendToFails,
     ReceiveAnswer, ReceiveTimesOut, CloseSocket
<1>4. CASE Connect \/ PublishFails \/ WaitEnds
  BY <1>4 DEF Connect, PublishFails, WaitEnds
<1>5. CASE ConnectFails \/ ProcessEnds
  <2>1. Abstract!Stop
    BY <1>5 DEF ConnectFails, ProcessEnds, Abstract!Stop
  <2>2. QED BY <2>1 DEF Abstract!Next
<1>6. CASE Publish
  BY <1>6, PublishReplies
<1>7. CASE Disconnect
  <2>1. req # NoRequest
    BY <1>7 DEF IInv, Disconnect, ServesTheLast
  <2>2. Abstract!Finish
    BY <1>7, <2>1 DEF Disconnect, Abstract!Finish
  <2>3. QED BY <2>2 DEF Abstract!Next
<1>8. CASE Arrive
  <2>1. \E op \in Ops : Abstract!Arrive(op)
    BY <1>8 DEF Arrive, Abstract!Arrive
  <2>2. QED BY <2>1 DEF Abstract!Next
<1>9. CASE Delivered \/ LinkLost \/ DeviceAnswers \/ DatagramLost \/ OthersChange
  BY <1>9 DEF Delivered, LinkLost, DeviceAnswers, DatagramLost, OthersChange
<1>10. CASE UNCHANGED vars
  BY <1>10 DEF vars
<1>11. QED
  BY <1>1, <1>2, <1>3, <1>4, <1>5, <1>6, <1>7, <1>8, <1>9, <1>10
     DEF Next, Callback, Environment

\* Requests are served in order, one at a time, and replied to at most once,
\* while they are served, whatever fails on the way.
THEOREM Refinement == Spec => ImplementsRequestReply
<1>1. Init => Abstract!Init
  BY DEF Init, Abstract!Init
<1>2. IInv /\ [Next]_vars => [Abstract!Next]_(Abstract!vars)
  BY StepImplements
<1>3. QED
  BY Invariance, <1>1, <1>2, PTL DEF Spec, ImplementsRequestReply, Abstract!Spec

=============================================================================
