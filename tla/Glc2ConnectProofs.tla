------------------------- MODULE Glc2ConnectProofs -------------------------
(***************************************************************************)
(* Theorems about Glc2Connect, for any number of clients and restarts.     *)
(***************************************************************************)
EXTENDS Glc2Connect, SequenceTheorems, FiniteSetTheorems, TLAPS

-----------------------------------------------------------------------------
(* The inductive invariant.                                                *)

\* The key never leads to anything but the buffer of the latest server.
LatestNamed ==
  /\ named \in {0, serving}
  /\ serverAt # "down" => serving # 0
  /\ \A c \in Clients : attached[c] <= serving

\* The node ids a client has got or will read.
Nodes(c) == Range(answers[c]) \cup ({id[c]} \ {-1})

\* Nothing reaches a client before it has attached.
NothingBefore ==
  \A c \in Clients :
    /\ clientAt[c] \in {"start", "create"} => attached[c] = 0
    /\ attached[c] = 0 => Nodes(c) = {}

RequestsStay ==
  \A b \in Buffers : \A c \in Range(requests[b]) : attached[c] = b

\* What the server works on is a request from its own buffer, then the client
\* it has just put at the head of its list.
RequestOwned ==
  /\ serverAt \in {"register", "answer"} =>
       request.shmid \in Clients /\ attached[request.shmid] = serving
  /\ serverAt = "answer" =>
       clients # << >> /\ clients[1] = [node |-> request.node, shmid |-> request.shmid]

NodesUsedUp == \A r \in Range(clients) : r.node < max_client

\* The node of the client that is registered but not answered is nobody's yet.
NodeUnanswered ==
  serverAt = "answer" =>
    \A c \in Clients : attached[c] = serving => request.node \notin Nodes(c)

NodesRecorded ==
  \A c \in Clients : attached[c] = serving =>
    \A n \in Nodes(c) : [node |-> n, shmid |-> c] \in Range(clients)

NodesDistinct ==
  \A c, d \in Clients : c # d /\ attached[c] = attached[d] =>
    Nodes(c) \cap Nodes(d) = {}

\* Only requests that are in the queue have been posted.
PostedThere == \A b \in Buffers : posted[b] <= Len(requests[b])

NodeInv ==
  /\ TypeOK
  /\ PostedThere
  /\ LatestNamed
  /\ NothingBefore
  /\ RequestsStay
  /\ RequestOwned
  /\ NodesUsedUp
  /\ NodeUnanswered
  /\ NodesRecorded
  /\ NodesDistinct

-----------------------------------------------------------------------------
(* Sequences.                                                              *)

\* Appending adds the new element to those of the sequence.
LEMMA RangeAppend ==
  ASSUME NEW S, NEW s \in Seq(S), NEW e \in S
  PROVE  Range(Append(s, e)) = Range(s) \cup {e}
<1>1. Append(s, e) \in Seq(S) /\ Len(Append(s, e)) = Len(s) + 1 /\ Len(s) \in Nat
  BY AppendProperties, LenProperties
<1>2. /\ Append(s, e)[Len(s) + 1] = e
      /\ \A i \in 1 .. Len(s) : Append(s, e)[i] = s[i]
  BY AppendProperties
<1>3. /\ Range(s) = {s[i] : i \in 1 .. Len(s)}
      /\ Range(Append(s, e)) = {Append(s, e)[i] : i \in 1 .. (Len(s) + 1)}
  BY <1>1, RangeEquality
<1>4. 1 .. (Len(s) + 1) = (1 .. Len(s)) \cup {Len(s) + 1}
  BY <1>1
<1> QED
  BY <1>2, <1>3, <1>4

\* Putting an element in front makes it the first and adds it to the others.
LEMMA RangePrepend ==
  ASSUME NEW S, NEW s \in Seq(S), NEW e \in S
  PROVE  /\ <<e>> \o s \in Seq(S)
         /\ <<e>> \o s # << >>
         /\ (<<e>> \o s)[1] = e
         /\ Range(<<e>> \o s) = {e} \cup Range(s)
<1>1. <<e>> \in Seq(S) /\ Len(<<e>>) = 1 /\ Range(<<e>>) = {e}
  BY DEF Range
<1>2. /\ <<e>> \o s \in Seq(S)
      /\ Len(<<e>> \o s) = 1 + Len(s)
      /\ \A i \in 1 .. 1 + Len(s) :
           (<<e>> \o s)[i] = IF i <= 1 THEN <<e>>[i] ELSE s[i - 1]
      /\ Len(s) \in Nat
  BY <1>1, ConcatProperties, LenProperties
<1>3. Range(<<e>> \o s) = {e} \cup Range(s)
  <2> DEFINE front == <<e>>
  <2>1. front \in Seq(S) /\ Range(front) = {e}
    BY <1>1
  <2> HIDE DEF front
  <2>2. Range(front \o s) = Range(front) \cup Range(s)
    BY <2>1, RangeConcatenation
  <2> QED
    BY <2>1, <2>2 DEF front
<1>4. (<<e>> \o s)[1] = e /\ <<e>> \o s # << >>
  BY <1>2, EmptySeq
<1> QED
  BY <1>2, <1>3, <1>4

\* Taking the first element off leaves some of the elements.
LEMMA RangeTail ==
  ASSUME NEW S, NEW s \in Seq(S), s # << >>
  PROVE  /\ Head(s) \in Range(s) /\ Head(s) \in S
         /\ Tail(s) \in Seq(S)
         /\ Range(Tail(s)) \subseteq Range(s)
<1>1. /\ Head(s) \in S /\ Tail(s) \in Seq(S) /\ Len(Tail(s)) = Len(s) - 1
      /\ \A i \in 1 .. Len(Tail(s)) : Tail(s)[i] = s[i + 1]
  BY HeadTailProperties
<1>2. Len(s) \in Nat \ {0}
  BY EmptySeq
<1>3. /\ Range(s) = {s[i] : i \in 1 .. Len(s)}
      /\ Range(Tail(s)) = {Tail(s)[i] : i \in 1 .. (Len(s) - 1)}
  BY <1>1, RangeEquality
<1>4. Head(s) = s[1] /\ 1 \in 1 .. Len(s)
  BY <1>2
<1>5. \A i \in 1 .. (Len(s) - 1) : i + 1 \in 1 .. Len(s) /\ Tail(s)[i] = s[i + 1]
  BY <1>1, <1>2
<1> QED
  BY <1>1, <1>3, <1>4, <1>5

-----------------------------------------------------------------------------
(* Type correctness.                                                       *)

\* The server answers the client it has just registered.
LEMMA AnswersRegistered ==
  ASSUME TypeOK, RequestOwned, serverAt = "answer"
  PROVE  /\ ClientGet(request.node) = [node |-> request.node, shmid |-> request.shmid]
         /\ request.node \in Nat \ {0}
         /\ request.shmid \in Clients
<1>1. /\ clients # << >> /\ request.shmid \in Clients
      /\ clients[1] = [node |-> request.node, shmid |-> request.shmid]
      /\ clients \in Seq(ServerClient)
  BY DEF RequestOwned, TypeOK
<1>2. Len(clients) \in Nat \ {0}
  BY <1>1, EmptySeq
<1>3. clients[1] \in ServerClient
  BY <1>1, <1>2, ElementOfSeq
<1> DEFINE First(i) ==
      clients[i].node = request.node
        /\ \A j \in 1 .. (i - 1) : clients[j].node # request.node
<1>4. 1 \in 1 .. Len(clients) /\ First(1)
  BY <1>1, <1>2
<1>5. \A i \in 1 .. Len(clients) : First(i) => i = 1
  <2> SUFFICES ASSUME NEW i \in 1 .. Len(clients), First(i), i # 1
               PROVE  FALSE
    OBVIOUS
  <2>1. 1 \in 1 .. (i - 1)
    BY <1>2
  <2> QED
    BY <2>1, <1>4
<1>6. (CHOOSE i \in 1 .. Len(clients) : First(i)) = 1
  BY <1>4, <1>5
<1>7. ClientGet(request.node) = clients[1]
  BY <1>6 DEF ClientGet
<1> QED
  BY <1>1, <1>3, <1>7 DEF ServerClient

LEMMA InitNode == Init => NodeInv
<1> SUFFICES ASSUME Init PROVE NodeInv
  OBVIOUS
<1> USE DEF Init
<1>0. PostedThere
  BY EmptySeq DEF PostedThere
<1>1. TypeOK
  BY ConnectAssumption, EmptySeq DEF TypeOK, ServerLocations, ClientLocations, FirstNode, NoRequest
<1>2. \A c \in Clients : Nodes(c) = {}
  <2>1. Range(<< >>) = {}
    BY DEF Range
  <2>2. \A c \in Clients : answers[c] = << >> /\ id[c] = -1
    OBVIOUS
  <2> QED
    BY <2>1, <2>2 DEF Nodes
<1>3. LatestNamed /\ RequestOwned /\ NodeUnanswered
  BY DEF LatestNamed, RequestOwned, NodeUnanswered
<1>4. NothingBefore /\ NodesRecorded /\ NodesDistinct
  BY <1>2 DEF NothingBefore, NodesRecorded, NodesDistinct
<1>5. RequestsStay /\ NodesUsedUp
  BY DEF RequestsStay, NodesUsedUp, Range
<1> QED
  BY <1>0, <1>1, <1>3, <1>4, <1>5 DEF NodeInv

\* What has been posted is there to be read.
LEMMA PostedQueued ==
  ASSUME NodeInv, NEW b \in Buffers, posted[b] > 0
  PROVE  requests[b] \in Seq(Clients) /\ requests[b] # << >> /\ posted[b] - 1 \in Nat
<1>1. requests[b] \in Seq(Clients) /\ posted[b] \in Nat /\ posted[b] <= Len(requests[b])
  BY DEF NodeInv, TypeOK, PostedThere
<1>2. requests[b] # << >>
  BY <1>1, EmptySeq, LenProperties
<1> QED
  BY <1>1, <1>2

\* Every step keeps the types; the client that is answered exists because the
\* server has just put it in its list.
LEMMA TypeStep == NodeInv /\ [Next]_vars => TypeOK'
<1> SUFFICES ASSUME NodeInv, [Next]_vars PROVE TypeOK'
  OBVIOUS
<1> USE ConnectAssumption
<1> USE DEF NodeInv, TypeOK, LatestNamed, ServerLocations, ClientLocations, ServerGoto,
            ClientGoto, Buffers, queueVars, bufferVars, serverVars, clientVars
<1>1. CASE CreateServer
  BY <1>1, EmptySeq DEF CreateServer, FirstNode
<1>2. CASE ServerReady
  BY <1>2 DEF ServerReady
<1>3. CASE ReceiveRequest
  <2>1. serving \in Buffers
    BY <1>3 DEF ReceiveRequest
  <2>2. /\ Head(requests[serving]) \in Clients
        /\ Tail(requests[serving]) \in Seq(Clients)
    BY <1>3, <2>1, PostedQueued, RangeTail DEF ReceiveRequest
  <2>5. posted' \in [Buffers -> Nat]
    <3>1. posted[serving] - 1 \in Nat
      BY <1>3, <2>1, PostedQueued DEF ReceiveRequest
    <3> QED
      BY <1>3, <3>1 DEF ReceiveRequest
  <2>3. requests' \in [Buffers -> Seq(Clients)]
    BY <1>3, <2>2 DEF ReceiveRequest
  <2>4. request' \in [node : Int, shmid : Clients \cup {None}]
    BY <1>3, <2>2 DEF ReceiveRequest, ConnectRequest
  <2> QED
    BY <1>3, <2>3, <2>4, <2>5 DEF ReceiveRequest
<1>4. CASE RegisterClient
  <2>1. CASE segment[request.shmid] = "exists"
    <3> DEFINE entry == [node |-> max_client, shmid |-> request.shmid]
    <3>1. entry \in ServerClient
      BY <1>4 DEF RegisterClient, RequestOwned, ServerClient
    <3>2. <<entry>> \o clients \in Seq(ServerClient)
      BY <3>1, RangePrepend
    <3>3. clients' \in Seq(ServerClient)
      BY <1>4, <2>1, <3>2 DEF RegisterClient
    <3>4. request' = [request EXCEPT !.node = max_client]
      BY <1>4, <2>1 DEF RegisterClient
    <3>5. request' \in [node : Int, shmid : Clients \cup {None}]
      <4>1. request \in [node : Int, shmid : Clients \cup {None}] /\ max_client \in Int
        OBVIOUS
      <4> HIDE DEF NodeInv, TypeOK, LatestNamed
      <4> QED
        BY <3>4, <4>1
    <3> QED
      BY <1>4, <2>1, <3>3, <3>5 DEF RegisterClient, NextNode
  <2>2. CASE segment[request.shmid] # "exists"
    BY <1>4, <2>2 DEF RegisterClient, NextNode
  <2> QED
    BY <2>1, <2>2
<1>5. CASE AnswerClient
  <2> DEFINE c == request.shmid
  <2>1. /\ ClientGet(request.node).shmid = c /\ c \in Clients
        /\ request.node \in Nat \ {0}
    BY <1>5, AnswersRegistered DEF AnswerClient
  <2>2. Append(answers[c], request.node) \in Seq(Nat \ {0})
    BY <2>1, AppendProperties
  <2>3. answers' = [answers EXCEPT ![c] = Append(@, request.node)]
    BY <1>5, <2>1 DEF AnswerClient
  <2>4. answers' \in [Clients -> Seq(Nat \ {0})]
    BY <2>2, <2>3
  <2>5. request' = NoRequest /\ NoRequest \in [node : Int, shmid : Clients \cup {None}]
    BY <1>5 DEF AnswerClient, NoRequest
  <2>6. /\ serverAt' = "receive"
        /\ UNCHANGED <<bufferVars, serving, clients, max_client, clientAt, attached,
                       segment, id>>
    BY <1>5 DEF AnswerClient
  <2> QED
    BY <2>4, <2>5, <2>6
<1>6. CASE AnswerFails
  BY <1>6 DEF AnswerFails
<1>7. CASE Terminate \/ Interrupt \/ KillServer
  <2>1. CASE DestroyServer
    <3>1. destroyed' \in [Buffers -> BOOLEAN]
      BY <2>1 DEF DestroyServer
    <3> QED
      BY <2>1, <3>1 DEF DestroyServer, NoRequest
  <2>2. CASE LeaveSegment
    BY <2>2 DEF LeaveSegment, NoRequest
  <2> QED
    BY <1>7, <2>1, <2>2 DEF Terminate, Interrupt, KillServer
<1>8. ASSUME NEW c \in Clients,
             CreateClient(c) \/ AttachFails(c) \/ InitPacket(c) \/ InitPacketFails(c)
               \/ OpenFails(c) \/ MarkFails(c) \/ SendInterrupted(c)
               \/ ReceiveInterrupted(c) \/ DestroyClient(c) \/ KillClient(c)
      PROVE  TypeOK'
  <2>1. CASE ConnectFails(c)
    BY <2>1 DEF ConnectFails
  <2>2. CASE CreateClient(c)
    BY <2>2 DEF CreateClient
  <2>3. CASE DestroyClient(c)
    BY <2>3 DEF DestroyClient
  <2>4. CASE InitPacket(c)
    BY <2>4 DEF InitPacket
  <2>5. CASE KillClient(c)
    BY <2>5 DEF KillClient
  <2> QED
    BY <1>8, <2>1, <2>2, <2>3, <2>4, <2>5
       DEF AttachFails, InitPacketFails, OpenFails, MarkFails, SendInterrupted,
           ReceiveInterrupted
<1>9. ASSUME NEW c \in Clients, Attach(c) PROVE TypeOK'
  BY <1>9 DEF Attach
<1>10. ASSUME NEW c \in Clients, OpenRequest(c) PROVE TypeOK'
  BY <1>10 DEF OpenRequest
<1>11. ASSUME NEW c \in Clients, SizeRequest(c) PROVE TypeOK'
  <2> DEFINE b == attached[c]
  <2>1. b \in Buffers => Append(requests[b], c) \in Seq(Clients)
    BY AppendProperties
  <2>2. requests' \in [Buffers -> Seq(Clients)]
    BY <1>11, <2>1 DEF SizeRequest
  <2>3. writer' \in [Buffers -> Clients \cup {None}]
    BY <1>11 DEF SizeRequest
  <2>4. clientAt' \in [Clients -> ClientLocations]
    BY <1>11 DEF SizeRequest
  <2> QED
    BY <1>11, <2>2, <2>3, <2>4 DEF SizeRequest
<1>12. ASSUME NEW c \in Clients, ReceiveAnswer(c) PROVE TypeOK'
  <2>1. /\ Head(answers[c]) \in Nat \ {0}
        /\ Tail(answers[c]) \in Seq(Nat \ {0})
    BY <1>12, RangeTail DEF ReceiveAnswer
  <2> QED
    BY <1>12, <2>1 DEF ReceiveAnswer
<1>13. CASE UNCHANGED vars
  BY <1>13 DEF vars
<1>14. ASSUME NEW c \in Clients, MarkRequest(c) PROVE TypeOK'
  <2>1. closer' \in [Buffers -> Clients \cup {None}]
    BY <1>14 DEF MarkRequest
  <2>2. written' \in [Buffers -> SUBSET Clients]
    <3>1. written' = [written EXCEPT ![attached[c]] = @ \cup {c}]
      BY <1>14 DEF MarkRequest
    <3>2. \A b \in Buffers : written[b] \cup {c} \in SUBSET Clients
      OBVIOUS
    <3> QED
      BY <3>1, <3>2
  <2>3. clientAt' \in [Clients -> ClientLocations]
    BY <1>14 DEF MarkRequest
  <2> QED
    BY <1>14, <2>1, <2>2, <2>3 DEF MarkRequest
<1>15. ASSUME NEW c \in Clients, PostRequest(c) PROVE TypeOK'
  <2>1. posted' = [posted EXCEPT ![attached[c]] = @ + 1]
    BY <1>15 DEF PostRequest
  <2>2. posted' \in [Buffers -> Nat]
    <3>1. posted \in [Buffers -> Nat] /\ \A b \in Buffers : posted[b] + 1 \in Nat
      OBVIOUS
    <3> HIDE DEF NodeInv, TypeOK, LatestNamed, Buffers
    <3> QED
      BY <2>1, <3>1
  <2> QED
    BY <1>15, <2>2 DEF PostRequest
<1>16. ASSUME NEW c \in Clients, CloseRequest(c) PROVE TypeOK'
  <2>1. closer' \in [Buffers -> Clients \cup {None}]
    BY <1>16 DEF CloseRequest
  <2>2. clientAt' \in [Clients -> ClientLocations]
    BY <1>16 DEF CloseRequest
  <2> QED
    BY <1>16, <2>1, <2>2 DEF CloseRequest
<1> QED
  BY <1>1, <1>2, <1>3, <1>4, <1>5, <1>6, <1>7, <1>8, <1>9, <1>10, <1>11, <1>12, <1>13,
     <1>14, <1>15, <1>16
     DEF Next, ServerStep, ClientStep

-----------------------------------------------------------------------------
(* The steps of the server.                                                *)

\* Most steps touch neither a node id nor a list entry nor a request.
LEMMA NodesKept ==
  ASSUME NodeInv, TypeOK', PostedThere',
         UNCHANGED <<requests, serving, clients, max_client, attached, answers, id>>,
         \/ serverAt' \notin {"register", "answer"}
         \/ serverAt' = serverAt /\ request' = request,
         serverAt' # "down" => serving # 0,
         named' \in {0, named},
         \A c \in Clients : clientAt'[c] \in {"start", "create"} => attached[c] = 0
  PROVE  NodeInv'
<1>1. \A c \in Clients : Nodes(c)' = Nodes(c)
  BY DEF Nodes
<1>2. LatestNamed' /\ RequestsStay' /\ NodesUsedUp' /\ RequestOwned'
  BY DEF NodeInv, LatestNamed, RequestsStay, NodesUsedUp, RequestOwned
<1>3. NothingBefore' /\ NodesRecorded' /\ NodesDistinct' /\ NodeUnanswered'
  BY <1>1 DEF NodeInv, NothingBefore, NodesRecorded, NodesDistinct, NodeUnanswered
<1> QED
  BY <1>2, <1>3 DEF NodeInv

\* Nobody's id or list entry is in the buffer that is cleared.
LEMMA ServerReadyNode == NodeInv /\ ServerReady /\ TypeOK' => NodeInv'
<1> SUFFICES ASSUME NodeInv, ServerReady, TypeOK' PROVE NodeInv'
  OBVIOUS
<1>0. PostedThere'
  <2> SUFFICES ASSUME NEW b \in Buffers PROVE posted'[b] <= Len(requests'[b])
    BY DEF PostedThere
  <2>1. CASE b = serving
    <3>1. posted'[b] = 0 /\ requests'[b] = << >>
      BY <2>1 DEF ServerReady, NodeInv, TypeOK
    <3> QED
      BY <3>1, EmptySeq
  <2>2. CASE b # serving
    <3>1. posted'[b] = posted[b] /\ requests'[b] = requests[b]
      BY <2>2 DEF ServerReady, NodeInv, TypeOK
    <3> QED
      BY <3>1 DEF NodeInv, PostedThere
  <2> QED
    BY <2>1, <2>2
<1>1. /\ requests' = [requests EXCEPT ![serving] = << >>]
      /\ serverAt = "creating" /\ serverAt' = "receive"
      /\ UNCHANGED <<named, serving, clients, max_client, clientVars>>
  BY DEF ServerReady, ServerGoto
<1>2. \A c \in Clients : Nodes(c)' = Nodes(c)
  BY <1>1 DEF Nodes, clientVars
<1>3. RequestsStay'
  <2> SUFFICES ASSUME NEW b \in Buffers, NEW c \in Range(requests'[b])
               PROVE  attached[c] = b
    BY <1>1 DEF RequestsStay, clientVars
  <2>1. Range(<< >>) = {}
    BY DEF Range
  <2>2. requests'[b] = requests[b]
    BY <1>1, <2>1 DEF NodeInv, TypeOK
  <2> QED
    BY <2>2 DEF NodeInv, RequestsStay
<1>4. LatestNamed' /\ NodesUsedUp' /\ RequestOwned' /\ NodeUnanswered'
  BY <1>1 DEF clientVars, NodeInv, LatestNamed, NodesUsedUp, RequestOwned, NodeUnanswered
<1>5. NothingBefore' /\ NodesRecorded' /\ NodesDistinct'
  BY <1>1, <1>2 DEF clientVars, NodeInv, NothingBefore, NodesRecorded, NodesDistinct
<1> QED
  BY <1>0, <1>3, <1>4, <1>5 DEF NodeInv

\* A new server starts with an empty list, and nobody has attached to its buffer.
LEMMA CreateServerNode == NodeInv /\ CreateServer /\ TypeOK' => NodeInv'
<1> SUFFICES ASSUME NodeInv, CreateServer, TypeOK' PROVE NodeInv'
  OBVIOUS
<1> USE DEF CreateServer, ServerGoto, queueVars, clientVars
<1>1. \A c \in Clients : Nodes(c)' = Nodes(c)
  BY DEF Nodes
<1>2. \A c \in Clients : attached'[c] # serving'
  BY DEF NodeInv, TypeOK, LatestNamed, Buffers
<1>3. LatestNamed'
  <2>1. named' = serving' /\ serving' # 0
    BY DEF NodeInv, TypeOK, Buffers
  <2>2. \A c \in Clients : attached'[c] <= serving'
    <3>1. serving \in Int /\ \A c \in Clients : attached[c] \in Int
      BY ConnectAssumption DEF NodeInv, TypeOK, Buffers
    <3> QED
      BY <3>1 DEF NodeInv, LatestNamed
  <2> QED
    BY <2>1, <2>2 DEF LatestNamed
<1>4. NodesUsedUp'
  BY DEF NodesUsedUp, Range
<1>5. RequestsStay' /\ RequestOwned' /\ NodeUnanswered' /\ PostedThere'
  BY DEF NodeInv, PostedThere, RequestsStay, RequestOwned, NodeUnanswered
<1>6. NothingBefore' /\ NodesDistinct' /\ NodesRecorded'
  BY <1>1, <1>2 DEF NodeInv, NothingBefore, NodesDistinct, NodesRecorded
<1> QED
  BY <1>3, <1>4, <1>5, <1>6 DEF NodeInv

\* The request comes from a client that has attached to this very buffer.
LEMMA ReceiveRequestNode == NodeInv /\ ReceiveRequest /\ TypeOK' => NodeInv'
<1> SUFFICES ASSUME NodeInv, ReceiveRequest, TypeOK' PROVE NodeInv'
  OBVIOUS
<1> USE DEF ReceiveRequest, ServerGoto, clientVars
<1>1. serving \in Buffers
  BY DEF NodeInv, TypeOK, LatestNamed
<1>2. /\ Head(requests[serving]) \in Range(requests[serving])
      /\ Head(requests[serving]) \in Clients
      /\ Range(Tail(requests[serving])) \subseteq Range(requests[serving])
  BY <1>1, PostedQueued, RangeTail
<1>8. PostedThere'
  <2> SUFFICES ASSUME NEW b \in Buffers PROVE posted'[b] <= Len(requests'[b])
    BY DEF PostedThere
  <2>1. CASE b = serving
    <3>1. posted'[b] = posted[b] - 1 /\ requests'[b] = Tail(requests[b])
      BY <2>1 DEF NodeInv, TypeOK
    <3>2. Len(Tail(requests[b])) = Len(requests[b]) - 1 /\ Len(requests[b]) \in Nat
      BY <2>1, PostedQueued, HeadTailProperties, LenProperties
    <3> QED
      BY <3>1, <3>2 DEF NodeInv, PostedThere, TypeOK
  <2>2. CASE b # serving
    <3>1. posted'[b] = posted[b] /\ requests'[b] = requests[b]
      BY <2>2 DEF NodeInv, TypeOK
    <3> QED
      BY <3>1 DEF NodeInv, PostedThere
  <2> QED
    BY <2>1, <2>2
<1>3. RequestsStay'
  <2> SUFFICES ASSUME NEW b \in Buffers, NEW c \in Range(requests'[b])
               PROVE  attached[c] = b
    BY DEF RequestsStay
  <2>1. c \in Range(requests[b])
    <3>1. CASE b = serving
      <4>1. requests'[b] = Tail(requests[b])
        BY <3>1 DEF NodeInv, TypeOK
      <4> QED
        BY <4>1, <3>1, <1>2
    <3>2. CASE b # serving
      <4>1. requests'[b] = requests[b]
        BY <3>2 DEF NodeInv, TypeOK
      <4> QED
        BY <4>1
    <3> QED
      BY <3>1, <3>2
  <2> QED
    BY <2>1 DEF NodeInv, RequestsStay
<1>4. RequestOwned'
  <2>1. request'.shmid = Head(requests[serving])
    BY DEF ConnectRequest
  <2> QED
    BY <1>1, <1>2, <2>1 DEF NodeInv, RequestsStay, RequestOwned
<1>5. \A c \in Clients : Nodes(c)' = Nodes(c)
  BY DEF Nodes
<1>6. LatestNamed' /\ NodesUsedUp' /\ NodeUnanswered'
  BY DEF NodeInv, LatestNamed, NodesUsedUp, NodeUnanswered
<1>7. NothingBefore' /\ NodesRecorded' /\ NodesDistinct'
  BY <1>5 DEF NodeInv, NothingBefore, NodesRecorded, NodesDistinct
<1> QED
  BY <1>3, <1>4, <1>6, <1>7, <1>8 DEF NodeInv

\* A registered client gets an id that was never in the list.
LEMMA RegisterClientNode == NodeInv /\ RegisterClient /\ TypeOK' => NodeInv'
<1> SUFFICES ASSUME NodeInv, RegisterClient, TypeOK' PROVE NodeInv'
  OBVIOUS
<1> USE DEF ServerGoto, queueVars, bufferVars, clientVars
<1> DEFINE entry == [node |-> max_client, shmid |-> request.shmid]
<1>1. /\ serverAt = "register" /\ max_client' = max_client + 1
      /\ UNCHANGED <<bufferVars, serving, clientVars>>
  BY DEF RegisterClient, NextNode
<1>2. /\ max_client \in Nat \ {0} /\ clients \in Seq(ServerClient)
      /\ \A r \in Range(clients) : r \in ServerClient /\ r.node < max_client
  BY RangeOfSeq DEF NodeInv, TypeOK, NodesUsedUp
<1>3. /\ request.shmid \in Clients /\ attached[request.shmid] = serving
      /\ entry \in ServerClient
  BY <1>1, <1>2 DEF NodeInv, RequestOwned, ServerClient
<1>4. \A c \in Clients : Nodes(c)' = Nodes(c)
  BY <1>1 DEF Nodes
<1>5. LatestNamed' /\ RequestsStay' /\ NothingBefore' /\ NodesDistinct' /\ PostedThere'
  <2>1. LatestNamed' /\ PostedThere'
    BY <1>1 DEF NodeInv, LatestNamed, PostedThere
  <2>2. RequestsStay'
    BY <1>1 DEF NodeInv, RequestsStay
  <2>3. NothingBefore' /\ NodesDistinct'
    BY <1>1, <1>4 DEF NodeInv, NothingBefore, NodesDistinct
  <2> QED
    BY <2>1, <2>2, <2>3
<1>6. CASE segment[request.shmid] = "exists"
  <2>1. /\ clients' = <<entry>> \o clients
        /\ request' = [request EXCEPT !.node = max_client]
        /\ serverAt' = "answer"
    BY <1>6 DEF RegisterClient
  <2>2. request'.node = max_client /\ request'.shmid = request.shmid
    BY <2>1 DEF NodeInv, TypeOK
  <2>3. /\ clients' # << >> /\ clients'[1] = entry
        /\ Range(clients') = {entry} \cup Range(clients)
    BY <1>2, <1>3, <2>1, RangePrepend
  <2>4. RequestOwned'
    BY <1>1, <1>3, <2>1, <2>2, <2>3 DEF RequestOwned
  <2>5. NodesUsedUp'
    <3> SUFFICES ASSUME NEW r \in Range(clients') PROVE r.node < max_client + 1
      BY <1>1 DEF NodesUsedUp
    <3>1. CASE r = entry
      BY <3>1, <1>2
    <3>2. CASE r \in Range(clients)
      <4>1. r.node \in Nat /\ r.node < max_client
        BY <3>2, <1>2 DEF ServerClient
      <4> QED
        BY <4>1, <1>2
    <3> QED
      BY <2>3, <3>1, <3>2
  <2>6. NodeUnanswered'
    <3> SUFFICES ASSUME NEW c \in Clients, attached[c] = serving,
                        max_client \in Nodes(c)
                 PROVE  FALSE
      BY <1>1, <1>4, <2>2 DEF NodeUnanswered
    <3>1. [node |-> max_client, shmid |-> c] \in Range(clients)
      BY DEF NodeInv, NodesRecorded
    <3> QED
      BY <3>1, <1>2
  <2>7. NodesRecorded'
    BY <1>1, <1>4, <2>3 DEF NodeInv, NodesRecorded
  <2> QED
    BY <1>5, <2>4, <2>5, <2>6, <2>7 DEF NodeInv
<1>7. CASE segment[request.shmid] # "exists"
  <2>1. serverAt' = "failed" /\ UNCHANGED <<clients, request>>
    BY <1>7 DEF RegisterClient
  <2>2. RequestOwned' /\ NodeUnanswered'
    BY <2>1 DEF RequestOwned, NodeUnanswered
  <2>3. NodesUsedUp'
    <3>1. \A r \in Range(clients) : r.node \in Nat /\ r.node < max_client
      BY <1>2 DEF ServerClient
    <3> QED
      BY <1>1, <1>2, <2>1, <3>1 DEF NodesUsedUp
  <2>4. NodesRecorded'
    BY <1>1, <1>4, <2>1 DEF NodeInv, NodesRecorded
  <2> QED
    BY <1>5, <2>2, <2>3, <2>4 DEF NodeInv
<1> QED
  BY <1>6, <1>7

\* The answer goes to the client the list has under the id.
LEMMA AnswerClientNode == NodeInv /\ AnswerClient /\ TypeOK' => NodeInv'
<1> SUFFICES ASSUME NodeInv, AnswerClient, TypeOK' PROVE NodeInv'
  OBVIOUS
<1> USE DEF ServerGoto, queueVars, bufferVars
<1>1. /\ serverAt = "answer" /\ serverAt' = "receive"
      /\ UNCHANGED <<bufferVars, serving, clients, max_client, clientAt, attached,
                     segment, id>>
  BY DEF AnswerClient
<1>2. PICK c \in Clients, node \in Nat \ {0} :
        /\ c = request.shmid /\ node = request.node
        /\ ClientGet(request.node).shmid = c
  BY <1>1, AnswersRegistered DEF NodeInv
<1>3. /\ attached[c] = serving /\ serving # 0
      /\ clients # << >> /\ clients[1] = [node |-> node, shmid |-> c]
  BY <1>1, <1>2 DEF NodeInv, RequestOwned, LatestNamed
<1>4. [node |-> node, shmid |-> c] \in Range(clients)
  <2>1. clients \in Seq(ServerClient) /\ Len(clients) \in Nat \ {0}
    BY <1>3, EmptySeq DEF NodeInv, TypeOK
  <2> QED
    BY <1>3, <2>1, RangeEquality
<1>5. Nodes(c)' = Nodes(c) \cup {node}
  <2>1. answers[c] \in Seq(Nat \ {0}) /\ answers'[c] = Append(answers[c], node)
    BY <1>2 DEF AnswerClient, NodeInv, TypeOK
  <2>2. Range(answers'[c]) = Range(answers[c]) \cup {node}
    BY <1>2, <2>1, RangeAppend
  <2> QED
    BY <1>1, <2>2 DEF Nodes
<1>6. \A d \in Clients : d # c => Nodes(d)' = Nodes(d)
  <2>1. \A d \in Clients : d # c => answers'[d] = answers[d]
    BY <1>2 DEF AnswerClient, NodeInv, TypeOK
  <2> QED
    BY <1>1, <2>1 DEF Nodes
<1>7. \A d \in Clients : attached[d] = serving => node \notin Nodes(d)
  BY <1>1, <1>2 DEF NodeInv, NodeUnanswered
<1>8. NodesRecorded'
  BY <1>1, <1>4, <1>5, <1>6 DEF NodeInv, NodesRecorded
<1>9. NodesDistinct'
  BY <1>1, <1>3, <1>5, <1>6, <1>7 DEF NodeInv, NodesDistinct
<1>10. NothingBefore'
  BY <1>1, <1>3, <1>5, <1>6 DEF NodeInv, NothingBefore
<1>11. RequestOwned' /\ NodeUnanswered' /\ LatestNamed'
  BY <1>1 DEF NodeInv, RequestOwned, NodeUnanswered, LatestNamed
<1>12. RequestsStay' /\ NodesUsedUp' /\ PostedThere'
  BY <1>1 DEF NodeInv, RequestsStay, NodesUsedUp, PostedThere
<1> QED
  BY <1>8, <1>9, <1>10, <1>11, <1>12 DEF NodeInv

-----------------------------------------------------------------------------
(* The steps of a client.                                                  *)

\* A client that attaches brings no ids, whatever server it attaches to.
LEMMA AttachNode ==
  ASSUME NodeInv, TypeOK', NEW c \in Clients, Attach(c)
  PROVE  NodeInv'
<1> USE DEF ClientGoto, queueVars, bufferVars, serverVars
<1>1. /\ clientAt[c] = "create" /\ named # 0
      /\ attached' = [attached EXCEPT ![c] = named]
      /\ clientAt' = [clientAt EXCEPT ![c] = "init_packet"]
      /\ UNCHANGED <<bufferVars, serverVars, segment, answers, id>>
  BY DEF Attach
<1>2. attached[c] = 0 /\ Nodes(c) = {}
  BY <1>1 DEF NodeInv, NothingBefore
<1>3. named = serving /\ serving \in Buffers
  BY <1>1 DEF NodeInv, TypeOK, LatestNamed
<1>4. /\ attached'[c] = serving /\ clientAt'[c] = "init_packet"
      /\ \A d \in Clients : d # c =>
           attached'[d] = attached[d] /\ clientAt'[d] = clientAt[d]
  BY <1>1, <1>3 DEF NodeInv, TypeOK
<1>5. \A d \in Clients : Nodes(d)' = Nodes(d)
  BY <1>1 DEF Nodes
<1>6. LatestNamed'
  <2>1. serving <= serving
    BY <1>3, ConnectAssumption DEF Buffers
  <2> QED
    BY <1>1, <1>4, <2>1 DEF NodeInv, LatestNamed
<1>7. NothingBefore'
  BY <1>2, <1>4, <1>5 DEF NodeInv, NothingBefore
<1>8. RequestsStay'
  <2> SUFFICES ASSUME NEW b \in Buffers, NEW d \in Range(requests[b])
               PROVE  attached'[d] = b
    BY <1>1 DEF RequestsStay
  <2>1. d \in Clients
    BY RangeOfSeq DEF NodeInv, TypeOK
  <2>2. attached[d] = b /\ b # 0
    BY DEF NodeInv, RequestsStay, Buffers
  <2> QED
    BY <1>2, <1>4, <2>1, <2>2
<1>9. RequestOwned'
  BY <1>1, <1>2, <1>4 DEF NodeInv, LatestNamed, RequestOwned
<1>10. NodesUsedUp' /\ PostedThere'
  BY <1>1 DEF NodeInv, NodesUsedUp, PostedThere
<1>11. NodeUnanswered' /\ NodesRecorded' /\ NodesDistinct'
  <2>1. NodeUnanswered'
    BY <1>1, <1>2, <1>4, <1>5 DEF NodeInv, NodeUnanswered
  <2>2. NodesRecorded'
    BY <1>1, <1>2, <1>4, <1>5 DEF NodeInv, NodesRecorded
  <2>3. NodesDistinct'
    BY <1>2, <1>4, <1>5 DEF NodeInv, NodesDistinct
  <2> QED
    BY <2>1, <2>2, <2>3
<1> QED
  BY <1>6, <1>7, <1>8, <1>9, <1>10, <1>11 DEF NodeInv

\* A request goes into the buffer its client has attached to.
LEMMA SizeRequestNode ==
  ASSUME NodeInv, TypeOK', NEW c \in Clients, SizeRequest(c)
  PROVE  NodeInv'
<1> USE DEF ClientGoto, serverVars
<1>1. /\ clientAt' = [clientAt EXCEPT ![c] = "closing"]
      /\ UNCHANGED <<named, posted, serverVars, attached, answers, id>>
  BY DEF SizeRequest
<1>2. \A d \in Clients : Nodes(d)' = Nodes(d)
  BY <1>1 DEF Nodes
<1>3. RequestsStay'
  <2> SUFFICES ASSUME NEW b \in Buffers, NEW d \in Range(requests'[b])
               PROVE  attached[d] = b
    BY <1>1 DEF RequestsStay
  <2>1. CASE b = attached[c]
    <3>1. requests[b] \in Seq(Clients) /\ requests'[b] = Append(requests[b], c)
      BY <2>1 DEF SizeRequest, NodeInv, TypeOK
    <3>2. Range(requests'[b]) = Range(requests[b]) \cup {c}
      BY <3>1, RangeAppend
    <3> QED
      BY <2>1, <3>2 DEF NodeInv, RequestsStay
  <2>2. CASE b # attached[c]
    <3>1. requests'[b] = requests[b]
      BY <2>2 DEF SizeRequest, NodeInv, TypeOK
    <3> QED
      BY <3>1 DEF NodeInv, RequestsStay
  <2> QED
    BY <2>1, <2>2
<1>4. NothingBefore'
  <2>1. clientAt'[c] = "closing" /\ \A d \in Clients : d # c => clientAt'[d] = clientAt[d]
    BY <1>1 DEF NodeInv, TypeOK
  <2> QED
    BY <1>1, <1>2, <2>1 DEF NodeInv, NothingBefore
<1>5. NodeUnanswered' /\ NodesRecorded' /\ NodesDistinct'
  BY <1>1, <1>2 DEF NodeInv, NodeUnanswered, NodesRecorded, NodesDistinct
<1>6. LatestNamed' /\ RequestOwned' /\ NodesUsedUp'
  BY <1>1 DEF NodeInv, LatestNamed, RequestOwned, NodesUsedUp
<1>7. PostedThere'
  <2> SUFFICES ASSUME NEW b \in Buffers PROVE posted[b] <= Len(requests'[b])
    BY <1>1 DEF PostedThere
  <2>1. requests[b] \in Seq(Clients) /\ posted[b] \in Nat /\ posted[b] <= Len(requests[b])
    BY DEF NodeInv, TypeOK, PostedThere
  <2>2. CASE b = attached[c]
    <3>1. requests'[b] = Append(requests[b], c)
      BY <2>2 DEF SizeRequest, NodeInv, TypeOK
    <3>2. Len(requests'[b]) = Len(requests[b]) + 1 /\ Len(requests[b]) \in Nat
      BY <2>1, <3>1, AppendProperties, LenProperties
    <3> QED
      BY <2>1, <3>2
  <2>3. CASE b # attached[c]
    BY <2>1, <2>3 DEF SizeRequest, NodeInv, TypeOK
  <2> QED
    BY <2>2, <2>3
<1> QED
  BY <1>3, <1>4, <1>5, <1>6, <1>7 DEF NodeInv

\* The id a client takes was in its buffer before.
LEMMA ReceiveAnswerNode ==
  ASSUME NodeInv, TypeOK', NEW c \in Clients, ReceiveAnswer(c)
  PROVE  NodeInv'
<1> USE DEF ClientGoto, queueVars, bufferVars, serverVars
<1>1. /\ answers[c] # << >>
      /\ id' = [id EXCEPT ![c] = Head(answers[c])]
      /\ answers' = [answers EXCEPT ![c] = Tail(@)]
      /\ clientAt' = [clientAt EXCEPT ![c] = "connected"]
      /\ UNCHANGED <<bufferVars, serverVars, attached>>
  BY DEF ReceiveAnswer
<1>2. answers[c] \in Seq(Nat \ {0})
  BY DEF NodeInv, TypeOK
<1>3. /\ Head(answers[c]) \in Range(answers[c])
      /\ Range(Tail(answers[c])) \subseteq Range(answers[c])
  BY <1>1, <1>2, RangeTail
<1>4. \A d \in Clients : Nodes(d)' \subseteq Nodes(d)
  <2>1. Nodes(c)' \subseteq Nodes(c)
    <3>1. id'[c] = Head(answers[c]) /\ answers'[c] = Tail(answers[c])
      BY <1>1 DEF NodeInv, TypeOK
    <3> QED
      BY <1>3, <3>1 DEF Nodes
  <2>2. \A d \in Clients : d # c => Nodes(d)' = Nodes(d)
    <3>1. \A d \in Clients : d # c => id'[d] = id[d] /\ answers'[d] = answers[d]
      BY <1>1 DEF NodeInv, TypeOK
    <3> QED
      BY <3>1 DEF Nodes
  <2> QED
    BY <2>1, <2>2
<1>5. NothingBefore'
  <2>1. clientAt'[c] = "connected" /\ \A d \in Clients : d # c => clientAt'[d] = clientAt[d]
    BY <1>1 DEF NodeInv, TypeOK
  <2>2. \A d \in Clients : attached[d] = 0 => Nodes(d)' = {}
    BY <1>4 DEF NodeInv, NothingBefore
  <2> QED
    BY <1>1, <2>1, <2>2 DEF NodeInv, NothingBefore
<1>6. NodeUnanswered' /\ NodesRecorded' /\ NodesDistinct'
  BY <1>1, <1>4 DEF NodeInv, NodeUnanswered, NodesRecorded, NodesDistinct
<1>7. LatestNamed' /\ RequestsStay' /\ RequestOwned' /\ NodesUsedUp' /\ PostedThere'
  BY <1>1 DEF NodeInv, LatestNamed, RequestsStay, RequestOwned, NodesUsedUp, PostedThere
<1> QED
  BY <1>5, <1>6, <1>7 DEF NodeInv

\* Everything else a client does only moves it on or ends it.
LEMMA ClientMovesNode ==
  ASSUME NodeInv, TypeOK', NEW c \in Clients,
         CreateClient(c) \/ AttachFails(c) \/ InitPacket(c) \/ InitPacketFails(c)
           \/ OpenRequest(c) \/ OpenFails(c) \/ MarkRequest(c) \/ MarkFails(c)
           \/ PostRequest(c) \/ CloseRequest(c) \/ SendInterrupted(c)
           \/ ReceiveInterrupted(c) \/ DestroyClient(c) \/ KillClient(c)
  PROVE  NodeInv'
<1> USE DEF ClientGoto, queueVars, bufferVars, serverVars
<1>1. UNCHANGED <<named, requests, serverVars, attached, answers, id>>
  BY DEF CreateClient, AttachFails, InitPacket, InitPacketFails, OpenRequest, OpenFails,
         MarkRequest, MarkFails, PostRequest, CloseRequest, SendInterrupted,
         ReceiveInterrupted, DestroyClient, KillClient, ConnectFails, clientVars
<1>2. \/ clientAt[c] = "start" /\ clientAt' = [clientAt EXCEPT ![c] = "create"]
      \/ \E location \in ClientLocations \ {"start", "create"} :
           clientAt' = [clientAt EXCEPT ![c] = location]
      \/ clientAt' = clientAt
  BY DEF CreateClient, AttachFails, InitPacket, InitPacketFails, OpenRequest, OpenFails,
         MarkRequest, MarkFails, PostRequest, CloseRequest, SendInterrupted,
         ReceiveInterrupted, DestroyClient, KillClient, ConnectFails, ClientLocations,
         clientVars
<1>3. \A d \in Clients : clientAt'[d] \in {"start", "create"} => attached[d] = 0
  BY <1>2 DEF NodeInv, TypeOK, NothingBefore
<1>4. PostedThere'
  <2>1. CASE PostRequest(c)
    <3> SUFFICES ASSUME NEW b \in Buffers PROVE posted'[b] <= Len(requests[b])
      BY <1>1 DEF PostedThere
    <3>1. /\ posted[b] \in Nat /\ posted[b] <= Len(requests[b])
          /\ requests[b] \in Seq(Clients) /\ Len(requests[b]) \in Nat
      BY LenProperties DEF NodeInv, TypeOK, PostedThere
    <3>2. \/ posted'[b] = posted[b]
          \/ posted'[b] = posted[b] + 1 /\ posted[b] < Len(requests[b])
      BY <2>1 DEF PostRequest, NextIsWritten, NodeInv, TypeOK
    <3> QED
      BY <3>1, <3>2
  <2>2. CASE UNCHANGED posted
    BY <1>1, <2>2 DEF NodeInv, PostedThere
  <2> QED
    BY <2>1, <2>2 DEF CreateClient, AttachFails, InitPacket, InitPacketFails, OpenRequest,
       OpenFails, MarkRequest, MarkFails, CloseRequest, SendInterrupted,
       ReceiveInterrupted, DestroyClient, KillClient, ConnectFails
<1> QED
  BY <1>1, <1>3, <1>4, NodesKept DEF NodeInv, LatestNamed

-----------------------------------------------------------------------------
(* The theorems.                                                           *)

LEMMA NextNodeInv == NodeInv /\ [Next]_vars => NodeInv'
<1> SUFFICES ASSUME NodeInv, [Next]_vars PROVE NodeInv'
  OBVIOUS
<1>1. TypeOK'
  BY TypeStep
<1>2. CASE CreateServer
  BY <1>1, <1>2, CreateServerNode
<1>3. CASE ServerStep \/ Interrupt \/ KillServer
  <2>1. CASE ReceiveRequest
    BY <1>1, <2>1, ReceiveRequestNode
  <2>2. CASE RegisterClient
    BY <1>1, <2>2, RegisterClientNode
  <2>3. CASE AnswerClient
    BY <1>1, <2>3, AnswerClientNode
  <2>4. CASE AnswerFails \/ DestroyServer \/ LeaveSegment
    <3>1. /\ UNCHANGED <<requests, posted, serving, clients, max_client, clientVars>>
          /\ serverAt' \in {"failed", "down"}
          /\ named' \in {0, named}
      BY <2>4 DEF AnswerFails, DestroyServer, LeaveSegment, ServerGoto,
                  queueVars, bufferVars
    <3>2. serverAt' # "down" => serving # 0
      BY <2>4 DEF AnswerFails, DestroyServer, LeaveSegment, ServerGoto,
                  NodeInv, LatestNamed
    <3>3. \A c \in Clients : clientAt'[c] \in {"start", "create"} => attached[c] = 0
      BY <3>1 DEF clientVars, NodeInv, NothingBefore
    <3> QED
      BY <1>1, <3>1, <3>2, <3>3, NodesKept DEF clientVars, NodeInv, PostedThere
  <2>5. CASE ServerReady
    BY <1>1, <2>5, ServerReadyNode
  <2> QED
    BY <1>3, <2>1, <2>2, <2>3, <2>4, <2>5 DEF ServerStep, Terminate, Interrupt, KillServer
<1>4. ASSUME NEW c \in Clients,
             ClientStep(c) \/ SendInterrupted(c) \/ ReceiveInterrupted(c) \/ KillClient(c)
      PROVE  NodeInv'
  BY <1>1, <1>4, AttachNode, SizeRequestNode, ReceiveAnswerNode, ClientMovesNode
     DEF ClientStep
<1>5. CASE UNCHANGED vars
  <2>1. UNCHANGED <<bufferVars, serverVars, clientVars>>
    BY <1>5 DEF vars
  <2>2. \A c \in Clients : clientAt'[c] \in {"start", "create"} => attached[c] = 0
    BY <2>1 DEF clientVars, NodeInv, NothingBefore
  <2> QED
    BY <1>1, <2>1, <2>2, NodesKept
       DEF PostedThere, queueVars, bufferVars, serverVars, clientVars, NodeInv, LatestNamed
<1> QED
  BY <1>2, <1>3, <1>4, <1>5 DEF Next

\* Ids that are read are recorded in the list and nobody else's.
LEMMA NodeInvOwn == NodeInv => OwnNode
<1> SUFFICES ASSUME NodeInv, NEW c \in Clients, NEW d \in Clients, id[c] # -1
             PROVE  /\ id[c] > 0
                    /\ attached[c] = serving =>
                         \E i \in 1 .. Len(clients) :
                           clients[i] = [node |-> id[c], shmid |-> c]
                    /\ d # c /\ attached[d] = attached[c] => id[d] # id[c]
  BY DEF OwnNode
<1>1. id[c] \in Nat \ {0} /\ id[c] \in Nodes(c)
  BY DEF NodeInv, TypeOK, Nodes
<1>2. ASSUME attached[c] = serving
      PROVE  \E i \in 1 .. Len(clients) : clients[i] = [node |-> id[c], shmid |-> c]
  <2>1. [node |-> id[c], shmid |-> c] \in Range(clients)
    BY <1>1, <1>2 DEF NodeInv, NodesRecorded
  <2>2. Range(clients) = {clients[i] : i \in 1 .. Len(clients)}
    BY RangeEquality DEF NodeInv, TypeOK
  <2> QED
    BY <2>1, <2>2
<1>3. ASSUME d # c, attached[d] = attached[c] PROVE id[d] # id[c]
  BY <1>1, <1>3 DEF NodeInv, NodesDistinct, Nodes
<1> QED
  BY <1>1, <1>2, <1>3

\* Every variable keeps its type, for any number of clients, any capacity of
\* the server's buffer and any number of restarts.
THEOREM TypeCorrect == Spec => []TypeOK
<1>1. NodeInv => TypeOK
  BY DEF NodeInv
<1> QED
  BY <1>1, InitNode, NextNodeInv, PTL DEF Spec

\* Whoever is killed or interrupted and however often the server is started
\* again, the id a client gets is the one under which its server knows the
\* client's own segment, and no other client of that server gets it.
THEOREM OwnNodeCorrect == Spec => []OwnNode
  BY InitNode, NextNodeInv, NodeInvOwn, PTL DEF Spec

-----------------------------------------------------------------------------
(* A request is in one place at a time.                                    *)

InQueue(c) == \E b \in Buffers : Queued(c, b) # {}

\* Where a client is before it has sent its request.
Preparing == {"start", "create", "init_packet", "open", "writing"}

\* Where it relies on the buffer it has attached to.
Using == {"open", "writing", "closing", "posting", "waiting"}

OnePlace ==
  \A c \in Clients :
    /\ \A b \in Buffers : \A i, j \in Queued(c, b) : i = j
    /\ Len(answers[c]) <= 1
    /\ InQueue(c) => request.shmid # c /\ answers[c] = << >>
    /\ request.shmid = c => answers[c] = << >>
    /\ clientAt[c] \in Preparing => ~InQueue(c) /\ request.shmid # c /\ answers[c] = << >>

\* A server that looks for a request works on none, and nobody writes to a buffer
\* that is not initialised yet.
InTurn ==
  /\ serverAt \in {"down", "creating", "receive"} => request.shmid = None
  /\ \A c \in Clients : clientAt[c] \in Using => BufferReady(attached[c])
  /\ \A c \in Clients : clientAt[c] \in Using \cup {"init_packet"} => attached[c] # 0
  /\ serverAt = "creating" => ~BufferReady(serving)
  /\ \A b \in Buffers : b > serving => ~BufferReady(b)

SomePlace ==
  \A c \in Clients :
    Sending(c) /\ Served(c) =>
      InQueue(c) \/ request.shmid = c \/ answers[c] # << >>

AccountInv == NodeInv /\ OnePlace /\ InTurn /\ SomePlace

LEMMA InitAccount == Init => AccountInv
<1> SUFFICES ASSUME Init PROVE AccountInv
  OBVIOUS
<1>1. \A c \in Clients : \A b \in Buffers : Queued(c, b) = {}
  BY DEF Init, Queued
<1>2. OnePlace
  BY <1>1, ConnectAssumption DEF Init, OnePlace, InQueue, NoRequest
<1>3. InTurn /\ SomePlace
  BY DEF Init, InTurn, SomePlace, NoRequest, BufferReady, Using, Sending
<1> QED
  BY <1>2, <1>3, InitNode DEF AccountInv

\* A client alone moves on, from preparing or from anywhere to a state in which it
\* sends nothing.
LEMMA MovesAccount ==
  ASSUME AccountInv, NodeInv', NEW c \in Clients,
         UNCHANGED <<flags, requests, serverVars, answers>>,
         \A d \in Clients : d # c =>
           clientAt'[d] = clientAt[d] /\ attached'[d] = attached[d],
         Sending(c)' => Sending(c),
         clientAt'[c] \in Preparing => clientAt[c] \in Preparing,
         clientAt'[c] = "init_packet" => attached'[c] # 0,
         clientAt'[c] \in Using =>
           attached[c] # 0 /\ BufferReady(attached[c]) /\ attached'[c] = attached[c]
  PROVE  AccountInv'
<1>1. \A d \in Clients : InQueue(d)' = InQueue(d) /\ \A b \in Buffers : Queued(d, b)' = Queued(d, b)
  BY DEF InQueue, Queued
<1>2. OnePlace'
  BY <1>1 DEF AccountInv, OnePlace, serverVars
<1>3. InTurn'
  BY DEF AccountInv, InTurn, serverVars, BufferReady, Using
<1>4. SomePlace'
  <2>1. \A d \in Clients : Sending(d)' /\ Served(d)' => Sending(d) /\ Served(d)
    BY DEF serverVars, Served, Sending, Using
  <2> QED
    BY <1>1, <2>1 DEF AccountInv, SomePlace, serverVars
<1> QED
  BY <1>2, <1>3, <1>4 DEF AccountInv

\* The server moves on without touching a queue: with the request it works on, or
\* because it is over, or a new one starts.
LEMMA ServerMovesAccount ==
  ASSUME AccountInv, NodeInv', RegisterClient \/ AnswerFails \/ DestroyServer \/ LeaveSegment
                                 \/ CreateServer
  PROVE  AccountInv'
<1>1. UNCHANGED <<flags, requests, clientAt, attached, answers>>
  BY DEF RegisterClient, AnswerFails, DestroyServer, LeaveSegment, CreateServer, queueVars,
     bufferVars, clientVars
<1>2. /\ request'.shmid \in {request.shmid, None}
      /\ serverAt' \in {"down", "creating"} => request'.shmid = None
      /\ serverAt' # "receive"
  <2>1. CASE RegisterClient \/ AnswerFails
    <3>1. /\ request' = request \/ request' = [request EXCEPT !.node = max_client]
          /\ serverAt' \in {"answer", "failed"}
      BY <2>1 DEF RegisterClient, AnswerFails, ServerGoto
    <3> QED
      BY <3>1 DEF AccountInv, NodeInv, TypeOK
  <2>2. CASE DestroyServer \/ LeaveSegment
    BY <2>2 DEF DestroyServer, LeaveSegment, ServerGoto, NoRequest
  <2>3. CASE CreateServer
    BY <2>3 DEF CreateServer, ServerGoto, AccountInv, InTurn
  <2> QED
    BY <2>1, <2>2, <2>3
<1>3. /\ serverAt' = "creating" => serving' = serving + 1 /\ serving' \in Buffers
      /\ serverAt' # "creating" => serving' = serving
  BY DEF RegisterClient, AnswerFails, DestroyServer, LeaveSegment, CreateServer, ServerGoto,
     AccountInv, NodeInv, TypeOK, Buffers
<1>4. \A d \in Clients : Served(d)' => Served(d) /\ request'.shmid = request.shmid
  <2> SUFFICES ASSUME NEW d \in Clients, Served(d)'
               PROVE  Served(d) /\ request'.shmid = request.shmid
    OBVIOUS
  <2>1. RegisterClient
    BY DEF Served, AnswerFails, DestroyServer, LeaveSegment, CreateServer, ServerGoto
  <2> QED
    BY <2>1 DEF Served, RegisterClient, clientVars, AccountInv, NodeInv, TypeOK
<1>5. \A d \in Clients : InQueue(d)' = InQueue(d) /\ \A b \in Buffers : Queued(d, b)' = Queued(d, b)
  BY <1>1 DEF InQueue, Queued
<1>6. OnePlace'
  BY <1>1, <1>2, <1>5, ConnectAssumption DEF AccountInv, OnePlace
<1>7. InTurn'
  <2>1. \A b \in Buffers : BufferReady(b)' = BufferReady(b)
    BY <1>1 DEF BufferReady
  <2>2. \A d \in Clients : BufferReady(attached[d])' = BufferReady(attached[d])
    BY <1>1 DEF BufferReady
  <2>3. serving \in Int /\ Buffers \subseteq Int
    BY DEF AccountInv, NodeInv, TypeOK, Buffers
  <2>4. serverAt' = "creating" => ~BufferReady(serving)'
    <3>1. serverAt' = "creating" => serving' > serving /\ BufferReady(serving)' = BufferReady(serving')
      BY <1>1, <1>3, <2>3 DEF BufferReady
    <3> QED
      BY <1>3, <3>1 DEF AccountInv, InTurn
  <2>5. \A b \in Buffers : b > serving' => b > serving
    BY <1>3, <2>3
  <2> QED
    BY <1>1, <1>2, <2>1, <2>2, <2>4, <2>5 DEF AccountInv, InTurn
<1>8. SomePlace'
  BY <1>1, <1>4, <1>5 DEF AccountInv, SomePlace, Sending
<1> QED
  BY <1>6, <1>7, <1>8 DEF AccountInv

\* Nobody has sent anything through the buffer that is cleared.
LEMMA ServerReadyAccount ==
  ASSUME AccountInv, NodeInv', ServerReady
  PROVE  AccountInv'
<1>1. /\ serverAt = "creating" /\ serverAt' = "receive" /\ request' = request
      /\ requests' = [requests EXCEPT ![serving] = << >>]
      /\ flags' = [flags EXCEPT ![serving] = {"READY"}]
      /\ UNCHANGED <<serving, clientAt, attached, answers>>
  BY DEF ServerReady, ServerGoto, clientVars
<1>2. serving \in Buffers /\ requests \in [Buffers -> Seq(Clients)] /\ flags \in [Buffers -> SUBSET {"READY"}]
  BY <1>1 DEF AccountInv, NodeInv, LatestNamed, TypeOK
<1>3. \A d \in Clients : \A b \in Buffers : Queued(d, b)' \subseteq Queued(d, b)
  <2>1. requests'[serving] = << >> /\ \A b \in Buffers : b # serving => requests'[b] = requests[b]
    BY <1>1, <1>2
  <2> QED
    BY <2>1 DEF Queued
<1>4. \A d \in Clients : InQueue(d)' => InQueue(d)
  BY <1>3 DEF InQueue
<1>5. OnePlace'
  BY <1>1, <1>3, <1>4 DEF AccountInv, OnePlace
<1>6. \A d \in Clients :
        clientAt[d] \in Using => attached[d] \in Buffers /\ attached[d] # serving
  <2>1. \A d \in Clients : BufferReady(attached[d]) => attached[d] # serving
    BY <1>1 DEF AccountInv, InTurn, BufferReady
  <2>2. \A d \in Clients : attached[d] \in Buffers \cup {0}
    BY DEF AccountInv, NodeInv, TypeOK
  <2> QED
    BY <2>1, <2>2, <1>2 DEF AccountInv, InTurn
<1>7. InTurn'
  <2>1. \A b \in Buffers : b # serving => BufferReady(b)' = BufferReady(b)
    BY <1>1, <1>2 DEF BufferReady
  <2>2. \A d \in Clients : clientAt[d] \in Using =>
          BufferReady(attached[d])' = BufferReady(attached[d])
    BY <1>1, <1>2, <1>6 DEF BufferReady
  <2>3. \A b \in Buffers : b > serving => b # serving
    BY DEF Buffers
  <2> QED
    BY <1>1, <2>1, <2>2, <2>3 DEF AccountInv, InTurn
<1>8. SomePlace'
  BY <1>1, <1>6 DEF SomePlace, Served, Sending, Using
<1> QED
  BY <1>5, <1>7, <1>8 DEF AccountInv

\* The request moves from the queue to the server.
LEMMA ReceiveRequestAccount ==
  ASSUME AccountInv, NodeInv', ReceiveRequest
  PROVE  AccountInv'
<1>0. PICK v \in Buffers : v = serving
  BY DEF ReceiveRequest, AccountInv, NodeInv, LatestNamed, TypeOK
<1>1. /\ serverAt = "receive" /\ serverAt' = "register"
      /\ posted[serving] > 0 /\ request' = ConnectRequest(Head(requests[serving]))
      /\ requests' = [requests EXCEPT ![serving] = Tail(@)]
      /\ UNCHANGED <<flags, serving, clientAt, attached, answers>>
  BY DEF ReceiveRequest, ServerGoto, clientVars
<1>2. serving \in Buffers /\ requests \in [Buffers -> Seq(Clients)] /\ requests[serving] \in Seq(Clients)
  BY <1>1 DEF AccountInv, NodeInv, LatestNamed, TypeOK
<1>3. PICK s : s = requests[serving]
  OBVIOUS
<1>4. PICK r : r = Tail(s)
  OBVIOUS
<1>5. PICK n \in Nat : n = Len(s)
  BY <1>2, <1>3, LenProperties
<1>6. /\ n # 0 /\ s \in Seq(Clients) /\ DOMAIN s = 1 .. n /\ s[1] \in Clients
      /\ r \in Seq(Clients) /\ Len(r) = n - 1 /\ \A i \in 1 .. (n - 1) : r[i] = s[i + 1]
  <2>1. s \in Seq(Clients) /\ s # << >>
    BY <1>1, <1>2, <1>3, PostedQueued DEF AccountInv
  <2>2. n # 0 /\ DOMAIN s = 1 .. n
    BY <1>5, <2>1, EmptySeq, LenProperties
  <2>3. s[1] \in Clients
    BY <1>5, <2>1, <2>2, ElementOfSeq
  <2> QED
    BY <1>4, <1>5, <2>1, <2>2, <2>3, HeadTailProperties
<1>7. DOMAIN r = 1 .. (n - 1)
  BY <1>6, LenProperties
<1> DEFINE c == s[1]
<1>8. /\ request'.shmid = c /\ c \in Clients
      /\ requests'[v] = r /\ \A b \in Buffers : b # v => requests'[b] = requests[b]
  BY <1>0, <1>1, <1>2, <1>3, <1>4, <1>6 DEF ConnectRequest
<1>9. \A d \in Clients : Queued(d, v)' = {i \in 1 .. (n - 1) : s[i + 1] = d}
  BY <1>6, <1>7, <1>8, <1>0, <1>1 DEF Queued
<1>10. \A d \in Clients : Queued(d, v) = {i \in 1 .. n : s[i] = d}
  BY <1>0, <1>3, <1>6 DEF Queued
<1>11. \A d \in Clients : \A b \in Buffers : b # v => Queued(d, b)' = Queued(d, b)
  BY <1>8 DEF Queued
<1>12. \A d \in Clients : Queued(d, v)' # {} => Queued(d, v) # {}
  <2>1. \A i \in 1 .. (n - 1) : i + 1 \in 1 .. n
    BY <1>5
  <2> QED
    BY <1>9, <1>10, <2>1
<1>13. \A d \in Clients : InQueue(d)' => InQueue(d)
  BY <1>11, <1>12 DEF InQueue
<1>14. 1 \in Queued(c, v) /\ InQueue(c)
  BY <1>2, <1>5, <1>6, <1>10 DEF InQueue
<1>15. \A d \in Clients : d # c => (InQueue(d) => InQueue(d)')
  <2> SUFFICES ASSUME NEW d \in Clients, d # c, NEW b \in Buffers, Queued(d, b) # {}
               PROVE  InQueue(d)'
    BY DEF InQueue
  <2>1. CASE b # v
    BY <1>11, <2>1 DEF InQueue
  <2>2. CASE b = v
    <3>1. PICK i \in 1 .. n : s[i] = d
      BY <1>10, <2>2
    <3>2. i - 1 \in 1 .. (n - 1) /\ (i - 1) + 1 = i
      BY <3>1
    <3>3. i - 1 \in Queued(d, v)'
      BY <1>9, <3>1, <3>2
    <3> QED
      BY <1>2, <3>3 DEF InQueue
  <2> QED
    BY <2>1, <2>2
<1>16. ~InQueue(c)'
  <2> SUFFICES ASSUME NEW b \in Buffers, Queued(c, b)' # {}
               PROVE  FALSE
    BY DEF InQueue
  <2>1. CASE b = v
    <3>1. PICK i \in 1 .. (n - 1) : s[i + 1] = c
      BY <1>9, <2>1, <1>8
    <3>2. i + 1 \in Queued(c, v) /\ i + 1 # 1
      BY <1>10, <3>1, <1>8
    <3> QED
      BY <1>2, <1>8, <1>14, <3>2 DEF AccountInv, OnePlace
  <2>2. CASE b # v
    <3>1. Queued(c, b) # {}
      BY <1>8, <1>11, <2>2
    <3>2. b = attached[c] /\ v = attached[c]
      <4>1. \A a \in Buffers : Queued(c, a) # {} => c \in Range(requests[a])
        BY DEF Queued, Range
      <4> QED
        BY <1>2, <1>14, <3>1, <4>1 DEF AccountInv, NodeInv, RequestsStay
    <3> QED
      BY <2>2, <3>2
  <2> QED
    BY <2>1, <2>2
<1>17. \A d \in Clients : \A b \in Buffers : \A i, j \in Queued(d, b)' : i = j
  <2> SUFFICES ASSUME NEW d \in Clients, NEW b \in Buffers, NEW i \in Queued(d, b)',
                      NEW j \in Queued(d, b)'
               PROVE  i = j
    OBVIOUS
  <2>1. CASE b # v
    BY <1>11, <2>1 DEF AccountInv, OnePlace
  <2>2. CASE b = v
    <3>1. /\ i \in 1 .. (n - 1) /\ j \in 1 .. (n - 1)
          /\ i + 1 \in Queued(d, v) /\ j + 1 \in Queued(d, v)
      BY <1>5, <1>9, <1>10, <2>2
    <3>2. i + 1 = j + 1
      BY <1>2, <3>1 DEF AccountInv, OnePlace
    <3> QED
      BY <3>1, <3>2
  <2> QED
    BY <2>1, <2>2
<1>18. OnePlace'
  BY <1>1, <1>8, <1>13, <1>14, <1>16, <1>17 DEF AccountInv, OnePlace
<1>19. InTurn'
  BY <1>1 DEF AccountInv, InTurn, BufferReady
<1>20. SomePlace'
  <2> SUFFICES ASSUME NEW d \in Clients, Sending(d), Served(d)'
               PROVE  InQueue(d)' \/ request'.shmid = d \/ answers[d] # << >>
    BY <1>1 DEF SomePlace, Sending
  <2>1. Served(d)
    BY <1>1 DEF Served
  <2>2. request.shmid # d
    BY <1>1, ConnectAssumption DEF AccountInv, InTurn
  <2>3. InQueue(d) \/ answers[d] # << >>
    BY <2>1, <2>2 DEF AccountInv, SomePlace
  <2> QED
    BY <1>8, <1>15, <2>3
<1> QED
  BY <1>18, <1>19, <1>20 DEF AccountInv

\* The request leaves the server as the answer.
LEMMA AnswerClientAccount ==
  ASSUME AccountInv, NodeInv', AnswerClient
  PROVE  AccountInv'
<1>1. PICK c \in Clients : c = request.shmid
  BY AnswersRegistered DEF AnswerClient, AccountInv, NodeInv
<1>2. /\ ClientGet(request.node).shmid = c /\ request.node \in Nat \ {0}
  BY <1>1, AnswersRegistered DEF AnswerClient, AccountInv, NodeInv
<1>3. /\ serverAt = "answer" /\ serverAt' = "receive" /\ request' = NoRequest
      /\ answers' = [answers EXCEPT ![c] = Append(@, request.node)]
      /\ UNCHANGED <<flags, requests, serving, clientAt, attached>>
  BY <1>2 DEF AnswerClient, ServerGoto, queueVars, bufferVars
<1>4. answers[c] = << >> /\ answers \in [Clients -> Seq(Nat \ {0})]
  BY <1>1 DEF AccountInv, OnePlace, NodeInv, TypeOK
<1>5. Len(Append(answers[c], request.node)) = 1
  BY <1>2, <1>4
<1>6. answers'[c] # << >> /\ Len(answers'[c]) = 1
  <2>1. answers'[c] = Append(answers[c], request.node)
    BY <1>3, <1>4
  <2> QED
    BY <1>2, <1>4, <1>5, <2>1
<1>7. \A d \in Clients : d # c => answers'[d] = answers[d]
  BY <1>3, <1>4
<1>8. \A d \in Clients : InQueue(d)' = InQueue(d) /\ \A b \in Buffers : Queued(d, b)' = Queued(d, b)
  BY <1>3 DEF InQueue, Queued
<1>9. request'.shmid = None
  BY <1>3 DEF NoRequest
<1>10. OnePlace'
  BY <1>1, <1>3, <1>6, <1>7, <1>8, <1>9, ConnectAssumption DEF AccountInv, OnePlace
<1>11. InTurn'
  BY <1>3, <1>9 DEF AccountInv, InTurn, BufferReady
<1>12. SomePlace'
  BY <1>1, <1>3, <1>6, <1>7, <1>8 DEF AccountInv, SomePlace, Served, Sending
<1> QED
  BY <1>10, <1>11, <1>12 DEF AccountInv

\* The only place a request is in when it is sent is the queue.
LEMMA SizeRequestAccount ==
  ASSUME AccountInv, NodeInv', NEW c \in Clients, SizeRequest(c)
  PROVE  AccountInv'
<1>1. PICK v \in Buffers : v = attached[c]
  BY DEF SizeRequest, AccountInv, InTurn, NodeInv, TypeOK
<1>2. /\ clientAt[c] = "writing" /\ clientAt' = [clientAt EXCEPT ![c] = "closing"]
      /\ requests' = [requests EXCEPT ![v] = Append(@, c)]
      /\ UNCHANGED <<flags, serverVars, attached, answers>>
  BY <1>1 DEF SizeRequest, ClientGoto
<1>3. PICK s : s = requests[v]
  OBVIOUS
<1>4. PICK r : r = Append(s, c)
  OBVIOUS
<1>5. PICK n \in Nat : n = Len(s)
  BY <1>3, LenProperties DEF AccountInv, NodeInv, TypeOK
<1>6. /\ s \in Seq(Clients) /\ DOMAIN s = 1 .. n
      /\ requests'[v] = r /\ \A b \in Buffers : b # v => requests'[b] = requests[b]
  BY <1>2, <1>3, <1>4, <1>5, LenProperties DEF AccountInv, NodeInv, TypeOK
<1>7. /\ r \in Seq(Clients) /\ Len(r) = n + 1 /\ r[n + 1] = c /\ \A i \in 1 .. n : r[i] = s[i]
  BY <1>4, <1>5, <1>6, AppendProperties
<1>8. DOMAIN r = 1 .. (n + 1)
  BY <1>7, LenProperties
<1>9. \A d \in Clients : Queued(d, v)' = {i \in 1 .. (n + 1) : r[i] = d}
  BY <1>6, <1>8 DEF Queued
<1>10. \A d \in Clients : Queued(d, v) = {i \in 1 .. n : s[i] = d}
  BY <1>3, <1>6 DEF Queued
<1>11. \A d \in Clients : \A b \in Buffers : b # v => Queued(d, b)' = Queued(d, b)
  BY <1>6 DEF Queued
<1>12. \A i \in 1 .. (n + 1) : i \in 1 .. n \/ i = n + 1
  OBVIOUS
<1>13. \A d \in Clients : d # c => Queued(d, v)' = Queued(d, v)
  <2> SUFFICES ASSUME NEW d \in Clients, d # c
               PROVE  {i \in 1 .. (n + 1) : r[i] = d} = {i \in 1 .. n : s[i] = d}
    BY <1>9, <1>10
  <2>1. \A i \in 1 .. (n + 1) : r[i] = d => i \in 1 .. n /\ s[i] = d
    BY <1>7, <1>12
  <2>2. \A i \in 1 .. n : s[i] = d => i \in 1 .. (n + 1) /\ r[i] = d
    BY <1>7
  <2> QED
    BY <2>1, <2>2
<1>14. ~InQueue(c) /\ request.shmid # c /\ answers[c] = << >>
  BY <1>2 DEF AccountInv, OnePlace, Preparing
<1>15. Queued(c, v)' = {n + 1}
  BY <1>7, <1>9, <1>10, <1>12, <1>14 DEF InQueue
<1>16. \A d \in Clients : d # c => InQueue(d)' = InQueue(d)
  BY <1>11, <1>13 DEF InQueue
<1>17. InQueue(c)'
  BY <1>15 DEF InQueue
<1>18. \A d \in Clients : \A b \in Buffers : \A i, j \in Queued(d, b)' : i = j
  <2>1. \A b \in Buffers : b # v => Queued(c, b)' = {}
    BY <1>11, <1>14 DEF InQueue
  <2> QED
    BY <1>11, <1>13, <1>15, <2>1 DEF AccountInv, OnePlace
<1>19. clientAt'[c] = "closing" /\ \A d \in Clients : d # c => clientAt'[d] = clientAt[d]
  BY <1>2 DEF AccountInv, NodeInv, TypeOK
<1>20. OnePlace'
  <2>1. "closing" \notin Preparing
    BY DEF Preparing
  <2> QED
    BY <1>2, <1>14, <1>16, <1>18, <1>19, <2>1 DEF AccountInv, OnePlace, serverVars
<1>21. InTurn'
  <2>1. BufferReady(attached[c])
    BY <1>2 DEF AccountInv, InTurn, Using
  <2> QED
    BY <1>1, <1>2, <1>19, <2>1 DEF AccountInv, InTurn, serverVars, BufferReady, Buffers, Using
<1>22. SomePlace'
  BY <1>2, <1>16, <1>17, <1>19 DEF AccountInv, SomePlace, serverVars, Served, Sending
<1> QED
  BY <1>20, <1>21, <1>22 DEF AccountInv

\* The answer is the only one.
LEMMA ReceiveAnswerAccount ==
  ASSUME AccountInv, NodeInv', NEW c \in Clients, ReceiveAnswer(c)
  PROVE  AccountInv'
<1>1. /\ answers[c] # << >> /\ answers' = [answers EXCEPT ![c] = Tail(@)]
      /\ clientAt' = [clientAt EXCEPT ![c] = "connected"]
      /\ UNCHANGED <<flags, requests, serverVars, attached>>
  BY DEF ReceiveAnswer, ClientGoto, queueVars, bufferVars
<1>2. answers \in [Clients -> Seq(Nat \ {0})] /\ answers[c] \in Seq(Nat \ {0})
  BY DEF AccountInv, NodeInv, TypeOK
<1>3. PICK a : a = answers[c]
  OBVIOUS
<1>4. a \in Seq(Nat \ {0}) /\ a # << >> /\ Len(a) <= 1 /\ Len(a) \in Nat \ {0}
  BY <1>1, <1>2, <1>3, EmptySeq DEF AccountInv, OnePlace
<1>5. PICK s : s = Tail(a)
  OBVIOUS
<1>6. s \in Seq(Nat \ {0}) /\ Len(s) = 0
  <2>0. Len(a) = 1
    <3>1. PICK m : m = Len(a)
      OBVIOUS
    <3>2. m \in Nat \ {0} /\ m <= 1
      BY <1>4, <3>1
    <3>3. m = 1
      BY <3>2
    <3> QED
      BY <3>1, <3>3
  <2>1. Tail(a) \in Seq(Nat \ {0}) /\ Len(Tail(a)) = Len(a) - 1
    BY <1>4, HeadTailProperties
  <2> QED
    BY <1>5, <2>0, <2>1
<1>7. s = << >>
  BY <1>6, EmptySeq
<1>8. answers'[c] = << >> /\ \A d \in Clients : d # c => answers'[d] = answers[d]
  BY <1>1, <1>2, <1>3, <1>5, <1>7
<1>9. clientAt'[c] = "connected" /\ \A d \in Clients : d # c => clientAt'[d] = clientAt[d]
  BY <1>1 DEF AccountInv, NodeInv, TypeOK
<1>10. \A d \in Clients : InQueue(d)' = InQueue(d) /\ \A b \in Buffers : Queued(d, b)' = Queued(d, b)
  BY <1>1 DEF InQueue, Queued
<1>11. OnePlace'
  <2>1. "connected" \notin Preparing /\ Len(<< >>) = 0
    BY DEF Preparing
  <2> QED
    BY <1>1, <1>8, <1>9, <1>10, <2>1 DEF AccountInv, OnePlace, serverVars
<1>12. InTurn'
  BY <1>1, <1>9 DEF AccountInv, InTurn, serverVars, BufferReady, Using
<1>13. SomePlace'
  BY <1>1, <1>8, <1>9, <1>10 DEF AccountInv, SomePlace, serverVars, Served, Sending
<1> QED
  BY <1>11, <1>12, <1>13 DEF AccountInv

LEMMA NextAccount == AccountInv /\ NodeInv' /\ [Next]_vars => AccountInv'
<1> SUFFICES ASSUME AccountInv, NodeInv', [Next]_vars PROVE AccountInv'
  OBVIOUS
<1>1. CASE CreateServer \/ ServerStep \/ Interrupt \/ KillServer
  BY <1>1, ServerMovesAccount, ServerReadyAccount, ReceiveRequestAccount, AnswerClientAccount
     DEF ServerStep, Terminate, Interrupt, KillServer
<1>2. ASSUME NEW c \in Clients,
             ClientStep(c) \/ SendInterrupted(c) \/ ReceiveInterrupted(c) \/ KillClient(c)
      PROVE  AccountInv'
  <2>0. clientAt \in [Clients -> ClientLocations] /\ attached \in [Clients -> Buffers \cup {0}]
    BY DEF AccountInv, NodeInv, TypeOK
  <2>1. CASE SizeRequest(c) \/ ReceiveAnswer(c)
    BY <2>1, SizeRequestAccount, ReceiveAnswerAccount
  <2>2. CASE Attach(c)
    <3>1. /\ clientAt[c] = "create" /\ clientAt' = [clientAt EXCEPT ![c] = "init_packet"]
          /\ attached' = [attached EXCEPT ![c] = named] /\ named # 0
          /\ UNCHANGED <<flags, requests, serverVars, answers>>
      BY <2>2 DEF Attach, ClientGoto, queueVars, bufferVars
    <3>2. /\ clientAt'[c] = "init_packet" /\ attached'[c] # 0
          /\ \A d \in Clients : d # c => clientAt'[d] = clientAt[d] /\ attached'[d] = attached[d]
      BY <2>0, <3>1
    <3>3. clientAt[c] \in Preparing
      BY <3>1 DEF Preparing
    <3> QED
      BY <3>1, <3>2, <3>3, MovesAccount DEF Using, Sending
  <2>3. CASE \/ CreateClient(c) \/ AttachFails(c) \/ InitPacket(c) \/ InitPacketFails(c)
             \/ OpenRequest(c) \/ OpenFails(c) \/ MarkRequest(c) \/ MarkFails(c)
             \/ PostRequest(c) \/ CloseRequest(c) \/ DestroyClient(c)
             \/ SendInterrupted(c) \/ ReceiveInterrupted(c) \/ KillClient(c)
    <3>1. UNCHANGED <<flags, requests, serverVars, answers, attached>>
      BY <2>3 DEF CreateClient, AttachFails, InitPacket, InitPacketFails, OpenRequest, OpenFails,
         MarkRequest, MarkFails, PostRequest, CloseRequest, DestroyClient, SendInterrupted,
         ReceiveInterrupted, KillClient, ConnectFails, queueVars, bufferVars, clientVars
    <3>2. \/ clientAt[c] = "start" /\ clientAt' = [clientAt EXCEPT ![c] = "create"]
          \/ clientAt[c] = "init_packet" /\ BufferReady(attached[c])
               /\ clientAt' = [clientAt EXCEPT ![c] = "open"]
          \/ clientAt[c] = "open" /\ clientAt' = [clientAt EXCEPT ![c] = "writing"]
          \/ clientAt[c] = "closing" /\ clientAt' = [clientAt EXCEPT ![c] = "posting"]
          \/ clientAt[c] = "posting" /\ clientAt' = [clientAt EXCEPT ![c] = "waiting"]
          \/ clientAt' = clientAt
          \/ \E to \in {"failed", "done", "killed"} : clientAt' = [clientAt EXCEPT ![c] = to]
      BY <2>3 DEF CreateClient, AttachFails, InitPacket, InitPacketFails, OpenRequest, OpenFails,
         MarkRequest, MarkFails, PostRequest, CloseRequest, DestroyClient, SendInterrupted,
         ReceiveInterrupted, KillClient, ConnectFails, ClientGoto, clientVars
    <3>3. /\ Sending(c)' => Sending(c)
          /\ clientAt'[c] = "init_packet" => clientAt[c] = "init_packet"
          /\ clientAt'[c] \in Preparing => clientAt[c] \in Preparing
          /\ clientAt'[c] \in Using =>
               \/ clientAt[c] \in Using
               \/ clientAt[c] = "init_packet" /\ BufferReady(attached[c])
          /\ \A d \in Clients : d # c => clientAt'[d] = clientAt[d]
      BY <2>0, <3>2 DEF Preparing, Using, Sending
    <3>4. /\ clientAt'[c] \in Using => attached[c] # 0 /\ BufferReady(attached[c])
          /\ clientAt'[c] = "init_packet" => attached[c] # 0
      BY <3>3 DEF AccountInv, InTurn
    <3> QED
      BY <3>1, <3>3, <3>4, MovesAccount
  <2> QED
    BY <1>2, <2>1, <2>2, <2>3 DEF ClientStep
<1>3. CASE UNCHANGED vars
  <2>1. UNCHANGED <<bufferVars, serverVars, clientVars>>
    BY <1>3 DEF vars
  <2>2. \A d \in Clients : InQueue(d)' = InQueue(d) /\ \A b \in Buffers : Queued(d, b)' = Queued(d, b)
    BY <2>1 DEF InQueue, Queued, queueVars, bufferVars
  <2>3. OnePlace'
    BY <2>1, <2>2 DEF AccountInv, OnePlace, bufferVars, serverVars, clientVars
  <2>4. InTurn' /\ SomePlace'
    BY <2>1, <2>2 DEF AccountInv, InTurn, SomePlace, Served, Sending, bufferVars, serverVars,
       clientVars, BufferReady, Using
  <2> QED
    BY <2>3, <2>4 DEF AccountInv
<1> QED
  BY <1>1, <1>2, <1>3 DEF Next

\* A request is in exactly one of the places that are counted.
LEMMA AccountedOnce == AccountInv => RequestAccounted
<1> SUFFICES ASSUME AccountInv, NEW c \in Clients, attached[c] # 0
             PROVE  /\ Copies(c) <= 1
                    /\ Sending(c) /\ Served(c) => Copies(c) = 1
  BY DEF RequestAccounted
<1>1. PICK b \in Buffers : b = attached[c]
  BY DEF AccountInv, NodeInv, TypeOK
<1>2. PICK Q : Q = Queued(c, b)
  OBVIOUS
<1>3. InQueue(c) <=> Q # {}
  <2>1. \A a \in Buffers : Queued(c, a) # {} => c \in Range(requests[a])
    BY DEF Queued, Range
  <2> QED
    BY <1>1, <1>2, <2>1 DEF InQueue, AccountInv, NodeInv, RequestsStay
<1>4. \A i, j \in Q : i = j
  BY <1>2 DEF AccountInv, OnePlace
<1>5. Cardinality(Q) = IF Q = {} THEN 0 ELSE 1
  <2>1. CASE Q = {}
    BY <2>1, FS_EmptySet
  <2>2. CASE Q # {}
    <3>1. PICK i : Q = {i}
      BY <1>4, <2>2
    <3> QED
      BY <2>2, <3>1, FS_Singleton
  <2> QED
    BY <2>1, <2>2
<1>6. PICK a : a = answers[c]
  OBVIOUS
<1>7. /\ a \in Seq(Nat \ {0}) /\ Len(a) \in Nat /\ Len(a) <= 1 /\ (Len(a) = 0 <=> a = << >>)
  BY <1>6, EmptySeq, LenProperties DEF AccountInv, NodeInv, TypeOK, OnePlace
<1>8. Copies(c) = Cardinality(Q) + (IF request.shmid = c THEN 1 ELSE 0) + Len(a)
  BY <1>1, <1>2, <1>6 DEF Copies
<1>9. /\ Q # {} => request.shmid # c /\ a = << >>
      /\ request.shmid = c => a = << >>
      /\ Sending(c) /\ Served(c) => Q # {} \/ request.shmid = c \/ a # << >>
  BY <1>3, <1>6 DEF AccountInv, OnePlace, SomePlace
<1> QED
  BY <1>5, <1>7, <1>8, <1>9

\* No request is lost or handled twice, whoever is killed or interrupted and however
\* often the server is started again.
THEOREM RequestCorrect == Spec => []RequestAccounted
<1>1. Spec => []NodeInv
  BY InitNode, NextNodeInv, PTL DEF Spec
<1>2. Spec => []AccountInv
  BY <1>1, InitAccount, NextAccount, PTL DEF Spec
<1> QED
  BY <1>2, AccountedOnce, PTL

-----------------------------------------------------------------------------
(* What is closed is posted.                                               *)

\* Nobody is inside write_close_mutex, unless the mutex was destroyed.
Quiet(b) == ~destroyed[b] /\ closer[b] = None

\* The oldest packet that is not posted is still open when nobody closes one.
FirstOpen ==
  \A b \in Buffers :
    Quiet(b) /\ posted[b] < Len(requests[b]) => requests[b][posted[b] + 1] \notin written[b]

\* A client that posts packets holds write_close_mutex.
CloserPosts ==
  \A c \in Clients :
    clientAt[c] = "posting" /\ ~destroyed[attached[c]] => closer[attached[c]] = c

\* Nobody marks a packet before it closes it.
MarkedLater ==
  \A c \in Clients : clientAt[c] \in Preparing \cup {"closing"} =>
    \A b \in Buffers : c \notin written[b]

PostInv == AccountInv /\ FirstOpen /\ CloserPosts /\ MarkedLater

LEMMA InitPost == Init => PostInv
<1> SUFFICES ASSUME Init PROVE PostInv
  OBVIOUS
<1>1. FirstOpen
  BY EmptySeq DEF Init, FirstOpen
<1>2. CloserPosts /\ MarkedLater
  BY DEF Init, CloserPosts, MarkedLater
<1> QED
  BY <1>1, <1>2, InitAccount DEF PostInv

\* Steps that leave the queue alone.
LEMMA QueueKeptPost ==
  ASSUME PostInv, AccountInv',
         UNCHANGED <<requests, written, posted, closer>>,
         \A b \in Buffers : destroyed[b] => destroyed'[b],
         \A c \in Clients :
           /\ clientAt'[c] = "posting" => clientAt[c] = "posting" /\ attached'[c] = attached[c]
           /\ clientAt'[c] \in Preparing \cup {"closing"} =>
                clientAt[c] \in Preparing \cup {"closing"}
  PROVE  PostInv'
<1>1. FirstOpen'
  BY DEF PostInv, FirstOpen, Quiet
<1>2. CloserPosts'
  <2>1. \A c \in Clients : clientAt[c] = "posting" => attached[c] \in Buffers
    BY DEF PostInv, AccountInv, InTurn, Using, NodeInv, TypeOK
  <2> QED
    BY <2>1 DEF PostInv, CloserPosts
<1>3. MarkedLater'
  BY DEF PostInv, MarkedLater
<1> QED
  BY <1>1, <1>2, <1>3 DEF PostInv

\* Nobody closes a packet in the buffer that is cleared.
LEMMA ServerReadyPost ==
  ASSUME PostInv, AccountInv', ServerReady
  PROVE  PostInv'
<1>1. /\ serverAt = "creating" /\ serving \in Buffers
      /\ UNCHANGED <<destroyed, clientAt, attached>>
  BY DEF ServerReady, clientVars, PostInv, AccountInv, NodeInv, LatestNamed, TypeOK
<1>2. /\ requests'[serving] = << >> /\ written'[serving] = {} /\ posted'[serving] = 0
      /\ closer'[serving] = None
      /\ \A b \in Buffers : b # serving =>
           /\ requests'[b] = requests[b] /\ written'[b] = written[b]
           /\ posted'[b] = posted[b] /\ closer'[b] = closer[b]
  BY <1>1 DEF ServerReady, PostInv, AccountInv, NodeInv, TypeOK
<1>3. FirstOpen'
  BY <1>1, <1>2 DEF PostInv, FirstOpen, Quiet
<1>4. CloserPosts'
  <2>1. \A c \in Clients : clientAt[c] = "posting" => attached[c] \in Buffers /\ attached[c] # serving
    BY <1>1 DEF PostInv, AccountInv, InTurn, Using, NodeInv, TypeOK
  <2> QED
    BY <1>1, <1>2, <2>1 DEF PostInv, CloserPosts
<1>5. MarkedLater'
  BY <1>1, <1>2 DEF PostInv, MarkedLater
<1> QED
  BY <1>3, <1>4, <1>5 DEF PostInv

\* The server takes a packet that was posted, so the oldest that is not stays so.
LEMMA ReceiveRequestPost ==
  ASSUME PostInv, AccountInv', ReceiveRequest
  PROVE  PostInv'
<1>1. /\ serving \in Buffers
      /\ UNCHANGED <<destroyed, written, closer, clientAt, attached>>
  BY DEF ReceiveRequest, clientVars, PostInv, AccountInv, NodeInv, LatestNamed, TypeOK
<1>2. FirstOpen'
  <2> SUFFICES ASSUME NEW b \in Buffers, Quiet(b), posted'[b] < Len(requests'[b])
               PROVE  requests'[b][posted'[b] + 1] \notin written[b]
    BY <1>1 DEF FirstOpen, Quiet
  <2>1. CASE b = serving
    <3>1. PICK s, p : s = requests[b] /\ p = posted[b]
      OBVIOUS
    <3>2. s \in Seq(Clients) /\ s # << >> /\ p \in Nat /\ p > 0 /\ Len(s) \in Nat
      BY <2>1, <3>1, PostedQueued, LenProperties
         DEF ReceiveRequest, PostInv, AccountInv, NodeInv, TypeOK
    <3>3. posted'[b] = p - 1 /\ requests'[b] = Tail(s)
      BY <2>1, <3>1 DEF ReceiveRequest, PostInv, AccountInv, NodeInv, TypeOK
    <3>4. Len(Tail(s)) = Len(s) - 1 /\ \A i \in 1 .. Len(Tail(s)) : Tail(s)[i] = s[i + 1]
      BY <3>2, HeadTailProperties
    <3>5. p < Len(s) /\ p \in 1 .. Len(Tail(s)) /\ (p - 1) + 1 = p
      BY <3>2, <3>3, <3>4
    <3>6. requests'[b][posted'[b] + 1] = s[p + 1]
      BY <3>3, <3>4, <3>5
    <3> QED
      BY <3>1, <3>5, <3>6 DEF PostInv, FirstOpen
  <2>2. CASE b # serving
    <3>1. posted'[b] = posted[b] /\ requests'[b] = requests[b]
      BY <2>2 DEF ReceiveRequest, PostInv, AccountInv, NodeInv, TypeOK
    <3> QED
      BY <3>1 DEF PostInv, FirstOpen
  <2> QED
    BY <2>1, <2>2
<1>3. CloserPosts' /\ MarkedLater'
  BY <1>1 DEF PostInv, CloserPosts, MarkedLater
<1> QED
  BY <1>2, <1>3 DEF PostInv

\* The packet that is put behind the others is not marked.
LEMMA SizeRequestPost ==
  ASSUME PostInv, AccountInv', NEW c \in Clients, SizeRequest(c)
  PROVE  PostInv'
<1>1. /\ clientAt[c] = "writing" /\ clientAt' = [clientAt EXCEPT ![c] = "closing"]
      /\ UNCHANGED <<destroyed, written, posted, closer, attached>>
  BY DEF SizeRequest, ClientGoto
<1>2. clientAt'[c] = "closing" /\ \A d \in Clients : d # c => clientAt'[d] = clientAt[d]
  BY <1>1 DEF PostInv, AccountInv, NodeInv, TypeOK
<1>3. \A b \in Buffers : c \notin written[b]
  BY <1>1 DEF PostInv, MarkedLater, Preparing
<1>4. FirstOpen'
  <2> SUFFICES ASSUME NEW b \in Buffers, Quiet(b), posted[b] < Len(requests'[b])
               PROVE  requests'[b][posted[b] + 1] \notin written[b]
    BY <1>1 DEF FirstOpen, Quiet
  <2>1. PICK s, p : s = requests[b] /\ p = posted[b]
    OBVIOUS
  <2>2. s \in Seq(Clients) /\ p \in Nat /\ p <= Len(s) /\ Len(s) \in Nat
    BY <2>1, LenProperties DEF PostInv, AccountInv, NodeInv, TypeOK, PostedThere
  <2>3. CASE b = attached[c]
    <3>1. requests'[b] = Append(s, c)
      BY <2>1, <2>3 DEF SizeRequest, PostInv, AccountInv, NodeInv, TypeOK
    <3>2. Append(s, c)[Len(s) + 1] = c /\ \A i \in 1 .. Len(s) : Append(s, c)[i] = s[i]
      BY <2>2, AppendProperties
    <3>3. CASE p = Len(s)
      BY <1>3, <2>1, <3>1, <3>2, <3>3
    <3>4. CASE p < Len(s)
      <4>1. p + 1 \in 1 .. Len(s)
        BY <2>2, <3>4
      <4>2. requests'[b][p + 1] = s[p + 1]
        BY <3>1, <3>2, <4>1
      <4> QED
        BY <2>1, <3>4, <4>2 DEF PostInv, FirstOpen
    <3> QED
      BY <2>2, <3>3, <3>4
  <2>4. CASE b # attached[c]
    <3>1. requests'[b] = requests[b]
      BY <2>4 DEF SizeRequest, PostInv, AccountInv, NodeInv, TypeOK
    <3> QED
      BY <3>1 DEF PostInv, FirstOpen
  <2> QED
    BY <2>3, <2>4
<1>5. CloserPosts'
  BY <1>1, <1>2 DEF PostInv, CloserPosts
<1>6. MarkedLater'
  BY <1>1, <1>2, <1>3 DEF PostInv, MarkedLater
<1> QED
  BY <1>4, <1>5, <1>6 DEF PostInv

\* Whoever marks or posts a packet is inside write_close_mutex, and alone unless
\* the mutex was destroyed.
LEMMA MarkRequestPost ==
  ASSUME PostInv, AccountInv', NEW c \in Clients, MarkRequest(c)
  PROVE  PostInv'
<1>1. PICK v \in Buffers : v = attached[c]
  BY DEF MarkRequest, PostInv, AccountInv, InTurn, Using, NodeInv, TypeOK
<1>2. /\ clientAt[c] = "closing" /\ (closer[v] = None \/ destroyed[v])
      /\ UNCHANGED <<destroyed, requests, posted, attached>>
  BY <1>1 DEF MarkRequest
<1>3. /\ closer'[v] = c /\ written'[v] = written[v] \cup {c} /\ c # None
      /\ \A b \in Buffers : b # v => closer'[b] = closer[b] /\ written'[b] = written[b]
  BY <1>1, ConnectAssumption DEF MarkRequest, PostInv, AccountInv, NodeInv, TypeOK
<1>4. clientAt'[c] = "posting" /\ \A d \in Clients : d # c => clientAt'[d] = clientAt[d]
  BY DEF MarkRequest, ClientGoto, PostInv, AccountInv, NodeInv, TypeOK
<1>5. FirstOpen'
  BY <1>2, <1>3 DEF PostInv, FirstOpen, Quiet
<1>6. CloserPosts'
  <2> SUFFICES ASSUME NEW d \in Clients, clientAt'[d] = "posting", ~destroyed[attached[d]]
               PROVE  closer'[attached[d]] = d
    BY <1>2 DEF CloserPosts
  <2>1. CASE d = c
    BY <1>1, <1>3, <2>1
  <2>2. CASE d # c
    <3>1. closer[attached[d]] = d /\ d # None /\ attached[d] \in Buffers
      BY <1>4, <2>2, ConnectAssumption
         DEF PostInv, CloserPosts, AccountInv, InTurn, Using, NodeInv, TypeOK
    <3>2. attached[d] # v
      BY <1>2, <3>1
    <3> QED
      BY <1>3, <3>1, <3>2
  <2> QED
    BY <2>1, <2>2
<1>7. MarkedLater'
  <2>1. "posting" \notin Preparing \cup {"closing"}
    BY DEF Preparing
  <2> QED
    BY <1>3, <1>4, <2>1 DEF PostInv, MarkedLater
<1> QED
  BY <1>5, <1>6, <1>7 DEF PostInv

LEMMA PostRequestPost ==
  ASSUME PostInv, AccountInv', NEW c \in Clients, PostRequest(c)
  PROVE  PostInv'
<1>1. PICK v \in Buffers : v = attached[c]
  BY DEF PostRequest, PostInv, AccountInv, InTurn, Using, NodeInv, TypeOK
<1>2. /\ clientAt[c] = "posting"
      /\ UNCHANGED <<destroyed, requests, written, closer, clientAt, attached>>
      /\ \A b \in Buffers : b # v => posted'[b] = posted[b]
  BY <1>1 DEF PostRequest, clientVars, PostInv, AccountInv, NodeInv, TypeOK
<1>3. ~Quiet(v)
  BY <1>1, <1>2, ConnectAssumption DEF Quiet, PostInv, CloserPosts
<1>4. FirstOpen'
  BY <1>2, <1>3 DEF PostInv, FirstOpen, Quiet
<1>5. CloserPosts' /\ MarkedLater'
  BY <1>2 DEF PostInv, CloserPosts, MarkedLater
<1> QED
  BY <1>4, <1>5 DEF PostInv

\* It leaves the mutex when the oldest packet that is not posted is not marked.
LEMMA CloseRequestPost ==
  ASSUME PostInv, AccountInv', NEW c \in Clients, CloseRequest(c)
  PROVE  PostInv'
<1>1. PICK v \in Buffers : v = attached[c]
  BY DEF CloseRequest, PostInv, AccountInv, InTurn, Using, NodeInv, TypeOK
<1>2. /\ clientAt[c] = "posting" /\ ~NextIsWritten(v, c)
      /\ UNCHANGED <<destroyed, requests, written, posted, attached>>
      /\ \A b \in Buffers : b # v => closer'[b] = closer[b]
  BY <1>1 DEF CloseRequest, PostInv, AccountInv, NodeInv, TypeOK
<1>3. clientAt'[c] = "waiting" /\ \A d \in Clients : d # c => clientAt'[d] = clientAt[d]
  BY DEF CloseRequest, ClientGoto, PostInv, AccountInv, NodeInv, TypeOK
<1>4. FirstOpen'
  BY <1>2 DEF PostInv, FirstOpen, Quiet, NextIsWritten
<1>5. CloserPosts'
  <2> SUFFICES ASSUME NEW d \in Clients, clientAt'[d] = "posting", ~destroyed[attached[d]]
               PROVE  closer'[attached[d]] = d
    BY <1>2 DEF CloserPosts
  <2>0. d # c /\ clientAt[d] = "posting"
    BY <1>3
  <2>1. closer[attached[d]] = d /\ attached[d] \in Buffers
    BY <2>0 DEF PostInv, CloserPosts, AccountInv, InTurn, Using, NodeInv, TypeOK
  <2>2. attached[d] # v
    BY <1>1, <1>2, <2>0, <2>1 DEF PostInv, CloserPosts
  <2> QED
    BY <1>2, <2>1, <2>2
<1>6. MarkedLater'
  <2>1. "waiting" \notin Preparing \cup {"closing"}
    BY DEF Preparing
  <2> QED
    BY <1>2, <1>3, <2>1 DEF PostInv, MarkedLater
<1> QED
  BY <1>4, <1>5, <1>6 DEF PostInv

LEMMA NextPost == PostInv /\ AccountInv' /\ [Next]_vars => PostInv'
<1> SUFFICES ASSUME PostInv, AccountInv', [Next]_vars PROVE PostInv'
  OBVIOUS
<1>0. /\ clientAt \in [Clients -> ClientLocations] /\ attached \in [Clients -> Buffers \cup {0}]
      /\ destroyed \in [Buffers -> BOOLEAN]
  BY DEF PostInv, AccountInv, NodeInv, TypeOK
<1>1. CASE ServerReady \/ ReceiveRequest
  BY <1>1, ServerReadyPost, ReceiveRequestPost
<1>2. CASE \/ CreateServer \/ RegisterClient \/ AnswerClient \/ AnswerFails
           \/ DestroyServer \/ LeaveSegment
  <2>1. /\ UNCHANGED <<queueVars, clientAt, attached>>
        /\ UNCHANGED destroyed \/ destroyed' = [destroyed EXCEPT ![serving] = TRUE]
    BY <1>2 DEF CreateServer, RegisterClient, AnswerClient, AnswerFails, DestroyServer,
       LeaveSegment, bufferVars, clientVars
  <2>2. \A b \in Buffers : destroyed[b] => destroyed'[b]
    BY <1>0, <2>1
  <2> QED
    BY <2>1, <2>2, QueueKeptPost DEF queueVars
<1>3. ASSUME NEW c \in Clients,
             SizeRequest(c) \/ MarkRequest(c) \/ PostRequest(c) \/ CloseRequest(c)
      PROVE  PostInv'
  BY <1>3, SizeRequestPost, MarkRequestPost, PostRequestPost, CloseRequestPost
<1>4. ASSUME NEW c \in Clients,
             \/ CreateClient(c) \/ Attach(c) \/ AttachFails(c) \/ InitPacket(c)
             \/ InitPacketFails(c) \/ OpenRequest(c) \/ OpenFails(c) \/ MarkFails(c)
             \/ ReceiveAnswer(c) \/ DestroyClient(c) \/ SendInterrupted(c)
             \/ ReceiveInterrupted(c) \/ KillClient(c)
      PROVE  PostInv'
  <2>1. UNCHANGED <<requests, written, posted, closer, destroyed>>
    BY <1>4 DEF CreateClient, Attach, AttachFails, InitPacket, InitPacketFails, OpenRequest,
       OpenFails, MarkFails, ReceiveAnswer, DestroyClient, SendInterrupted,
       ReceiveInterrupted, KillClient, ConnectFails, queueVars, bufferVars
  <2>2. \/ clientAt[c] \in Preparing
             /\ \E to \in Preparing : clientAt' = [clientAt EXCEPT ![c] = to]
        \/ \E to \in {"failed", "connected", "done", "killed"} :
             clientAt' = [clientAt EXCEPT ![c] = to]
    BY <1>4 DEF CreateClient, Attach, AttachFails, InitPacket, InitPacketFails, OpenRequest,
       OpenFails, MarkFails, ReceiveAnswer, DestroyClient, SendInterrupted,
       ReceiveInterrupted, KillClient, ConnectFails, ClientGoto, Preparing
  <2>3. UNCHANGED attached \/ attached' = [attached EXCEPT ![c] = named]
    BY <1>4 DEF CreateClient, Attach, AttachFails, InitPacket, InitPacketFails, OpenRequest,
       OpenFails, MarkFails, ReceiveAnswer, DestroyClient, SendInterrupted,
       ReceiveInterrupted, KillClient, ConnectFails
  <2>4. \A d \in Clients :
          /\ clientAt'[d] = "posting" => clientAt[d] = "posting" /\ attached'[d] = attached[d]
          /\ clientAt'[d] \in Preparing \cup {"closing"} =>
               clientAt[d] \in Preparing \cup {"closing"}
    BY <1>0, <2>2, <2>3 DEF Preparing
  <2> QED
    BY <2>1, <2>4, QueueKeptPost
<1>5. CASE UNCHANGED vars
  BY <1>5, QueueKeptPost DEF vars, queueVars, bufferVars, clientVars
<1> QED
  BY <1>1, <1>2, <1>3, <1>4, <1>5
     DEF Next, ServerStep, ClientStep, Terminate, Interrupt, KillServer

\* If a closed packet is left unposted, the oldest one that is not posted is open.
LEMMA PostInvInTime == PostInv => PostedInTime
<1> SUFFICES ASSUME PostInv, NEW b \in Buffers, ~destroyed[b], closer[b] = None,
                    NEW i \in DOMAIN requests[b], i > posted[b]
             PROVE  \E j \in (posted[b] + 1) .. i : requests[b][j] \notin written[b]
  BY DEF PostedInTime
<1>1. /\ posted[b] \in Nat /\ requests[b] \in Seq(Clients)
      /\ i \in 1 .. Len(requests[b]) /\ Len(requests[b]) \in Nat
  BY LenProperties DEF PostInv, AccountInv, NodeInv, TypeOK
<1>2. posted[b] < Len(requests[b]) /\ posted[b] + 1 \in (posted[b] + 1) .. i
  BY <1>1
<1> QED
  BY <1>2 DEF PostInv, FirstOpen, Quiet

\* Whoever is killed between any two steps of closing a packet, and in whatever order
\* packets are closed, a closed request is left for others to post only while one in
\* front of it is open or somebody is inside write_close_mutex.
THEOREM PostedCorrect == Spec => []PostedInTime
<1>1. Spec => []NodeInv
  BY InitNode, NextNodeInv, PTL DEF Spec
<1>2. Spec => []AccountInv
  BY <1>1, InitAccount, NextAccount, PTL DEF Spec
<1>3. Spec => []PostInv
  BY <1>2, InitPost, NextPost, PTL DEF Spec
<1> QED
  BY <1>3, PostInvInTime, PTL
=============================================================================
