---------------------------- MODULE Glc2Connect ----------------------------
(***************************************************************************)
(* The glc2 server (src/glc2, src/server), the clients inside the captured *)
(* programs (src/client/client.c, main.c) and the life cycle of the shared *)
(* memory segments through which they connect (ps_buffer_init and          *)
(* ps_buffer_destroy in src/common/packetstream.c).                        *)
(*                                                                         *)
(* A buffer is what PacketStreamFifo shows it to be: a queue of messages.  *)
(* One writer at a time adds to it, from opening a packet, which takes     *)
(* write_mutex, to giving it a size; it closes the packet later, under     *)
(* write_close_mutex, and a message is handed out when all before it are   *)
(* closed too.  Each start of the server has a buffer of its own; each     *)
(* client connects once, when the program creates its first OpenGL         *)
(* context.                                                                *)
(***************************************************************************)
EXTENDS Integers, Sequences, FiniteSets

CONSTANTS
  Clients,
  MaxStarts,      \* bound: how often a server creates a buffer
  MaxRequests,    \* requests that fit into the server's buffer
  Interruptible,  \* clients whose sem_wait a signal may interrupt
  Killable,       \* clients that may be killed
  ServerStops,    \* whether the server may get SIGINT
  ServerDies,     \* whether the server may be killed
  None

ASSUME ConnectAssumption ==
  /\ None \notin Clients
  /\ MaxStarts \in Nat
  /\ MaxRequests \in Nat \ {0}
  /\ Interruptible \subseteq Clients
  /\ Killable \subseteq Clients
  /\ ServerStops \in BOOLEAN
  /\ ServerDies \in BOOLEAN

Buffers == 1 .. MaxStarts

VARIABLES
  \* the server's shared memory
  named,       \* the buffer the well-known key leads to, 0 if there is none
  flags,       \* for each buffer the flags in its state: READY once initialised
  destroyed,   \* whether ps_buffer_destroy was called on it
  requests,    \* the clients whose requests are in it, in the order of their sizes
  written,     \* the clients whose packets are marked PS_PACKET_HEADER_WRITTEN
  posted,      \* written_packets, how many of the requests may be read
  writer,      \* who holds its write_mutex
  closer,      \* who holds its write_close_mutex
  \* the server
  serverAt, serving, clients, max_client, request,
  \* the clients
  clientAt,
  attached,    \* the server's buffer a client has attached to
  segment,     \* the segment of the client's own buffer
  answers,     \* the node ids in the client's own buffer
  id           \* client->id

queueVars == <<requests, written, posted, writer, closer>>
bufferVars == <<named, flags, destroyed, queueVars>>
serverVars == <<serverAt, serving, clients, max_client, request>>
clientVars == <<clientAt, attached, segment, answers, id>>
vars == <<bufferVars, serverVars, clientVars>>

ServerLocations == {"down", "creating", "receive", "register", "answer", "failed"}
ClientLocations ==
  {"start", "create", "init_packet", "open", "writing", "closing", "posting",
   "waiting", "connected", "failed", "done", "killed"}

\* An entry of server->clients.
ServerClient == [node: Nat \ {0}, shmid: Clients]

TypeOK ==
  /\ named \in Buffers \cup {0}
  /\ flags \in [Buffers -> SUBSET {"READY"}]
  /\ destroyed \in [Buffers -> BOOLEAN]
  /\ requests \in [Buffers -> Seq(Clients)]
  /\ written \in [Buffers -> SUBSET Clients]
  /\ posted \in [Buffers -> Nat]
  /\ writer \in [Buffers -> Clients \cup {None}]
  /\ closer \in [Buffers -> Clients \cup {None}]
  /\ serverAt \in ServerLocations
  /\ serving \in Buffers \cup {0}
  /\ clients \in Seq(ServerClient)
  /\ max_client \in Nat \ {0}
  /\ request \in [node: Int, shmid: Clients \cup {None}]
  /\ clientAt \in [Clients -> ClientLocations]
  /\ attached \in [Clients -> Buffers \cup {0}]
  /\ segment \in [Clients -> {"none", "exists", "removed"}]
  /\ answers \in [Clients -> Seq(Nat \ {0})]
  /\ id \in [Clients -> {-1} \cup (Nat \ {0})]

\* glc_connect_message_t: no request, and the request of a client.
NoRequest == [node |-> -1, shmid |-> None]
ConnectRequest(c) == [node |-> -1, shmid |-> c]

\* Mutant: ids start with the one that stands for the server.
ServerNode == 0

\* server->max_client at first
FirstNode == 1

Init ==
  /\ named = 0
  /\ flags = [b \in Buffers |-> {}]
  /\ destroyed = [b \in Buffers |-> FALSE]
  /\ requests = [b \in Buffers |-> << >>]
  /\ written = [b \in Buffers |-> {}]
  /\ posted = [b \in Buffers |-> 0]
  /\ writer = [b \in Buffers |-> None]
  /\ closer = [b \in Buffers |-> None]
  /\ serverAt = "down" /\ serving = 0
  /\ clients = << >> /\ max_client = FirstNode /\ request = NoRequest
  /\ clientAt = [c \in Clients |-> "start"]
  /\ attached = [c \in Clients |-> 0]
  /\ segment = [c \in Clients |-> "none"]
  /\ answers = [c \in Clients |-> << >>]
  /\ id = [c \in Clients |-> -1]

-----------------------------------------------------------------------------
(* The server.                                                             *)

ServerGoto(location) == serverAt' = location

\* glc_server_create: PS_SHM_EXCL makes shmget fail if the key leads to a
\* segment, whoever left it.
CreateServer ==
  /\ serverAt = "down" /\ named = 0 /\ serving < MaxStarts
  /\ serving' = serving + 1 /\ named' = serving + 1
  /\ clients' = << >> /\ max_client' = FirstNode
  /\ ServerGoto("creating")
  /\ UNCHANGED <<flags, destroyed, queueVars, request, clientVars>>

\* The rest of ps_buffer_init, which clears whatever is in the new segment; main
\* knows the server from here.
ServerReady ==
  /\ serverAt = "creating"
  /\ requests' = [requests EXCEPT ![serving] = << >>]
  /\ written' = [written EXCEPT ![serving] = {}]
  /\ posted' = [posted EXCEPT ![serving] = 0]
  /\ writer' = [writer EXCEPT ![serving] = None]
  /\ closer' = [closer EXCEPT ![serving] = None]
  /\ flags' = [flags EXCEPT ![serving] = {"READY"}]
  /\ ServerGoto("receive")
  /\ UNCHANGED <<named, destroyed, serving, clients, max_client, request, clientVars>>

\* glc_server_msg_receive
ReceiveRequest ==
  /\ serverAt = "receive" /\ posted[serving] > 0
  /\ posted' = [posted EXCEPT ![serving] = @ - 1]
  /\ request' = ConnectRequest(Head(requests[serving]))
  /\ requests' = [requests EXCEPT ![serving] = Tail(@)]
  /\ ServerGoto("register")
  /\ UNCHANGED <<named, flags, destroyed, written, writer, closer, serving, clients,
                 max_client, clientVars>>

\* Mutant: the same id for every client.
SameNode == max_client

NextNode == max_client + 1

\* glc_server_client_new: the id is used up even if attaching to the segment
\* fails, which ends glc_server_run, there being no error handler.
RegisterClient ==
  /\ serverAt = "register"
  /\ max_client' = NextNode
  /\ IF segment[request.shmid] = "exists"
     THEN /\ clients' = <<[node |-> max_client, shmid |-> request.shmid]>> \o clients
          /\ request' = [request EXCEPT !.node = max_client]
          /\ ServerGoto("answer")
     ELSE ServerGoto("failed") /\ UNCHANGED <<clients, request>>
  /\ UNCHANGED <<bufferVars, serving, clientVars>>

\* Mutant: the client that was registered first, whatever its id.
FirstClient(node) == clients[Len(clients)]

\* glc_server_client_get: the first of the list with that id.
ClientGet(node) ==
  clients[CHOOSE i \in 1 .. Len(clients) :
            clients[i].node = node /\ \A j \in 1 .. (i - 1) : clients[j].node # node]

\* glc_server_msg_sent.  Only the server writes to a client's buffer, which stays
\* mapped in the server when the client removes it.
AnswerClient ==
  LET c == ClientGet(request.node).shmid
  IN  /\ serverAt = "answer"
      /\ answers' = [answers EXCEPT ![c] = Append(@, request.node)]
      /\ request' = NoRequest
      /\ ServerGoto("receive")
      /\ UNCHANGED <<bufferVars, serving, clients, max_client, clientAt, attached,
                     segment, id>>

\* The client has destroyed the mutexes in its buffer, and ps_packet_open may
\* find it out.
AnswerFails ==
  /\ serverAt = "answer" /\ segment[ClientGet(request.node).shmid] = "removed"
  /\ ServerGoto("failed")
  /\ UNCHANGED <<bufferVars, serving, clients, max_client, request, clientVars>>

\* glc_server_destroy and exit: the key is free again, the memory stays mapped
\* in the clients, with its mutexes destroyed.
DestroyServer ==
  /\ named' = 0
  /\ destroyed' = [destroyed EXCEPT ![serving] = TRUE]
  /\ request' = NoRequest
  /\ ServerGoto("down")
  /\ UNCHANGED <<flags, queueVars, serving, clients, max_client, clientVars>>

\* The process ends and leaves everything as it is.
LeaveSegment ==
  /\ request' = NoRequest
  /\ ServerGoto("down")
  /\ UNCHANGED <<bufferVars, serving, clients, max_client, clientVars>>

\* terminate(err), after glc_server_run
Terminate == serverAt = "failed" /\ DestroyServer

\* terminate(SIGINT), at any point.  Until glc_server_create has returned the
\* server is NULL and the assertion of glc_server_destroy aborts the process; in
\* the middle of terminate(err) the memory may be unmapped but not yet removed.
Interrupt ==
  /\ ServerStops
  /\ \/ serverAt \notin {"down", "creating"} /\ DestroyServer
     \/ serverAt \in {"creating", "failed"} /\ LeaveSegment

KillServer == ServerDies /\ serverAt # "down" /\ LeaveSegment

-----------------------------------------------------------------------------
(* A client: glc_start, glc_client_create and glc_client_connect.          *)

ClientGoto(c, location) == clientAt' = [clientAt EXCEPT ![c] = location]

\* glc_client_connect has failed: glc_start destroys the client, which removes
\* its segment, and ends the program.
ConnectFails(c) ==
  /\ ClientGoto(c, "failed")
  /\ segment' = [segment EXCEPT ![c] = "removed"]
  /\ UNCHANGED <<bufferVars, serverVars, attached, answers, id>>

CreateClient(c) ==
  /\ clientAt[c] = "start"
  /\ segment' = [segment EXCEPT ![c] = "exists"]
  /\ ClientGoto(c, "create")
  /\ UNCHANGED <<bufferVars, serverVars, attached, answers, id>>

\* ps_buffer_init of the server's buffer, which is not looked at yet.
Attach(c) ==
  /\ clientAt[c] = "create" /\ named # 0
  /\ attached' = [attached EXCEPT ![c] = named]
  /\ ClientGoto(c, "init_packet")
  /\ UNCHANGED <<bufferVars, serverVars, segment, answers, id>>

\* ENOENT
AttachFails(c) == clientAt[c] = "create" /\ named = 0 /\ ConnectFails(c)

\* Mutant: ps_packet_init does not check the buffer.
AnyBuffer(b) == TRUE

BufferReady(b) == "READY" \in flags[b]

\* ps_packet_init
InitPacket(c) ==
  /\ clientAt[c] = "init_packet" /\ BufferReady(attached[c])
  /\ ClientGoto(c, "open")
  /\ UNCHANGED <<bufferVars, serverVars, attached, segment, answers, id>>

InitPacketFails(c) ==
  /\ clientAt[c] = "init_packet" /\ ~BufferReady(attached[c])
  /\ ConnectFails(c)

\* ps_packet_open in glc_client_message_sent.  A mutex that was destroyed may
\* be taken or be refused, whoever holds it.
OpenRequest(c) ==
  LET b == attached[c]
  IN  /\ clientAt[c] = "open" /\ (writer[b] = None \/ destroyed[b])
      /\ writer' = [writer EXCEPT ![b] = c]
      /\ ClientGoto(c, "writing")
      /\ UNCHANGED <<named, flags, destroyed, requests, written, posted, closer,
                     serverVars, attached, segment, answers, id>>

OpenFails(c) ==
  clientAt[c] = "open" /\ destroyed[attached[c]] /\ ConnectFails(c)

Full(b) == Len(requests[b]) = MaxRequests

\* ps_packet_write, and ps_packet_setsize from ps_packet_close: the packet has its
\* place in the queue, and write_mutex is released.
SizeRequest(c) ==
  LET b == attached[c]
  IN  /\ clientAt[c] = "writing" /\ ~Full(b)
      /\ requests' = [requests EXCEPT ![b] = Append(@, c)]
      /\ writer' = [writer EXCEPT ![b] = None]
      /\ ClientGoto(c, "closing")
      /\ UNCHANGED <<named, flags, destroyed, written, posted, closer, serverVars,
                     attached, segment, answers, id>>

\* ps_packet_closewrite takes write_close_mutex and marks the packet.
MarkRequest(c) ==
  LET b == attached[c]
  IN  /\ clientAt[c] = "closing" /\ (closer[b] = None \/ destroyed[b])
      /\ closer' = [closer EXCEPT ![b] = c]
      /\ written' = [written EXCEPT ![b] = @ \cup {c}]
      /\ ClientGoto(c, "posting")
      /\ UNCHANGED <<named, flags, destroyed, requests, posted, writer, serverVars,
                     attached, segment, answers, id>>

\* write_close_mutex was destroyed.
MarkFails(c) ==
  clientAt[c] = "closing" /\ destroyed[attached[c]] /\ ConnectFails(c)

\* Mutant: a client posts its own packet only.
NextIsOwn(b, c) == posted[b] < Len(requests[b]) /\ requests[b][posted[b] + 1] = c

\* The loop is entered by the closer of the oldest packet that is not posted, and
\* goes on while the next packet is marked.  Others find the oldest not marked.
NextIsWritten(b, c) ==
  posted[b] < Len(requests[b]) /\ requests[b][posted[b] + 1] \in written[b]

PostRequest(c) ==
  LET b == attached[c]
  IN  /\ clientAt[c] = "posting" /\ NextIsWritten(b, c)
      /\ posted' = [posted EXCEPT ![b] = @ + 1]
      /\ UNCHANGED <<named, flags, destroyed, requests, written, writer, closer,
                     serverVars, clientVars>>

CloseRequest(c) ==
  LET b == attached[c]
  IN  /\ clientAt[c] = "posting" /\ ~NextIsWritten(b, c)
      /\ closer' = [closer EXCEPT ![b] = None]
      /\ ClientGoto(c, "waiting")
      /\ UNCHANGED <<named, flags, destroyed, requests, written, posted, writer,
                     serverVars, attached, segment, answers, id>>

\* The wait for space in a full buffer is interrupted: the packet stays open and
\* write_mutex taken.
SendInterrupted(c) ==
  /\ clientAt[c] = "writing" /\ c \in Interruptible /\ Full(attached[c])
  /\ ConnectFails(c)

\* glc_client_message_receive.  The answer of a refused connection would have
\* node -1, which no server sends.
ReceiveAnswer(c) ==
  /\ clientAt[c] = "waiting" /\ answers[c] # << >>
  /\ id' = [id EXCEPT ![c] = Head(answers[c])]
  /\ answers' = [answers EXCEPT ![c] = Tail(@)]
  /\ ClientGoto(c, "connected")
  /\ UNCHANGED <<bufferVars, serverVars, attached, segment>>

\* The wait for the answer is interrupted.
ReceiveInterrupted(c) ==
  /\ clientAt[c] = "waiting" /\ c \in Interruptible /\ answers[c] = << >>
  /\ ConnectFails(c)

\* The end of glc_start: the client is destroyed at once.
DestroyClient(c) ==
  /\ clientAt[c] = "connected"
  /\ segment' = [segment EXCEPT ![c] = "removed"]
  /\ ClientGoto(c, "done")
  /\ UNCHANGED <<bufferVars, serverVars, attached, answers, id>>

KillClient(c) ==
  /\ c \in Killable /\ clientAt[c] \notin {"failed", "done", "killed"}
  /\ ClientGoto(c, "killed")
  /\ UNCHANGED <<bufferVars, serverVars, attached, segment, answers, id>>

-----------------------------------------------------------------------------
ServerStep ==
  ServerReady \/ ReceiveRequest \/ RegisterClient \/ AnswerClient
  \/ AnswerFails \/ Terminate

ClientStep(c) ==
  \/ CreateClient(c) \/ Attach(c) \/ AttachFails(c)
  \/ InitPacket(c) \/ InitPacketFails(c)
  \/ OpenRequest(c) \/ OpenFails(c) \/ SizeRequest(c)
  \/ MarkRequest(c) \/ MarkFails(c) \/ PostRequest(c) \/ CloseRequest(c)
  \/ ReceiveAnswer(c) \/ DestroyClient(c)

Next ==
  \/ CreateServer \/ ServerStep \/ Interrupt \/ KillServer
  \/ \E c \in Clients :
       ClientStep(c) \/ SendInterrupted(c) \/ ReceiveInterrupted(c) \/ KillClient(c)

Spec == Init /\ [][Next]_vars

\* The server's loop and each client go on; nothing makes anybody start a server.
LiveSpec ==
  Spec /\ WF_vars(ServerStep) /\ \A c \in Clients : WF_vars(ClientStep(c))

-----------------------------------------------------------------------------
(* What connecting has to guarantee.                                       *)

\* A server answers the requests in the buffer the client has attached to.
Served(c) ==
  attached[c] = serving /\ serverAt \in {"receive", "register", "answer"}

Queued(c, b) == {i \in DOMAIN requests[b] : requests[b][i] = c}

Copies(c) ==
  Cardinality(Queued(c, attached[c]))
    + (IF request.shmid = c THEN 1 ELSE 0) + Len(answers[c])

\* A client has put its request into the queue and still wants the answer.
Sending(c) == clientAt[c] \in {"closing", "posting", "waiting"}

\* No request is lost or handled twice on its way through both buffers, whoever
\* is killed and whatever was left behind by an earlier server.
RequestAccounted ==
  \A c \in Clients : attached[c] # 0 =>
    /\ Copies(c) <= 1
    /\ Sending(c) /\ Served(c) => Copies(c) = 1

\* Whoever is killed between any two steps, and in whatever order clients close their
\* packets: as long as nobody is inside write_close_mutex, no request that is closed
\* is left for others to post unless one in front of it is still open.
PostedInTime ==
  \A b \in Buffers : ~destroyed[b] /\ closer[b] = None =>
    \A i \in DOMAIN requests[b] :
      i > posted[b] => \E j \in (posted[b] + 1) .. i : requests[b][j] \notin written[b]

\* format.h: "the server answeres with the same message and node > 0".  The node
\* is the one under which this server knows the client's own segment, and no
\* other client of this server has it.
OwnNode ==
  \A c, d \in Clients : id[c] # -1 =>
    /\ id[c] > 0
    /\ attached[c] = serving =>
         \E i \in 1 .. Len(clients) : clients[i] = [node |-> id[c], shmid |-> c]
    /\ d # c /\ attached[d] = attached[c] => id[d] # id[c]

\* A client's request waits to be posted behind that of a client that was killed
\* before it could mark its packet, or was killed inside write_close_mutex.
Orphaned(c) ==
  LET b == attached[c]
  IN  \E i \in Queued(c, b), d \in Clients :
        /\ i > posted[b] /\ clientAt[d] = "killed"
        /\ closer[b] = d \/ (d \notin written[b] /\ \E j \in Queued(d, b) : j < i)

\* A client that waits for its answer gets it, as long as its server runs, unless the
\* posting of its request was left to a client that is killed.  Clients killed
\* anywhere else, or behind it, do not keep the answer from it.
RequestAnswered ==
  \A c \in Clients :
    clientAt[c] = "waiting" ~> clientAt[c] # "waiting" \/ ~Served(c) \/ Orphaned(c)

\* format.h: "sending connect message with node == -1 is a connect request, the
\* server answeres with the same message and node > 0".  So does a server that
\* nobody stops, whatever happens to other clients.
ServerAnswers ==
  \A c \in Clients : clientAt[c] = "waiting" ~> clientAt[c] # "waiting"

=============================================================================
