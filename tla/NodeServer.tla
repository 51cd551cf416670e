----------------------------- MODULE NodeServer -----------------------------
(***************************************************************************)
(* The life of one node process: StorageNode::start (MetadataNode::start   *)
(* is the same), a detached thread per connection, TCPServer with its map  *)
(* of clients, and the shutdown that DIE starts.                           *)
(*                                                                         *)
(* A client connects, sends one command, and closes when it has the reply. *)
(* What a command does to the node's data is not modelled here.            *)
(***************************************************************************)
EXTENDS Integers, FiniteSets

CONSTANTS
    Conn,     \* connections, one client each
    Killer,   \* the ones whose command is DIE
    Stalled,  \* clients that never read their reply
    Nobody    \* not a connection

ASSUME ServerAssumption ==
    /\ IsFiniteSet(Conn) /\ Nobody \notin Conn
    /\ Killer \subseteq Conn /\ Stalled \subseteq Conn \ Killer

VARIABLES
    running,   \* running_ of the node
    mainPc,    \* where the thread in start() is
    accepted,  \* the connection accept() returned, until it is registered
    active,    \* activeHandlers_
    handler,   \* where the thread of a connection is
    listenFd,  \* serverSock_ is open, and running_ of the server is true
    clients,   \* the connections in clients_
    mutex,     \* who holds clientsMutex_ across a step
    sock,      \* the server's end of every connection
    client,    \* where a client is
    closes,    \* how often the server closed a connection's descriptor
    misused,   \* a thread touched the node after its destructor
    rebound    \* what a later start() on the same port found

mainVars == <<mainPc, accepted>>
tcpVars == <<listenFd, clients, sock, closes>>
obsVars == <<misused, rebound>>
vars == <<running, mainVars, active, handler, tcpVars, mutex, client, obsVars>>

\* The types of all state.  The count is that of the threads between accept() and
\* activeHandlers_--, so it never goes below zero (start).
TypeOK ==
    /\ running \in BOOLEAN /\ listenFd \in BOOLEAN /\ misused \in BOOLEAN
    /\ mainPc \in {"loop", "accept", "register", "check", "enter", "waiting", "returned", "destroyed"}
    /\ accepted \in Conn \cup {Nobody}
    /\ active \in 0..Cardinality(Conn)
    /\ handler \in [Conn -> {"none", "loop", "enter", "recv", "foreign", "handle", "sending",
                             "stop", "clear", "close", "count", "notify", "gone"}]
    /\ clients \subseteq Conn
    /\ mutex \in Conn \cup {Nobody}
    /\ sock \in [Conn -> {"none", "queued", "open", "closed"}]
    /\ client \in [Conn -> {"idle", "connected", "sent", "answered", "closed"}]
    /\ closes \in [Conn -> Nat]
    /\ rebound \in {"no", "ok", "failed"}

Init ==
    /\ running = TRUE /\ listenFd = TRUE
    /\ mainPc = "loop" /\ accepted = Nobody
    /\ active = 0
    /\ handler = [c \in Conn |-> "none"]
    /\ clients = {}
    /\ mutex = Nobody
    /\ sock = [c \in Conn |-> "none"]
    /\ client = [c \in Conn |-> "idle"]
    /\ closes = [c \in Conn |-> 0]
    /\ misused = FALSE
    /\ rebound = "no"

-----------------------------------------------------------------------------
(* Clients and the kernel.                                                 *)

\* close() does not wake a thread blocked in accept(), and the listening socket lives on
\* until that accept() returns.
PortBound == listenFd \/ mainPc = "accept"

\* The same holds for a thread blocked in recv(): the peer sees the end of the
\* connection only when that recv() has returned.
EndVisible(c) == sock[c] = "closed" /\ handler[c] # "recv"

Connect(c) ==
    /\ client[c] = "idle" /\ PortBound
    /\ client' = [client EXCEPT ![c] = "connected"]
    /\ sock' = [sock EXCEPT ![c] = "queued"]
    /\ UNCHANGED <<running, mainVars, active, handler, listenFd, clients, closes, mutex, obsVars>>

Send(c) ==
    /\ client[c] = "connected" /\ ~EndVisible(c)
    /\ client' = [client EXCEPT ![c] = "sent"]
    /\ UNCHANGED <<running, mainVars, active, handler, tcpVars, mutex, obsVars>>

\* The reply gets through and the client closes; the sender lets go of the mutex.
ReadReply(c) ==
    /\ handler[c] = "sending" /\ c \notin Stalled
    /\ client' = [client EXCEPT ![c] = "answered"]
    /\ handler' = [handler EXCEPT ![c] = "loop"]
    /\ mutex' = Nobody
    /\ UNCHANGED <<running, mainVars, active, tcpVars, obsVars>>

Disconnected(c) ==
    /\ client[c] \in {"connected", "sent"} /\ EndVisible(c)
    /\ client' = [client EXCEPT ![c] = "closed"]
    /\ UNCHANGED <<running, mainVars, active, handler, tcpVars, mutex, obsVars>>

\* A node is started on the port again once DIE has closed serverSock_.
StartAgain ==
    /\ ~listenFd /\ rebound = "no"
    /\ rebound' = IF PortBound THEN "failed" ELSE "ok"
    /\ UNCHANGED <<running, mainVars, active, handler, tcpVars, mutex, client, misused>>

-----------------------------------------------------------------------------
(* The thread in start().                                                  *)

MainLoop ==
    /\ mainPc = "loop"
    /\ mainPc' = IF ~running THEN "check" ELSE IF listenFd THEN "accept" ELSE "loop"
    /\ UNCHANGED <<running, accepted, active, handler, tcpVars, mutex, client, obsVars>>

\* accept() returns.  If serverSock_ was closed meanwhile the listening socket goes now,
\* and the connections still queued are reset.
Accept(c) ==
    /\ mainPc = "accept" /\ sock[c] = "queued"
    /\ mainPc' = "register"
    /\ accepted' = c
    /\ sock' = [d \in Conn |-> CASE d = c -> "open"
                                 [] d # c /\ sock[d] = "queued" /\ ~listenFd -> "closed"
                                 [] OTHER -> sock[d]]
    /\ UNCHANGED <<running, active, handler, listenFd, clients, closes, mutex, client, obsVars>>

\* Faulty variant of Counted: a connection accepted after DIE is not counted.
CountedIfRunning == IF running THEN active + 1 ELSE active

\* activeHandlers_++
Counted == active + 1

\* The connection is entered in clients_, counted, and given a thread.
Register ==
    /\ mainPc = "register" /\ mutex = Nobody
    /\ clients' = clients \cup {accepted}
    /\ active' = Counted
    /\ handler' = [handler EXCEPT ![accepted] = "loop"]
    /\ mainPc' = "loop" /\ accepted' = Nobody
    /\ UNCHANGED <<running, listenFd, sock, closes, mutex, client, obsVars>>

\* handlersCv_.wait: the predicate is tested, and only then does the thread block.
TestHandlers ==
    /\ mainPc = "check"
    /\ mainPc' = IF active = 0 THEN "returned" ELSE "enter"
    /\ UNCHANGED <<running, accepted, active, handler, tcpVars, mutex, client, obsVars>>

Block ==
    /\ mainPc = "enter"
    /\ mainPc' = "waiting"
    /\ UNCHANGED <<running, accepted, active, handler, tcpVars, mutex, client, obsVars>>

\* start() returns and the node goes out of scope.  The destructor's stop() has nothing
\* left to do: DIE called it.
Destroy ==
    /\ mainPc = "returned"
    /\ mainPc' = "destroyed"
    /\ UNCHANGED <<running, accepted, active, handler, tcpVars, mutex, client, obsVars>>

-----------------------------------------------------------------------------
(* A connection's thread: handleClient, then the end of the lambda.        *)

\* while (running_), then recvData looks the descriptor up, under the lock.
HandlerLoop(c) ==
    /\ handler[c] = "loop" /\ mutex = Nobody
    /\ handler' = [handler EXCEPT ![c] = IF running /\ c \in clients THEN "enter" ELSE "close"]
    /\ UNCHANGED <<running, mainVars, active, tcpVars, mutex, client, obsVars>>

\* What ::recv does with the number of a descriptor that was closed since it was looked
\* up: it fails, or reads from whatever accept(), ping or forwarded PUT of the process
\* was given the number since.
Stale == {"close", "foreign"}

\* ::recv is called without the lock.
EnterRecv(c) ==
    /\ handler[c] = "enter"
    /\ \E pc \in IF sock[c] = "open" THEN {"recv"} ELSE Stale :
          handler' = [handler EXCEPT ![c] = pc]
    /\ UNCHANGED <<running, mainVars, active, tcpVars, mutex, client, obsVars>>

\* A whole command, or the end of the connection.  When the descriptor was closed while
\* the thread was blocked in the first recv(), that still returns, but the second one is
\* called with a stale number.
HandlerRecv(c) ==
    /\ handler[c] = "recv" /\ client[c] # "connected"
    /\ \E pc \in CASE client[c] # "sent" -> {"close"}
                   [] sock[c] = "open"    -> {"handle"}
                   [] OTHER               -> Stale :
          handler' = [handler EXCEPT ![c] = pc]
    /\ UNCHANGED <<running, mainVars, active, tcpVars, mutex, client, obsVars>>

\* What was read elsewhere is handled, and since the connection is no longer in clients_
\* nothing is sent and the loop ends.
ForeignRecv(c) ==
    /\ handler[c] = "foreign"
    /\ handler' = [handler EXCEPT ![c] = "close"]
    /\ UNCHANGED <<running, mainVars, active, tcpVars, mutex, client, obsVars>>

\* Faulty variant of HeldBy: the lock covers the lookup only, as in recvData.
HeldForLookup(c) == Nobody

\* The lock_guard of sendData covers both calls of ::send.
HeldBy(c) == c

\* sendData holds clientsMutex_ until the client has taken the reply.
HandlerReply(c) ==
    /\ handler[c] = "handle" /\ c \notin Killer /\ mutex = Nobody
    /\ handler' = [handler EXCEPT ![c] = IF c \in clients THEN "sending" ELSE "loop"]
    /\ mutex' = IF c \in clients THEN HeldBy(c) ELSE Nobody
    /\ UNCHANGED <<running, mainVars, active, tcpVars, client, obsVars>>

HandlerDie(c) ==
    /\ handler[c] = "handle" /\ c \in Killer
    /\ running' = FALSE
    /\ handler' = [handler EXCEPT ![c] = "stop"]
    /\ UNCHANGED <<mainVars, active, tcpVars, mutex, client, obsVars>>

\* TCPServer::stop up to its lock: the port is given up unless a thread is in accept().
\* A second call finds running_ false.
StopListening(c) ==
    /\ handler[c] = "stop"
    /\ handler' = [handler EXCEPT ![c] = IF listenFd THEN "clear" ELSE "close"]
    /\ listenFd' = FALSE
    /\ sock' = [d \in Conn |-> IF sock[d] = "queued" /\ listenFd /\ mainPc # "accept"
                               THEN "closed" ELSE sock[d]]
    /\ UNCHANGED <<running, mainVars, active, clients, closes, mutex, client, obsVars>>

\* Faulty variant of Cleared: clients_ keeps its entries.
NotCleared == clients

\* clients_.clear()
Cleared == {}

\* The rest of stop: every descriptor in clients_ is closed and the map is cleared.
StopClients(c) ==
    /\ handler[c] = "clear" /\ mutex = Nobody
    /\ handler' = [handler EXCEPT ![c] = "close"]
    /\ sock' = [d \in Conn |-> IF d \in clients THEN "closed" ELSE sock[d]]
    /\ closes' = [d \in Conn |-> IF d \in clients THEN closes[d] + 1 ELSE closes[d]]
    /\ clients' = Cleared
    /\ UNCHANGED <<running, mainVars, active, listenFd, mutex, client, obsVars>>

\* Faulty variant of CloseSock: the entry goes, the descriptor stays open.
CloseSockNot(c) == UNCHANGED <<sock, closes>>

\* ::close of the connection's descriptor.
CloseSock(c) ==
    /\ sock' = [sock EXCEPT ![c] = "closed"]
    /\ closes' = [closes EXCEPT ![c] = @ + 1]

CloseClient(c) ==
    /\ handler[c] = "close" /\ mutex = Nobody
    /\ handler' = [handler EXCEPT ![c] = "count"]
    /\ clients' = clients \ {c}
    /\ IF c \in clients THEN CloseSock(c) ELSE UNCHANGED <<sock, closes>>
    /\ UNCHANGED <<running, mainVars, active, listenFd, mutex, client, obsVars>>

\* activeHandlers_-- without handlersMutex_.
Count(c) ==
    /\ handler[c] = "count"
    /\ handler' = [handler EXCEPT ![c] = "notify"]
    /\ active' = active - 1
    /\ UNCHANGED <<running, mainVars, tcpVars, mutex, client, obsVars>>

\* handlersCv_.notify_one without handlersMutex_: it wakes the thread in start() only if
\* that is blocked already, and the condition variable may be gone.
Notify(c) ==
    /\ handler[c] = "notify"
    /\ handler' = [handler EXCEPT ![c] = "gone"]
    /\ mainPc' = IF mainPc = "waiting" THEN "check" ELSE mainPc
    /\ misused' = (misused \/ mainPc = "destroyed")
    /\ UNCHANGED <<running, accepted, active, tcpVars, mutex, client, rebound>>

-----------------------------------------------------------------------------
ClientStep(c) ==
    \/ Send(c)
    \/ ReadReply(c)
    \/ Disconnected(c)

MainStep ==
    \/ MainLoop
    \/ \E c \in Conn : Accept(c)
    \/ Register
    \/ TestHandlers
    \/ Block
    \/ Destroy

HandlerStep(c) ==
    \/ HandlerLoop(c)
    \/ EnterRecv(c)
    \/ HandlerRecv(c)
    \/ ForeignRecv(c)
    \/ HandlerReply(c)
    \/ HandlerDie(c)
    \/ StopListening(c)
    \/ StopClients(c)
    \/ CloseClient(c)
    \/ Count(c)
    \/ Notify(c)

Next ==
    \/ \E c \in Conn : Connect(c) \/ ClientStep(c) \/ HandlerStep(c)
    \/ MainStep
    \/ StartAgain

Spec == Init /\ [][Next]_vars

\* Every thread that is not blocked runs, a mutex is granted in the end to whoever waits
\* for it, and clients go on with what they began (a stalled one never reads).
FairSpec ==
    /\ Spec
    /\ \A c \in Conn : WF_vars(ClientStep(c)) /\ SF_vars(HandlerStep(c))
    /\ SF_vars(MainStep)

-----------------------------------------------------------------------------
(* Properties.                                                             *)

\* start() returns only when every thread it spawned has left handleClient and will not
\* touch clients_, storage_ or a socket again (start, acceptClient, DIE): the count covers
\* a thread from before it exists, also one accepted after DIE.
ReturnsAfterHandlers ==
    mainPc \in {"returned", "destroyed"} =>
        \A c \in Conn : handler[c] \in {"none", "notify", "gone"}

\* No descriptor is closed twice or left open (closeClient racing stop): a second close
\* could hit a descriptor that was opened since.
ClosedOnce ==
    \A c \in Conn :
        /\ closes[c] <= 1
        /\ handler[c] \in {"notify", "gone"} => closes[c] = 1 /\ sock[c] = "closed"

\* A thread in the middle of a reply, between the two calls of ::send, still has its
\* connection's descriptor (sendData racing stop and closeClient): the second ::send never
\* goes to a number that was closed, and perhaps given out again, after the first.
RepliesToOwnClient == \A c \in Conn : handler[c] = "sending" => sock[c] = "open"

\* Commands are read from the connection the thread was started for (recvData racing stop).
ReadsOwnClient == \A c \in Conn : handler[c] # "foreign"

\* Every client that sent a command is answered or cut off, also when the node is told
\* to DIE meanwhile (README: "Handle concurrent client requests").
EveryoneServed ==
    \A c \in Conn \ (Killer \cup Stalled) :
        client[c] = "sent" ~> client[c] \in {"answered", "closed"}

\* The wait for the handlers comes to an end (storage_node.cpp: "Wait for all client
\* handlers to finish before destroying server").
DrainEnds == mainPc = "check" ~> mainPc = "destroyed"

\* No thread touches the node after it was destroyed (the same comment).
NoUseAfterDestroy == ~misused

\* A node can be started on the port of one that was told to DIE, as
\* main_system_tests.cpp does from one test to the next.
RestartSucceeds == rebound # "failed"
=============================================================================
