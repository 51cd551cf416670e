-------------------------- MODULE NodeServerProofs --------------------------
(***************************************************************************)
(* Theorems about NodeServer, for any number of connections, of DIE        *)
(* commands among them and of clients that never read.                     *)
(***************************************************************************)
EXTENDS NodeServer, FiniteSetTheorems, TLAPS

USE ServerAssumption

Idle == {"none", "notify", "gone"}

\* The threads that activeHandlers_ stands for.
Working == {c \in Conn : handler[c] \notin Idle}

\* activeHandlers_ counts exactly the threads that were given a connection and have not
\* yet counted themselves out.
CountInv == active = Cardinality(Working)

\* Behind its loop the thread in start() accepts nothing more, and behind its wait no
\* thread is left.
DrainInv == mainPc \in {"returned", "destroyed"} => Working = {}

\* The connection between accept() and its entry in clients_.
AcceptInv ==
    IF mainPc = "register"
    THEN accepted \in Conn /\ handler[accepted] = "none" /\ sock[accepted] = "open"
    ELSE accepted = Nobody

\* A connection that has no thread yet: nobody has closed its descriptor.
FreshInv ==
    \A c \in Conn :
        /\ handler[c] = "none" => c \notin clients /\ closes[c] = 0
        /\ sock[c] = "queued" => handler[c] = "none" /\ c # accepted
        /\ client[c] = "idle" => sock[c] = "none" /\ handler[c] = "none" /\ c # accepted

\* The descriptors in clients_ are open, and those of a thread that are not, closed once.
EntryInv ==
    \A c \in Conn :
        /\ c \in clients => sock[c] = "open" /\ closes[c] = 0
        /\ c \in clients => handler[c] \notin Idle \cup {"count"}
        /\ c \notin clients /\ handler[c] # "none" => sock[c] = "closed" /\ closes[c] = 1

\* clientsMutex_ is held across a step by the thread that is sending, which still has its
\* entry in clients_.
MutexInv ==
    \A c \in Conn : /\ handler[c] = "sending" <=> mutex = c
                    /\ handler[c] = "sending" => c \in clients

\* What the map of clients, the descriptors, the mutex and the count know of each other.
ServerInv ==
    TypeOK /\ CountInv /\ DrainInv /\ AcceptInv /\ FreshInv /\ EntryInv /\ MutexInv

\* A node that has just begun to listen.
LEMMA InitServer == Init => ServerInv
<1> SUFFICES ASSUME Init PROVE ServerInv
  OBVIOUS
<1>1. Working = {}
  BY DEF Init, Working, Idle
<1>2. Cardinality({}) = 0 /\ Cardinality(Conn) \in Nat
  BY FS_EmptySet, FS_CardinalityType
<1>3. running \in BOOLEAN /\ listenFd \in BOOLEAN /\ misused \in BOOLEAN
  BY DEF Init
<1>4. TypeOK
  BY <1>2, <1>3 DEF Init, TypeOK
<1> QED
  BY <1>1, <1>2, <1>4
     DEF Init, ServerInv, CountInv, DrainInv, AcceptInv, FreshInv, EntryInv, MutexInv, Idle

\* The flags stay flags.
LEMMA FlagsStep ==
    ASSUME TypeOK, [Next]_vars
    PROVE  running' \in BOOLEAN /\ listenFd' \in BOOLEAN /\ misused' \in BOOLEAN
<1> DEFINE Flags == running' \in BOOLEAN /\ listenFd' \in BOOLEAN /\ misused' \in BOOLEAN
<1>1. running \in BOOLEAN /\ listenFd \in BOOLEAN /\ misused \in BOOLEAN
  BY Zenon DEF TypeOK
<1>2. ASSUME NEW c \in Conn, Connect(c) \/ ClientStep(c) PROVE Flags
  BY <1>1, <1>2, Zenon DEF Connect, ClientStep, Send, ReadReply, Disconnected, tcpVars, obsVars
<1>3. ASSUME NEW c \in Conn, HandlerStep(c) PROVE Flags
  <2>1. CASE HandlerLoop(c) \/ EnterRecv(c) \/ HandlerRecv(c) \/ ForeignRecv(c) \/ HandlerReply(c)
    BY <1>1, <2>1, Zenon
       DEF HandlerLoop, EnterRecv, HandlerRecv, ForeignRecv, HandlerReply, tcpVars, obsVars
  <2>2. CASE HandlerDie(c) \/ StopListening(c) \/ StopClients(c) \/ CloseClient(c) \/ Count(c) \/ Notify(c)
    BY <1>1, <2>2, Zenon
       DEF HandlerDie, StopListening, StopClients, CloseClient, Count, Notify, tcpVars, obsVars
  <2> QED
    BY <1>3, <2>1, <2>2, Zenon DEF HandlerStep
<1>4. CASE MainStep
  BY <1>1, <1>4, Zenon
     DEF MainStep, MainLoop, Accept, Register, TestHandlers, Block, Destroy, tcpVars, obsVars
<1>5. CASE StartAgain
  BY <1>1, <1>5, Zenon DEF StartAgain, tcpVars, obsVars
<1>6. CASE UNCHANGED vars
  BY <1>1, <1>6, Zenon DEF vars, tcpVars, obsVars
<1> QED
  BY <1>2, <1>3, <1>4, <1>5, <1>6, Zenon DEF Next

\* A member of a finite set counts for one.
LEMMA OneLess ==
    ASSUME NEW S, IsFiniteSet(S), NEW x \in S
    PROVE  Cardinality(S \ {x}) \in Nat /\ Cardinality(S \ {x}) = Cardinality(S) - 1
BY FS_RemoveElement, FS_CardinalityType

\* Every step of a client, of the thread in start() or of a connection's thread keeps
\* ServerInv.
LEMMA ServerStep ==
    ASSUME ServerInv, [Next]_vars
    PROVE  ServerInv'
<1> USE DEF ServerInv, TypeOK, CountInv, DrainInv, AcceptInv, FreshInv, EntryInv, MutexInv,
            Working, Idle, mainVars, tcpVars, obsVars
<1>0. running' \in BOOLEAN /\ listenFd' \in BOOLEAN /\ misused' \in BOOLEAN
  BY FlagsStep
<1>1. ASSUME NEW c \in Conn, Connect(c) PROVE ServerInv'
  <2>1. Working' = Working
    BY <1>1 DEF Connect
  <2> QED
    BY <1>0, <1>1, <2>1 DEF Connect
<1>2. ASSUME NEW c \in Conn, Send(c) PROVE ServerInv'
  <2>1. Working' = Working
    BY <1>2 DEF Send
  <2> QED
    BY <1>0, <1>2, <2>1 DEF Send
<1>3. ASSUME NEW c \in Conn, ReadReply(c) PROVE ServerInv'
  <2>1. Working' = Working
    BY <1>3 DEF ReadReply
  <2> QED
    BY <1>0, <1>3, <2>1 DEF ReadReply
<1>4. ASSUME NEW c \in Conn, Disconnected(c) PROVE ServerInv'
  <2>1. Working' = Working
    BY <1>4 DEF Disconnected
  <2> QED
    BY <1>0, <1>4, <2>1 DEF Disconnected
<1>5. ASSUME NEW c \in Conn, HandlerLoop(c) PROVE ServerInv'
  <2>1. Working' = Working
    BY <1>5 DEF HandlerLoop
  <2> QED
    BY <1>0, <1>5, <2>1 DEF HandlerLoop
<1>6. ASSUME NEW c \in Conn, EnterRecv(c) PROVE ServerInv'
  <2>1. PICK pc \in {"recv", "close", "foreign"} : handler' = [handler EXCEPT ![c] = pc]
    BY <1>6 DEF EnterRecv, Stale
  <2>2. /\ handler[c] = "enter"
        /\ UNCHANGED <<running, mainVars, active, tcpVars, mutex, client, obsVars>>
    BY <1>6 DEF EnterRecv
  <2>3. Working' = Working
    BY <2>1, <2>2
  <2>4. TypeOK' /\ CountInv' /\ DrainInv'
    BY <2>1, <2>2, <2>3
  <2>5. AcceptInv' /\ FreshInv' /\ EntryInv' /\ MutexInv'
    BY <2>1, <2>2
  <2> QED
    BY <2>4, <2>5
<1>7. ASSUME NEW c \in Conn, HandlerRecv(c) PROVE ServerInv'
  <2>1. PICK pc \in {"close", "handle", "foreign"} : handler' = [handler EXCEPT ![c] = pc]
    BY <1>7 DEF HandlerRecv, Stale
  <2>2. /\ handler[c] = "recv"
        /\ UNCHANGED <<running, mainVars, active, tcpVars, mutex, client, obsVars>>
    BY <1>7 DEF HandlerRecv
  <2>3. Working' = Working
    BY <2>1, <2>2
  <2>4. TypeOK' /\ CountInv' /\ DrainInv'
    BY <2>1, <2>2, <2>3
  <2>5. AcceptInv' /\ FreshInv' /\ EntryInv' /\ MutexInv'
    BY <2>1, <2>2
  <2> QED
    BY <2>4, <2>5
<1>8. ASSUME NEW c \in Conn, ForeignRecv(c) PROVE ServerInv'
  <2>1. Working' = Working
    BY <1>8 DEF ForeignRecv
  <2> QED
    BY <1>0, <1>8, <2>1 DEF ForeignRecv
<1>9. ASSUME NEW c \in Conn, HandlerReply(c) PROVE ServerInv'
  <2>1. Working' = Working
    BY <1>9 DEF HandlerReply, HeldBy
  <2> QED
    BY <1>0, <1>9, <2>1 DEF HandlerReply, HeldBy
<1>10. ASSUME NEW c \in Conn, HandlerDie(c) PROVE ServerInv'
  <2>1. Working' = Working
    BY <1>10 DEF HandlerDie
  <2> QED
    BY <1>0, <1>10, <2>1 DEF HandlerDie
<1>11. ASSUME NEW c \in Conn, StopListening(c) PROVE ServerInv'
  <2>1. Working' = Working
    BY <1>11 DEF StopListening
  <2> QED
    BY <1>0, <1>11, <2>1 DEF StopListening
<1>12. ASSUME NEW c \in Conn, StopClients(c) PROVE ServerInv'
  <2>1. Working' = Working
    BY <1>12 DEF StopClients, Cleared
  <2>2. sock' \in [Conn -> {"none", "queued", "open", "closed"}] /\ closes' \in [Conn -> Nat]
    BY <1>12 DEF StopClients
  <2>3. FreshInv'
    BY <1>12 DEF StopClients, Cleared
  <2>4. EntryInv'
    BY <1>12 DEF StopClients, Cleared
  <2>5. TypeOK'
    BY <1>0, <1>12, <2>2 DEF StopClients, Cleared
  <2>6. CountInv' /\ DrainInv'
    BY <1>12, <2>1 DEF StopClients
  <2>7. AcceptInv' /\ MutexInv'
    BY <1>12 DEF StopClients
  <2> QED
    BY <2>3, <2>4, <2>5, <2>6, <2>7
<1>13. ASSUME NEW c \in Conn, CloseClient(c) PROVE ServerInv'
  <2>1. Working' = Working
    BY <1>13 DEF CloseClient, CloseSock
  <2>2. CASE c \in clients
    <3>1. CloseSock(c)
      BY <1>13, <2>2 DEF CloseClient
    <3>2. FreshInv'
      BY <1>13, <2>2, <3>1 DEF CloseClient, CloseSock
    <3>3. EntryInv'
      BY <1>13, <2>2, <3>1 DEF CloseClient, CloseSock
    <3>4. TypeOK'
      BY <1>0, <1>13, <3>1 DEF CloseClient, CloseSock
    <3>5. CountInv' /\ DrainInv'
      BY <1>13, <2>1 DEF CloseClient
    <3>6. AcceptInv' /\ MutexInv'
      BY <1>13, <3>1 DEF CloseClient, CloseSock
    <3> QED
      BY <3>2, <3>3, <3>4, <3>5, <3>6
  <2>3. CASE c \notin clients
    BY <1>0, <1>13, <2>1, <2>3 DEF CloseClient
  <2> QED
    BY <2>2, <2>3
<1>14. ASSUME NEW c \in Conn, Count(c) PROVE ServerInv'
  <2>1. Working' = Working \ {c} /\ c \in Working
    BY <1>14 DEF Count
  <2>2. IsFiniteSet(Working)
    BY FS_Subset
  <2>3. Cardinality(Working') \in Nat /\ Cardinality(Working') = Cardinality(Working) - 1
    BY <2>1, <2>2, OneLess
  <2>4. active' = active - 1 /\ active \in 0..Cardinality(Conn) /\ Cardinality(Conn) \in Nat
    BY <1>14, FS_CardinalityType DEF Count
  <2>5. active' \in 0..Cardinality(Conn) /\ CountInv'
    BY <2>3, <2>4
  <2> QED
    BY <1>0, <1>14, <2>1, <2>5 DEF Count
<1>15. ASSUME NEW c \in Conn, Notify(c) PROVE ServerInv'
  <2>1. Working' = Working
    BY <1>15 DEF Notify
  <2>2. TypeOK'
    BY <1>0, <1>15 DEF Notify
  <2>3. CountInv' /\ DrainInv'
    BY <1>15, <2>1 DEF Notify
  <2>4. AcceptInv' /\ FreshInv' /\ EntryInv' /\ MutexInv'
    BY <1>15 DEF Notify
  <2> QED
    BY <2>2, <2>3, <2>4
<1>16. CASE StartAgain
  BY <1>0, <1>16 DEF StartAgain
<1>17. CASE MainLoop
  BY <1>0, <1>17 DEF MainLoop
<1>18. ASSUME NEW c \in Conn, Accept(c) PROVE ServerInv'
  <2>1. Working' = Working
    BY <1>18 DEF Accept
  <2>2. \A d \in Conn : /\ sock'[d] \in {"none", "queued", "open", "closed"}
                        /\ d = c => sock'[d] = "open"
                        /\ d # c => sock'[d] = sock[d] \/ (sock[d] = "queued" /\ sock'[d] = "closed")
    BY <1>18 DEF Accept
  <2>3. sock' \in [Conn -> {"none", "queued", "open", "closed"}]
    BY <1>18, <2>2 DEF Accept
  <2>4. FreshInv'
    BY <1>18, <2>2 DEF Accept
  <2>5. EntryInv'
    BY <1>18, <2>2 DEF Accept
  <2>6. AcceptInv'
    BY <1>18, <2>2 DEF Accept
  <2> QED
    BY <1>0, <1>18, <2>1, <2>3, <2>4, <2>5, <2>6 DEF Accept
<1>19. CASE Register
  <2>1. Working' = Working \cup {accepted} /\ accepted \notin Working /\ accepted \in Conn
    BY <1>19 DEF Register
  <2>2. IsFiniteSet(Working) /\ IsFiniteSet(Working')
    BY FS_Subset
  <2>3. Cardinality(Working) \in Nat /\ Cardinality(Working') = Cardinality(Working) + 1
    BY <2>1, <2>2, FS_AddElement, FS_CardinalityType
  <2>4. Cardinality(Working') <= Cardinality(Conn) /\ Cardinality(Conn) \in Nat
    BY FS_Subset, FS_CardinalityType
  <2>5. active' \in 0..Cardinality(Conn) /\ CountInv'
    BY <1>19, <2>3, <2>4 DEF Register, Counted
  <2> QED
    BY <1>0, <1>19, <2>1, <2>5 DEF Register
<1>20. CASE TestHandlers
  <2>1. active = 0 => Working = {}
    BY FS_Subset, FS_EmptySet
  <2> QED
    BY <1>0, <1>20, <2>1 DEF TestHandlers
<1>21. CASE Block
  BY <1>0, <1>21 DEF Block
<1>22. CASE Destroy
  BY <1>0, <1>22 DEF Destroy
<1>23. CASE UNCHANGED vars
  BY <1>0, <1>23 DEF vars
<1> QED
  BY <1>1, <1>2, <1>3, <1>4, <1>5, <1>6, <1>7, <1>8, <1>9, <1>10, <1>11, <1>12, <1>13, <1>14,
     <1>15, <1>16, <1>17, <1>18, <1>19, <1>20, <1>21, <1>22, <1>23
     DEF Next, ClientStep, MainStep, HandlerStep

\* ServerInv is an invariant.
LEMMA ServerAlways == Spec => []ServerInv
<1>1. ServerInv /\ [Next]_vars => ServerInv'
  BY ServerStep
<1> QED
  BY InitServer, <1>1, PTL DEF Spec

\* The types of all state of a node's process; in particular activeHandlers_ never goes
\* below zero nor above the number of connections (start).
THEOREM ServerTypeCorrect == Spec => []TypeOK
<1>1. ServerInv => TypeOK
  BY DEF ServerInv
<1> QED
  BY ServerAlways, <1>1, PTL

\* start() returns, and the node is destroyed, only when every connection's thread has
\* left handleClient, however accept(), DIE and the handlers interleave.
THEOREM StartOutlivesHandlers == Spec => []ReturnsAfterHandlers
<1>1. ServerInv => ReturnsAfterHandlers
  BY DEF ServerInv, DrainInv, Working, Idle, ReturnsAfterHandlers
<1> QED
  BY ServerAlways, <1>1, PTL

\* closeClient and any number of calls of stop() close every descriptor exactly once.
THEOREM DescriptorsClosedOnce == Spec => []ClosedOnce
<1>1. ServerInv => ClosedOnce
  <2> SUFFICES ASSUME ServerInv, NEW c \in Conn
               PROVE  /\ closes[c] <= 1
                      /\ handler[c] \in {"notify", "gone"} => closes[c] = 1 /\ sock[c] = "closed"
    BY DEF ClosedOnce
  <2>1. c \in clients \/ handler[c] = "none" => closes[c] = 0 /\ handler[c] \notin {"notify", "gone"}
    BY DEF ServerInv, EntryInv, FreshInv, Idle
  <2>2. c \notin clients /\ handler[c] # "none" => closes[c] = 1 /\ sock[c] = "closed"
    BY DEF ServerInv, EntryInv
  <2> QED
    BY <2>1, <2>2
<1> QED
  BY ServerAlways, <1>1, PTL

\* The descriptor of a reply stays its client's until the reply is out: sendData keeps
\* clientsMutex_, which stop() and closeClient need to close it.
THEOREM RepliesKeepTheirDescriptor == Spec => []RepliesToOwnClient
<1>1. ServerInv => RepliesToOwnClient
  BY DEF ServerInv, MutexInv, EntryInv, RepliesToOwnClient
<1> QED
  BY ServerAlways, <1>1, PTL
=============================================================================
