---------------------------- MODULE MetadataChain ----------------------------
(***************************************************************************)
(* The metadata layer: a chain of MetadataNode processes, the clients that *)
(* PUT and GET file metadata through it, and the failures it repairs.      *)
(*                                                                         *)
(* A node is its position in Client::metadataNodes_; that position also    *)
(* stands for its address, so nextNodePort and its siblings hold positions *)
(* or NoPort (-1 in the code).  Every connection gets a handler thread of  *)
(* its own.  A PUT that enters the chain at node e runs one thread per     *)
(* node it is forwarded to, so <<o, e, n>> names a thread of upload o.     *)
(* The metadata record a PUT carries is abstracted to the PUT itself: two  *)
(* uploads never carry the same record.  A port on which nobody listens is *)
(* that of a node in LateStart that is never started.                      *)
(***************************************************************************)
EXTENDS Integers, FiniteSets

CONSTANTS
    N,             \* length of the chain
    File,          \* names of files
    FirstWord,     \* what iss >> filename makes of a name: it ends at a blank
    Unparsable,    \* names with a blank behind which no number follows
    Blank,         \* names without a word; on an upload the word behind is read
    PutOp,         \* calls of Client::uploadFile, from its metadata phase on
    GetOp,         \* calls of the metadata phase of Client::downloadFile
    Session,       \* the Client object each call is made on
    FirstNext,     \* the successor each node is started with (NodeConfig)
    LateStart,     \* the nodes not yet started when the first clients are
    TailFirst,     \* nodes are started from the tail, as startCluster does
    Restartable,   \* the nodes that are started again after they died
    Hangable,      \* the nodes that may stop running for a while, sockets open
    SlowSend,      \* the nodes that may be held up between connect and send
    Crashable,     \* the nodes that may die
    MaxCrashes,    \* how many of them may (bound)
    OperatorCmds,  \* chain commands an operator sends, each at most once
    NoMeta         \* no entry for a name in a metadataStore_

Node == 1..N
Op   == PutOp \cup GetOp
NoPort == -1
Port == Node \cup {NoPort}
PutThread == PutOp \X Node \X Node
GetThread == GetOp \X Node
\* NOTICE is the UPDATE_PREV of notifyNextOfPredecessor, whose sender does not
\* wait for the ACK.
OperatorCmd == {"UPDATE_PREV", "UPDATE_NEXT", "SET_SKIP"} \X Node \X Port
ChainCmd == OperatorCmd \cup {"NOTICE"} \X Node \X Node

ASSUME ChainAssumption ==
    /\ N \in Nat \ {0}
    /\ FirstWord \in [File -> File]
    /\ Unparsable \subseteq File
    /\ Blank \subseteq File
    /\ PutOp \cap GetOp = {}
    /\ NoMeta \notin PutOp
    /\ Crashable \subseteq Node
    /\ SlowSend \subseteq Node
    /\ MaxCrashes \in Nat
    /\ OperatorCmds \subseteq OperatorCmd
    /\ FirstNext \in [Node -> Port]
    /\ LateStart \subseteq Node
    /\ TailFirst \in BOOLEAN
    /\ TailFirst => \A n \in LateStart : 1..n \subseteq LateStart

\* Successors are only ever configured forwards: with a cycle of successors a
\* PUT would be forwarded for ever.
ASSUME ForwardAssumption ==
    /\ \A m \in OperatorCmds :
          m[1] \in {"UPDATE_NEXT", "SET_SKIP"} /\ m[3] # NoPort => m[2] < m[3]
    /\ \A n \in Node : FirstNext[n] # NoPort => n < FirstNext[n]

VARIABLES
    status,          \* "off" before its start; "up"; "hung" while it does not run;
                     \* "stopping" after DIE; "down" once the process is gone
    role,            \* role_
    nextNodePort,    \* nextNodePort_ (nextNodeIp_ changes with it)
    prevNodePort,    \* prevNodePort_
    skipToPort,      \* skipToPort_
    healthPc,        \* where the health thread is in healthCheckLoop
    metadataStore,   \* metadataStore_ of every node
    mail,            \* chain commands sent and not yet handled
    putPc,           \* where a PUT thread is, or the reply it sent
    callee,          \* the node a PUT thread forwarded to
    getPc,           \* where a GET thread is, or the reply it sent
    answer,          \* the record a GET thread found
    opState,         \* where a client call is
    opFile,          \* the file a call is about
    cursor,          \* the index into metadataNodes_ a call has reached
    result,          \* the record a GET returned
    before           \* history: the calls that had returned when a call began

nodeVars   == <<role, nextNodePort, prevNodePort, skipToPort, healthPc, mail>>
threadVars == <<putPc, callee, getPc, answer, metadataStore>>
clientVars == <<opState, opFile, cursor, result, before>>
vars == <<status, nodeVars, threadVars, clientVars>>

\* A node's sockets are open: it can be connected to and sent to.
Up(n)    == status[n] \in {"up", "hung"}
\* Its threads run; those of a node that was told to DIE run on.
Alive(n) == status[n] \in {"up", "stopping"}
Gone(n)  == status[n] \in {"stopping", "down"}
Serving  == {"TAIL", "SINGLE"}
Returned == {"ok", "failed"}

PutPc == {"none", "recv", "stored", "forward", "waiting", "ack", "error", "closed"}
GetPc == {"none", "recv", "lookup", "found", "notfound", "redirect", "closed"}
HealthPc == {"sleep", "failed", "notify", "setrole", "setport", "exited"}

\* The types of all state: records only ever name PUTs, ports only nodes.
TypeOK ==
    /\ status \in [Node -> {"off", "up", "hung", "stopping", "down"}]
    /\ role \in [Node -> {"HEAD", "MIDDLE", "TAIL", "SINGLE"}]
    /\ nextNodePort \in [Node -> Port]
    /\ prevNodePort \in [Node -> Port]
    /\ skipToPort \in [Node -> Port]
    /\ healthPc \in [Node -> HealthPc]
    /\ metadataStore \in [Node -> [File -> PutOp \cup {NoMeta}]]
    /\ mail \subseteq ChainCmd
    /\ putPc \in [PutThread -> PutPc]
    /\ callee \in [PutThread -> Port]
    /\ getPc \in [GetThread -> GetPc]
    /\ answer \in [GetThread -> PutOp \cup {NoMeta}]
    /\ opState \in [Op -> {"idle", "trying", "waiting"} \cup Returned]
    /\ opFile \in [Op -> File]
    /\ cursor \in [Op -> Node]
    /\ result \in [GetOp -> PutOp \cup {NoMeta}]
    /\ before \in [Op -> SUBSET Op]

-----------------------------------------------------------------------------
(* A node is constructed with its successor; one without is a TAIL, every  *)
(* other one takes itself for a HEAD.                                      *)
FirstRole(n) == IF FirstNext[n] = NoPort THEN "TAIL" ELSE "HEAD"

Init ==
    /\ status = [n \in Node |-> IF n \in LateStart THEN "off" ELSE "up"]
    /\ nextNodePort = FirstNext
    /\ role = [n \in Node |-> FirstRole(n)]
    /\ prevNodePort = [n \in Node |-> NoPort]
    /\ skipToPort = [n \in Node |-> NoPort]
    /\ healthPc = [n \in Node |-> "sleep"]
    /\ metadataStore = [n \in Node |-> [f \in File |-> NoMeta]]
    /\ mail = OperatorCmds
    /\ putPc = [h \in PutThread |-> "none"]
    /\ callee = [h \in PutThread |-> NoPort]
    /\ getPc = [h \in GetThread |-> "none"]
    /\ answer = [h \in GetThread |-> NoMeta]
    /\ opState = [o \in Op |-> "idle"]
    /\ opFile \in [Op -> File]
    /\ cursor = [o \in Op |-> IF o \in PutOp THEN 1 ELSE N]
    /\ result = [o \in GetOp |-> NoMeta]
    /\ before = [o \in Op |-> {}]

-----------------------------------------------------------------------------
(* The client.  A Client object runs one call at a time; a call walks the  *)
(* node list, PUT from the head and GET from the tail, until a node gives  *)
(* it what it wants.                                                       *)

Invoke(o) ==
    /\ opState[o] = "idle"
    /\ \A p \in Op : Session[p] = Session[o] => opState[p] \in {"idle"} \cup Returned
    /\ opState' = [opState EXCEPT ![o] = "trying"]
    /\ before' = [before EXCEPT ![o] = {p \in Op : opState[p] \in Returned}]
    /\ UNCHANGED <<status, nodeVars, threadVars, opFile, cursor, result>>

\* Faulty variant of TryNextNode: the loop runs one node too far.
TryNextNodeTooFar(o, last, step) ==
    IF cursor[o] = last + step
    THEN opState' = [opState EXCEPT ![o] = "failed"] /\ UNCHANGED cursor
    ELSE /\ opState' = [opState EXCEPT ![o] = "trying"]
         /\ cursor' = [cursor EXCEPT ![o] = @ + step]

\* The node under the cursor did not do: go on to the next, or give up.
TryNextNode(o, last, step) ==
    IF cursor[o] = last
    THEN /\ opState' = [opState EXCEPT ![o] = "failed"]
         /\ UNCHANGED cursor
    ELSE /\ opState' = [opState EXCEPT ![o] = "trying"]
         /\ cursor' = [cursor EXCEPT ![o] = @ + step]

\* putMetadataToNode connects and sends the command.
PutMetadataToNode(o) ==
    LET e == cursor[o] IN
    /\ opState[o] = "trying"
    /\ Up(e)
    /\ putPc' = [putPc EXCEPT ![<<o, e, e>>] = "recv"]
    /\ opState' = [opState EXCEPT ![o] = "waiting"]
    /\ UNCHANGED <<status, nodeVars, callee, getPc, answer, metadataStore,
                   opFile, cursor, result, before>>

PutAcked(o) ==
    /\ opState[o] = "waiting"
    /\ putPc[<<o, cursor[o], cursor[o]>>] = "ack"
    /\ opState' = [opState EXCEPT ![o] = "ok"]
    /\ UNCHANGED <<status, nodeVars, threadVars, opFile, cursor, result, before>>

\* Faulty variant of Refused: a broken connection goes unnoticed.
RefusedByReply(o, e, n) == putPc[<<o, e, n>>] = "error"

\* Any answer but ACK: ERROR_ARGS, ERROR_FORWARD or the empty read of a broken connection.
Refused(o, e, n) == putPc[<<o, e, n>>] \in {"error", "closed"} \/ ~Up(n)

\* No connection, or no ACK on it: putMetadataToNode returns false and uploadFile tries
\* the next node of the list.
PutFailedHere(o) ==
    LET e == cursor[o] IN
    /\ \/ opState[o] = "trying" /\ ~Up(e)
       \/ opState[o] = "waiting" /\ Refused(o, e, e)
    /\ TryNextNode(o, N, 1)
    /\ UNCHANGED <<status, nodeVars, threadVars, opFile, result, before>>

GetMetadataFromNode(o) ==
    LET e == cursor[o] IN
    /\ opState[o] = "trying"
    /\ Up(e)
    /\ getPc' = [getPc EXCEPT ![<<o, e>>] = "recv"]
    /\ opState' = [opState EXCEPT ![o] = "waiting"]
    /\ UNCHANGED <<status, nodeVars, putPc, callee, answer, metadataStore,
                   opFile, cursor, result, before>>

GetFound(o) ==
    LET e == cursor[o] IN
    /\ opState[o] = "waiting"
    /\ getPc[<<o, e>>] = "found"
    /\ result' = [result EXCEPT ![o] = answer[<<o, e>>]]
    /\ opState' = [opState EXCEPT ![o] = "ok"]
    /\ UNCHANGED <<status, nodeVars, threadVars, opFile, cursor, before>>

\* NOT_FOUND, REDIRECT_TO_TAIL, a broken connection and no connection at all
\* leave the record empty alike, and downloadFile tries the node before.
GetFailedHere(o) ==
    LET e == cursor[o] IN
    /\ \/ opState[o] = "trying" /\ ~Up(e)
       \/ opState[o] = "waiting" /\ (getPc[<<o, e>>] \in {"notfound", "redirect", "closed"} \/ ~Up(e))
    /\ TryNextNode(o, 1, -1)
    /\ UNCHANGED <<status, nodeVars, threadVars, opFile, result, before>>

-----------------------------------------------------------------------------
(* MetadataNode::handlePut in a thread of node n.                          *)

\* server_.sendMessage: once DIE has closed every socket no reply goes out.
Reply(n, r) == IF Up(n) THEN r ELSE "closed"

\* The process that forwarded the command to this thread is gone.
CallerGone(o, e, n) ==
    \E m \in Node : /\ callee[<<o, e, m>>] = n
                    /\ status[m] = "down" \/ putPc[<<o, e, m>>] = "closed"

\* sendData writes a length and a payload, and SIGPIPE is not ignored: on a socket
\* the peer has closed, the second ::send may kill the whole process.
MayBreakPipe(n) == status' \in {status, [status EXCEPT ![n] = "down"]}

PutReply(o, e, n, r) ==
    /\ putPc' = [putPc EXCEPT ![<<o, e, n>>] = Reply(n, r)]
    /\ IF Up(n) /\ CallerGone(o, e, n) THEN MayBreakPipe(n) ELSE UNCHANGED status
    /\ UNCHANGED <<nodeVars, callee, getPc, answer, metadataStore, clientVars>>

\* The rest of the name stands where the file size should.
HandlePutBadArgs(o, e, n) ==
    /\ Alive(n)
    /\ putPc[<<o, e, n>>] = "recv"
    /\ opFile[o] \in Unparsable
    /\ PutReply(o, e, n, "error")

\* The name a command about the call's file carries, as handlePut and handleGet read it.
Name(o) == FirstWord[opFile[o]]

\* Faulty variant of Assigned: insert where assignment is meant.
Inserted(store, f, o) == IF store[f] = NoMeta THEN [store EXCEPT ![f] = o] ELSE store

\* metadataStore_[filename] = meta
Assigned(store, f, o) == [store EXCEPT ![f] = o]

\* The record is stored, under storeMutex_, before anything is forwarded.
HandlePutStore(o, e, n) ==
    /\ Alive(n)
    /\ putPc[<<o, e, n>>] = "recv"
    /\ opFile[o] \notin Unparsable
    /\ metadataStore' = [metadataStore EXCEPT ![n] = Assigned(@, Name(o), o)]
    /\ putPc' = [putPc EXCEPT ![<<o, e, n>>] = "stored"]
    /\ UNCHANGED <<status, nodeVars, callee, getPc, answer, clientVars>>

\* role_ and nextNodePort_ are read without chainMutex_.
Forwards(n) == role[n] \notin Serving /\ nextNodePort[n] # NoPort

HandlePutDecide(o, e, n) ==
    /\ Alive(n)
    /\ putPc[<<o, e, n>>] = "stored"
    /\ \/ /\ Forwards(n)
          /\ putPc' = [putPc EXCEPT ![<<o, e, n>>] = "forward"]
          /\ UNCHANGED <<status, nodeVars, callee, getPc, answer, metadataStore, clientVars>>
       \/ /\ ~Forwards(n)
          /\ PutReply(o, e, n, "ack")

\* forwardPut reads the successor again; it may have changed since.
ForwardPut(o, e, n) ==
    LET t == nextNodePort[n] IN
    /\ Alive(n)
    /\ putPc[<<o, e, n>>] = "forward"
    /\ t # NoPort /\ Up(t)
    /\ putPc' = [putPc EXCEPT ![<<o, e, n>>] = "waiting", ![<<o, e, t>>] = "recv"]
    /\ callee' = [callee EXCEPT ![<<o, e, n>>] = t]
    /\ UNCHANGED <<status, nodeVars, getPc, answer, metadataStore, clientVars>>

\* Faulty variant of ConnectFailed: the failure to connect is ignored.
ConnectIgnored == "ack"

\* What forwardPut makes of a failed connect: success is false.
ConnectFailed == "error"

ForwardPutNoConnection(o, e, n) ==
    LET t == nextNodePort[n] IN
    /\ Alive(n)
    /\ putPc[<<o, e, n>>] = "forward"
    /\ IF t = NoPort THEN TRUE ELSE ~Up(t)
    /\ PutReply(o, e, n, ConnectFailed)

\* Faulty variant of Acked: the reply is not awaited.
NotAwaited(o, e, t) == TRUE

\* response == "ACK"
Acked(o, e, t) == putPc[<<o, e, t>>] = "ack"

ForwardPutAcked(o, e, n) ==
    /\ Alive(n)
    /\ putPc[<<o, e, n>>] = "waiting"
    /\ Acked(o, e, callee[<<o, e, n>>])
    /\ PutReply(o, e, n, "ack")

ForwardPutRefused(o, e, n) ==
    /\ Alive(n)
    /\ putPc[<<o, e, n>>] = "waiting"
    /\ Refused(o, e, callee[<<o, e, n>>])
    /\ PutReply(o, e, n, "error")

PutThreadStep(o, e, n) ==
    \/ HandlePutBadArgs(o, e, n)
    \/ HandlePutStore(o, e, n)
    \/ HandlePutDecide(o, e, n)
    \/ ForwardPut(o, e, n)
    \/ ForwardPutNoConnection(o, e, n)
    \/ ForwardPutAcked(o, e, n)
    \/ ForwardPutRefused(o, e, n)

-----------------------------------------------------------------------------
(* MetadataNode::handleGet in a thread of node n.                          *)

\* Faulty variant of Serves: every node answers.
ServesAlways(n) == TRUE

\* role_ is read without chainMutex_ here too.
Serves(n) == role[n] \in Serving

\* if (iss >> filename) without an else: a GET that names nothing gets no answer, and its
\* thread is in recvMessage again.
HandleGetRole(o, n) ==
    /\ Alive(n)
    /\ getPc[<<o, n>>] = "recv"
    /\ opFile[o] \notin Blank
    /\ getPc' = [getPc EXCEPT ![<<o, n>>] =
                    IF Serves(n) THEN "lookup" ELSE Reply(n, "redirect")]
    /\ UNCHANGED <<status, nodeVars, putPc, callee, answer, metadataStore, clientVars>>

HandleGetLookup(o, n) ==
    LET m == metadataStore[n][Name(o)] IN
    /\ Alive(n)
    /\ getPc[<<o, n>>] = "lookup"
    /\ answer' = [answer EXCEPT ![<<o, n>>] = m]
    /\ getPc' = [getPc EXCEPT ![<<o, n>>] =
                    Reply(n, IF m = NoMeta THEN "notfound" ELSE "found")]
    /\ UNCHANGED <<status, nodeVars, putPc, callee, metadataStore, clientVars>>

-----------------------------------------------------------------------------
(* The health thread and the chain commands.  chainMutex_ is held from the *)
(* first assignment of handleNextNodeFailure to its last; the other users  *)
(* of the mutex are one step each.                                         *)

ChainLocked(n) == healthPc[n] \in {"notify", "setrole", "setport"}

\* An iteration ends: while (running_).
NextIteration(n) == IF Up(n) THEN "sleep" ELSE "exited"

\* Faulty variant of PingNext: the PING goes unanswered by a node that is up.
PingLost(n) == nextNodePort[n] = NoPort

\* The successor, if there is one, answers PONG.
PingNext(n) == nextNodePort[n] # NoPort => Up(nextNodePort[n])

\* sleep_for(3s), then pingNext.  recvMessage has no timeout: a successor that hangs is
\* waited for until it runs again or its process is gone.
HealthCheck(n) ==
    /\ Alive(n)
    /\ healthPc[n] = "sleep"
    /\ nextNodePort[n] # NoPort => status[nextNodePort[n]] # "hung"
    /\ healthPc' = [healthPc EXCEPT ![n] = IF PingNext(n) THEN NextIteration(n) ELSE "failed"]
    /\ UNCHANGED <<status, role, nextNodePort, prevNodePort, skipToPort, mail,
                   threadVars, clientVars>>

\* handleNextNodeFailure with a skip node: link to it, then tell it.
SkipToNode(n) ==
    /\ Alive(n)
    /\ healthPc[n] = "failed"
    /\ skipToPort[n] # NoPort
    /\ nextNodePort' = [nextNodePort EXCEPT ![n] = skipToPort[n]]
    /\ skipToPort' = [skipToPort EXCEPT ![n] = NoPort]
    /\ healthPc' = [healthPc EXCEPT ![n] = "notify"]
    /\ UNCHANGED <<status, role, prevNodePort, mail, threadVars, clientVars>>

\* Faulty variant of NoticeTo: the new successor is not told.
NoticeToNobody(t, n) == {}

\* The UPDATE_PREV reaches a node that can be connected to.
NoticeTo(t, n) == IF Up(t) THEN {<<"NOTICE", t, n>>} ELSE {}

NotifyNextOfPredecessor(n) ==
    /\ Alive(n)
    /\ healthPc[n] = "notify"
    /\ mail' = mail \cup NoticeTo(nextNodePort[n], n)
    /\ healthPc' = [healthPc EXCEPT ![n] = NextIteration(n)]
    /\ UNCHANGED <<status, role, nextNodePort, prevNodePort, skipToPort,
                   threadVars, clientVars>>

\* handleNextNodeFailure without one assigns nextNodePort_ and role_, which the
\* PUT and GET threads read unlocked: they may see either assignment first.
ClearNext(n) ==
    /\ Alive(n)
    /\ \/ /\ healthPc[n] = "failed"
          /\ skipToPort[n] = NoPort
          /\ healthPc' = [healthPc EXCEPT ![n] = "setrole"]
       \/ /\ healthPc[n] = "setport"
          /\ healthPc' = [healthPc EXCEPT ![n] = NextIteration(n)]
    /\ nextNodePort' = [nextNodePort EXCEPT ![n] = NoPort]
    /\ UNCHANGED <<status, role, prevNodePort, skipToPort, mail, threadVars, clientVars>>

\* Faulty variant of LastRole: the role stays as it is.
LastRoleKept(n) == role[n]

\* The role of a node that has lost its last successor.
LastRole(n) == IF prevNodePort[n] = NoPort THEN "SINGLE" ELSE "TAIL"

BecomeTail(n) ==
    /\ Alive(n)
    /\ \/ /\ healthPc[n] = "failed"
          /\ skipToPort[n] = NoPort
          /\ healthPc' = [healthPc EXCEPT ![n] = "setport"]
       \/ /\ healthPc[n] = "setrole"
          /\ healthPc' = [healthPc EXCEPT ![n] = NextIteration(n)]
    /\ role' = [role EXCEPT ![n] = LastRole(n)]
    /\ UNCHANGED <<status, nextNodePort, prevNodePort, skipToPort, mail,
                   threadVars, clientVars>>

\* UPDATE_PREV: the role of a node that now has a predecessor.
RoleWithPrev(r) ==
    CASE r = "HEAD" -> "MIDDLE"
      [] r = "SINGLE" -> "TAIL"
      [] OTHER -> r

HandleUpdatePrev(n, p, cmd) ==
    LET m == <<cmd, n, p>> IN
    /\ m \in mail
    /\ status[n] = "up" /\ ~ChainLocked(n)
    /\ mail' = mail \ {m}
    /\ IF cmd = "NOTICE" THEN MayBreakPipe(n) ELSE UNCHANGED status
    /\ prevNodePort' = [prevNodePort EXCEPT ![n] = p]
    /\ role' = [role EXCEPT ![n] = RoleWithPrev(@)]
    /\ UNCHANGED <<nextNodePort, skipToPort, healthPc, threadVars, clientVars>>

\* Faulty variant of RoleWithNext: a TAIL that gets a successor stays TAIL.
RoleKept(r) == r

\* UPDATE_NEXT: the role of a node that now has a successor.
RoleWithNext(r) ==
    CASE r = "TAIL" -> "MIDDLE"
      [] r = "SINGLE" -> "HEAD"
      [] OTHER -> r

HandleUpdateNext(n, p) ==
    LET m == <<"UPDATE_NEXT", n, p>> IN
    /\ m \in mail
    /\ status[n] = "up" /\ ~ChainLocked(n)
    /\ mail' = mail \ {m}
    /\ nextNodePort' = [nextNodePort EXCEPT ![n] = p]
    /\ role' = [role EXCEPT ![n] = RoleWithNext(@)]
    /\ UNCHANGED <<status, prevNodePort, skipToPort, healthPc, threadVars, clientVars>>

HandleSetSkip(n, p) ==
    LET m == <<"SET_SKIP", n, p>> IN
    /\ m \in mail
    /\ status[n] = "up" /\ ~ChainLocked(n)
    /\ mail' = mail \ {m}
    /\ skipToPort' = [skipToPort EXCEPT ![n] = p]
    /\ UNCHANGED <<status, role, nextNodePort, prevNodePort, healthPc,
                   threadVars, clientVars>>

-----------------------------------------------------------------------------
(* Start, failure and restart.  Nothing is persisted: a node that starts   *)
(* again has its first links and no records.                               *)

MayDie(n) ==
    /\ n \in Crashable
    /\ Cardinality({m \in Node : Gone(m)}) < MaxCrashes

\* DIE: running_ = false and server_.stop() closes every socket of the node.
Die(n) ==
    /\ status[n] = "up" /\ MayDie(n)
    /\ status' = [status EXCEPT ![n] = "stopping"]
    /\ UNCHANGED <<nodeVars, threadVars, clientVars>>

\* The process is gone: killed, or a node told to DIE has come to its end.
Crash(n) ==
    /\ status[n] = "stopping" \/ (Up(n) /\ MayDie(n))
    /\ status' = [status EXCEPT ![n] = "down"]
    /\ UNCHANGED <<nodeVars, threadVars, clientVars>>

\* The peer n has connected to goes away before n has sent: SIGPIPE kills n.  A PUT that the
\* peer has not read may be unsent; a ping, or a notice, may be where it has connected only.
KilledSending(n) ==
    /\ n \in SlowSend /\ Alive(n)
    /\ \/ \E o \in PutOp, e, t \in Node :
             /\ putPc[<<o, e, n>>] = "waiting" /\ callee[<<o, e, n>>] = t
             /\ Gone(t) /\ putPc[<<o, e, t>>] = "recv"
       \/ healthPc[n] = "sleep" /\ nextNodePort[n] # NoPort /\ Gone(nextNodePort[n])
    /\ status' = [status EXCEPT ![n] = "down"]
    /\ UNCHANGED <<nodeVars, threadVars, clientVars>>

\* The process is stopped, or its machine stalls, and goes on later (external).
Hang(n) ==
    /\ n \in Hangable
    /\ status[n] = "up"
    /\ status' = [status EXCEPT ![n] = "hung"]
    /\ UNCHANGED <<nodeVars, threadVars, clientVars>>

Resume(n) ==
    /\ status[n] = "hung"
    /\ status' = [status EXCEPT ![n] = "up"]
    /\ UNCHANGED <<nodeVars, threadVars, clientVars>>

\* The threads of the process before are gone, and their connections broken.
Broken(pc, replies) == IF pc \in {"none"} \cup replies THEN pc ELSE "closed"

\* main constructs the node and start() listens; also after an earlier process died.
Start(n) ==
    /\ status[n] = "off" \/ (status[n] = "down" /\ n \in Restartable)
    /\ TailFirst => \A m \in n + 1..N : status[m] # "off"
    /\ status' = [status EXCEPT ![n] = "up"]
    /\ nextNodePort' = [nextNodePort EXCEPT ![n] = FirstNext[n]]
    /\ role' = [role EXCEPT ![n] = FirstRole(n)]
    /\ prevNodePort' = [prevNodePort EXCEPT ![n] = NoPort]
    /\ skipToPort' = [skipToPort EXCEPT ![n] = NoPort]
    /\ healthPc' = [healthPc EXCEPT ![n] = "sleep"]
    /\ metadataStore' = [metadataStore EXCEPT ![n] = [f \in File |-> NoMeta]]
    /\ mail' = mail \ ({"NOTICE"} \X {n} \X Node)
    /\ putPc' = [h \in PutThread |->
                    IF h[3] = n THEN Broken(putPc[h], {"ack", "error"}) ELSE putPc[h]]
    /\ getPc' = [h \in GetThread |->
                    IF h[2] = n THEN Broken(getPc[h], {"found", "notfound", "redirect"})
                    ELSE getPc[h]]
    /\ UNCHANGED <<callee, answer, clientVars>>

-----------------------------------------------------------------------------
ClientPut(o) == PutMetadataToNode(o) \/ PutAcked(o) \/ PutFailedHere(o)
ClientGet(o) == GetMetadataFromNode(o) \/ GetFound(o) \/ GetFailedHere(o)

HealthThread(n) ==
    \/ HealthCheck(n)
    \/ SkipToNode(n)
    \/ NotifyNextOfPredecessor(n)
    \/ ClearNext(n)
    \/ BecomeTail(n)

ChainCommand(n, p) ==
    \/ HandleUpdatePrev(n, p, "UPDATE_PREV")
    \/ HandleUpdatePrev(n, p, "NOTICE")
    \/ HandleUpdateNext(n, p)
    \/ HandleSetSkip(n, p)

StatusStep(n) == Die(n) \/ Crash(n) \/ KilledSending(n) \/ Hang(n) \/ Resume(n)

Next ==
    \/ \E o \in Op : Invoke(o)
    \/ \E o \in PutOp : ClientPut(o)
    \/ \E o \in GetOp : ClientGet(o)
    \/ \E o \in PutOp, e, n \in Node : PutThreadStep(o, e, n)
    \/ \E o \in GetOp, n \in Node : HandleGetRole(o, n) \/ HandleGetLookup(o, n)
    \/ \E n \in Node : HealthThread(n)
    \/ \E n \in Node, p \in Port : ChainCommand(n, p)
    \/ \E n \in Node : StatusStep(n) \/ Start(n)

Spec == Init /\ [][Next]_vars

\* The operating system schedules every thread of a node and of a client that
\* is not blocked, and TCP delivers.  Nothing makes a user call, a node start, die
\* or hang, or an operator act.
Fairness ==
    /\ \A o \in PutOp : WF_vars(ClientPut(o))
    /\ \A o \in GetOp : WF_vars(ClientGet(o))
    /\ \A o \in PutOp, e, n \in Node : WF_vars(PutThreadStep(o, e, n))
    /\ \A o \in GetOp, n \in Node : WF_vars(HandleGetRole(o, n) \/ HandleGetLookup(o, n))
    /\ \A n \in Node : WF_vars(HealthThread(n))
    /\ \A n, p \in Node : WF_vars(HandleUpdatePrev(n, p, "NOTICE"))

FairSpec == Spec /\ Fairness

-----------------------------------------------------------------------------
(* Properties.                                                             *)

\* The other uploads under o's name that have begun.
Rivals(o) == {p \in PutOp \ {o} : Name(p) = Name(o) /\ opState[p] # "idle"}

\* Durability of an ACK (handlePut, forwardPut, uploadFile).  When an upload
\* returned success from entry node e, every node that can be reached from e over
\* nodes that are up has a record for the file: this upload's, or that of a rival
\* for the same name.  However the nodes die, and whatever the PUT threads read of
\* role_ and nextNodePort_ meanwhile, no live successor is left out of an ACK.
AckedPutReplicated ==
    \A o \in PutOp : opState[o] = "ok" =>
        \A m \in cursor[o]..N :
            (\A k \in cursor[o]..m : Up(k)) =>
                metadataStore[m][Name(o)] \in {o} \cup Rivals(o)

\* The node has handled an UPDATE_NEXT with port -1.
Unlinked(n) == <<"UPDATE_NEXT", n, NoPort>> \in OperatorCmds \ mail

\* Role and links agree (handleNextNodeFailure, UPDATE_PREV, UPDATE_NEXT, SET_SKIP)
\* whenever chainMutex_ is free.  A node that answers GETs has no successor: none both
\* serves reads and forwards writes.  One without a successor answers GETs, unless an
\* operator took the successor away with UPDATE_NEXT -1: handleClient then makes a TAIL
\* a MIDDLE that does neither.  And one that was told of a predecessor never takes
\* itself for the first of its chain.
RolesMatchLinks ==
    \A n \in Node : ~ChainLocked(n) =>
        /\ role[n] \in Serving => nextNodePort[n] = NoPort
        /\ nextNodePort[n] = NoPort => role[n] \in Serving \/ Unlinked(n)
        /\ prevNodePort[n] # NoPort => role[n] \in {"MIDDLE", "TAIL"}

\* The health thread cuts off dead nodes only (healthCheckLoop): as long as no
\* operator rewires the chain, a successor that is up is never dropped.
LiveNextKept ==
    [][\A n \in Node :
          nextNodePort[n] # NoPort /\ nextNodePort'[n] # nextNodePort[n]
              => ~Up(nextNodePort[n])]_vars

\* A successor the health thread gives up has failed (healthCheckLoop logs "Next node ...
\* failed!" of nextNodePort_ just before handleNextNodeFailure), also when an operator
\* rewires the chain between the ping and the lock.
FailedNextDropped ==
    [][\A n \in Node :
          /\ healthPc'[n] # healthPc[n]
          /\ nextNodePort[n] # NoPort /\ nextNodePort'[n] # nextNodePort[n]
          => ~Up(nextNodePort[n])]_vars

\* Reads see acknowledged writes (README: linearizable metadata).  A GET that began
\* after PUT w of its file had returned success does not return the record of
\* a PUT that had itself returned success before w began.
ReadsSeeAckedWrites ==
    \A r \in GetOp, w \in PutOp :
        /\ opState[r] = "ok" /\ opState[w] = "ok"
        /\ opFile[r] = opFile[w]
        /\ w \in before[r]
        => ~ \E v \in before[w] : v = result[r] /\ opState[v] = "ok"

\* Successive reads agree (README: linearizable metadata).  Two GETs of a file, one
\* after the other, return the same record when every PUT of the file that ever began
\* had returned success before the first of them began.
ReadsAgree ==
    \A r, s \in GetOp :
        /\ opState[r] = "ok" /\ opState[s] = "ok"
        /\ opFile[r] = opFile[s]
        /\ r \in before[s]
        /\ \A w \in PutOp : opFile[w] = opFile[r] /\ opState[w] # "idle" =>
              w \in before[r] /\ opState[w] = "ok"
        => result[r] = result[s]

\* A download gets the metadata of the file it names (README: linearizable metadata).
RecordOfItsFile ==
    \A r \in GetOp : opState[r] = "ok" => opFile[result[r]] = opFile[r]

\* One node's failure is survived by the others (README: fault tolerance; the log of
\* handleNextNodeFailure: "Recovering using skip node"): a node dies only of itself.
FailureStaysLocal == \A n \in Node \ Crashable : Up(n)

\* As long as no node but the last has cut its successor off, the tail holds every
\* acknowledged file (README: writes are acknowledged only after reaching the tail):
\* relinking over a skip node loses no acknowledged record.
TailHasAcked ==
    (Up(N) /\ \A n \in Node \ {N} : role[n] \notin Serving /\ nextNodePort[n] # NoPort) =>
        \A o \in PutOp : opState[o] = "ok" =>
            metadataStore[N][Name(o)] \in {o} \cup Rivals(o)

\* A download that names nothing waits for a node that is up and will not answer it.
WaitsUnanswered(o) ==
    o \in GetOp /\ opFile[o] \in Blank /\ opState[o] = "waiting" /\ Up(cursor[o])

\* Every client call returns (uploadFile, downloadFile), but a download that names
\* nothing and waits for a node that is up, which handleClient leaves without an answer.
\* recvMessage has no timeout, so for all others this rests on every thread they wait
\* for, node after node, replying or dying; and nobody waits for a node that is gone.
CallsReturn ==
    \A o \in Op : []<>(opState[o] \in {"idle"} \cup Returned \/ WaitsUnanswered(o))

\* A file whose upload succeeded is served for ever after some time: an up node
\* that answers GETs has its record (downloadFile walks all nodes to find it).
Readable(f) ==
    \E n \in Node : Up(n) /\ role[n] \in Serving /\ metadataStore[n][f] # NoMeta
AckedStaysReadable ==
    \A o \in PutOp : opState[o] = "ok" ~> [](Readable(Name(o)))

\* A node whose successor died while a skip node was set ends up linked to a node that
\* is up and knows it, unless it gave up its successors (handleNextNodeFailure,
\* notifyNextOfPredecessor, UPDATE_PREV).
SkipRelinks ==
    \A n \in Node :
        (skipToPort[n] # NoPort /\ nextNodePort[n] # NoPort /\ ~Up(nextNodePort[n]))
        ~> (\/ ~Up(n)
            \/ nextNodePort[n] = NoPort
            \/ Up(nextNodePort[n]) /\ prevNodePort[nextNodePort[n]] = n)

=============================================================================
