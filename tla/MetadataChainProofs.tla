------------------------- MODULE MetadataChainProofs -------------------------
(***************************************************************************)
(* Theorems about MetadataChain, for every length of the chain, every set  *)
(* of calls and every pattern of failures.                                 *)
(***************************************************************************)
EXTENDS MetadataChain, TLAPS

\* What the health thread knows at each point of handleNextNodeFailure, and what
\* role and links say of each other while chainMutex_ is held.
LockInv ==
    \A n \in Node :
        /\ healthPc[n] = "notify" => nextNodePort[n] # NoPort
        /\ healthPc[n] = "setrole" => nextNodePort[n] = NoPort
        /\ healthPc[n] = "setport" => role[n] \in Serving
        /\ healthPc[n] \in {"failed", "notify", "setrole"} => role[n] \notin Serving
        /\ ~ChainLocked(n) => /\ role[n] \in Serving => nextNodePort[n] = NoPort
                              /\ nextNodePort[n] = NoPort => role[n] \in Serving \/ Unlinked(n)
        /\ <<"UPDATE_NEXT", n, NoPort>> \in mail => <<"UPDATE_NEXT", n, NoPort>> \in OperatorCmds
        /\ prevNodePort[n] # NoPort => role[n] \in {"MIDDLE", "TAIL"}

USE ChainAssumption DEF Node, Op, NoPort, Port, PutThread, GetThread, OperatorCmd, ChainCmd

\* The chain as it is configured is well typed.
LEMMA InitType == Init => TypeOK
BY DEF Init, FirstRole, TypeOK, PutPc, GetPc, HealthPc

\* Every step of a client, a thread, a health loop or a failure keeps the types.
LEMMA TypeStep ==
    ASSUME TypeOK, LockInv, [Next]_vars
    PROVE  TypeOK'
<1> USE DEF TypeOK, nodeVars, threadVars, clientVars
<1>1. ASSUME NEW o \in Op, Invoke(o) PROVE TypeOK'
  BY <1>1 DEF Invoke, Returned
<1>2. ASSUME NEW o \in PutOp, PutMetadataToNode(o) PROVE TypeOK'
  BY <1>2 DEF PutMetadataToNode, PutPc
<1>3. ASSUME NEW o \in PutOp, PutAcked(o) PROVE TypeOK'
  BY <1>3 DEF PutAcked, Returned
<1>4. ASSUME NEW o \in PutOp, PutFailedHere(o) PROVE TypeOK'
  <2> USE DEF PutFailedHere, TryNextNode, Returned
  <2>1. cursor[o] \in Node /\ N \in Nat
    OBVIOUS
  <2>2. CASE cursor[o] = N
    BY <1>4, <2>2
  <2>3. CASE cursor[o] # N
    <3>1. cursor' = [cursor EXCEPT ![o] = cursor[o] + 1]
      BY <1>4, <2>3
    <3>2. cursor[o] + 1 \in Node
      BY <2>1, <2>3
    <3>3. cursor' \in [Op -> Node]
      BY <3>1, <3>2
    <3>4. opState' = [opState EXCEPT ![o] = "trying"]
      BY <1>4, <2>3
    <3> QED
      BY <1>4, <3>3, <3>4
  <2> QED
    BY <2>2, <2>3
<1>5. ASSUME NEW o \in GetOp, GetMetadataFromNode(o) PROVE TypeOK'
  BY <1>5 DEF GetMetadataFromNode, GetPc
<1>6. ASSUME NEW o \in GetOp, GetFound(o) PROVE TypeOK'
  BY <1>6 DEF GetFound, Returned
<1>7. ASSUME NEW o \in GetOp, GetFailedHere(o) PROVE TypeOK'
  <2> USE DEF GetFailedHere, TryNextNode, Returned
  <2>1. cursor[o] \in Node /\ N \in Nat
    OBVIOUS
  <2>2. CASE cursor[o] = 1
    BY <1>7, <2>2
  <2>3. CASE cursor[o] # 1
    <3>1. cursor' = [cursor EXCEPT ![o] = cursor[o] + -1]
      BY <1>7, <2>3
    <3>2. cursor[o] + -1 \in Node
      BY <2>1, <2>3
    <3>3. cursor' \in [Op -> Node]
      BY <3>1, <3>2
    <3>4. opState' = [opState EXCEPT ![o] = "trying"]
      BY <1>7, <2>3
    <3> QED
      BY <1>7, <3>3, <3>4
  <2> QED
    BY <2>2, <2>3
<1>8. ASSUME NEW o \in PutOp, NEW e \in Node, NEW n \in Node, HandlePutBadArgs(o, e, n) PROVE TypeOK'
  BY <1>8 DEF HandlePutBadArgs, PutReply, Reply, MayBreakPipe, PutPc
<1>9. ASSUME NEW o \in PutOp, NEW e \in Node, NEW n \in Node, HandlePutStore(o, e, n) PROVE TypeOK'
  BY <1>9 DEF HandlePutStore, Assigned, Name, PutPc
<1>10. ASSUME NEW o \in PutOp, NEW e \in Node, NEW n \in Node, HandlePutDecide(o, e, n) PROVE TypeOK'
  BY <1>10 DEF HandlePutDecide, PutReply, Reply, MayBreakPipe, PutPc
<1>11. ASSUME NEW o \in PutOp, NEW e \in Node, NEW n \in Node, ForwardPut(o, e, n) PROVE TypeOK'
  BY <1>11 DEF ForwardPut, PutPc
<1>12. ASSUME NEW o \in PutOp, NEW e \in Node, NEW n \in Node, ForwardPutNoConnection(o, e, n) PROVE TypeOK'
  BY <1>12 DEF ForwardPutNoConnection, ConnectFailed, PutReply, Reply, MayBreakPipe, PutPc
<1>13. ASSUME NEW o \in PutOp, NEW e \in Node, NEW n \in Node, ForwardPutAcked(o, e, n) PROVE TypeOK'
  BY <1>13 DEF ForwardPutAcked, PutReply, Reply, MayBreakPipe, PutPc
<1>14. ASSUME NEW o \in PutOp, NEW e \in Node, NEW n \in Node, ForwardPutRefused(o, e, n) PROVE TypeOK'
  BY <1>14 DEF ForwardPutRefused, PutReply, Reply, MayBreakPipe, PutPc
<1>15. ASSUME NEW o \in GetOp, NEW n \in Node, HandleGetRole(o, n) PROVE TypeOK'
  BY <1>15 DEF HandleGetRole, Reply, GetPc
<1>16. ASSUME NEW o \in GetOp, NEW n \in Node, HandleGetLookup(o, n) PROVE TypeOK'
  BY <1>16 DEF HandleGetLookup, Reply, Name, GetPc
<1>17. ASSUME NEW n \in Node, HealthCheck(n) PROVE TypeOK'
  BY <1>17 DEF HealthCheck, NextIteration, HealthPc
<1>18. ASSUME NEW n \in Node, SkipToNode(n) PROVE TypeOK'
  BY <1>18 DEF SkipToNode, HealthPc
<1>19. ASSUME NEW n \in Node, NotifyNextOfPredecessor(n) PROVE TypeOK'
  <2>1. nextNodePort[n] \in Node
    BY <1>19 DEF NotifyNextOfPredecessor, LockInv
  <2>2. mail' \subseteq ChainCmd
    BY <1>19, <2>1 DEF NotifyNextOfPredecessor, NoticeTo
  <2> QED
    BY <1>19, <2>2 DEF NotifyNextOfPredecessor, NextIteration, HealthPc
<1>20. ASSUME NEW n \in Node, ClearNext(n) PROVE TypeOK'
  BY <1>20 DEF ClearNext, NextIteration, HealthPc
<1>21. ASSUME NEW n \in Node, BecomeTail(n) PROVE TypeOK'
  BY <1>21 DEF BecomeTail, LastRole, NextIteration, HealthPc
<1>22. ASSUME NEW n \in Node, NEW p \in Port, NEW cmd \in {"UPDATE_PREV", "NOTICE"},
              HandleUpdatePrev(n, p, cmd) PROVE TypeOK'
  BY <1>22 DEF HandleUpdatePrev, RoleWithPrev, MayBreakPipe
<1>23. ASSUME NEW n \in Node, NEW p \in Port, HandleUpdateNext(n, p) PROVE TypeOK'
  BY <1>23 DEF HandleUpdateNext, RoleWithNext
<1>24. ASSUME NEW n \in Node, NEW p \in Port, HandleSetSkip(n, p) PROVE TypeOK'
  BY <1>24 DEF HandleSetSkip
<1>25. ASSUME NEW n \in Node, StatusStep(n) PROVE TypeOK'
  BY <1>25 DEF StatusStep, Die, Crash, KilledSending, Hang, Resume
<1>27. ASSUME NEW n \in Node, Start(n) PROVE TypeOK'
  <2>1. putPc' \in [PutThread -> PutPc] /\ getPc' \in [GetThread -> GetPc]
    BY <1>27 DEF Start, Broken, PutPc, GetPc
  <2>2. metadataStore' \in [Node -> [File -> PutOp \cup {NoMeta}]]
    BY <1>27 DEF Start
  <2> QED
    BY <1>27, <2>1, <2>2 DEF Start, FirstRole, HealthPc
<1>26. CASE UNCHANGED vars
  BY <1>26 DEF vars
<1> QED
  BY <1>1, <1>2, <1>3, <1>4, <1>5, <1>6, <1>7, <1>8, <1>9, <1>10, <1>11, <1>12, <1>13, <1>14,
     <1>15, <1>16, <1>17, <1>18, <1>19, <1>20, <1>21, <1>22, <1>23, <1>24, <1>25, <1>26, <1>27
     DEF Next, ClientPut, ClientGet, PutThreadStep, HealthThread, ChainCommand

\* Only the health thread, the chain commands and a start touch a node's role and links.
LEMMA ChainStateSteps ==
    ASSUME [Next]_vars
    PROVE  \/ UNCHANGED nodeVars
           \/ \E n \in Node : HealthThread(n)
           \/ \E n \in Node, p \in Port : ChainCommand(n, p)
           \/ \E n \in Node : Start(n)
<1>1. ASSUME NEW o \in Op, Invoke(o) PROVE UNCHANGED nodeVars
  BY <1>1 DEF Invoke
<1>2. ASSUME NEW o \in PutOp, ClientPut(o) PROVE UNCHANGED nodeVars
  BY <1>2 DEF ClientPut, PutMetadataToNode, PutAcked, PutFailedHere
<1>3. ASSUME NEW o \in GetOp, ClientGet(o) PROVE UNCHANGED nodeVars
  BY <1>3 DEF ClientGet, GetMetadataFromNode, GetFound, GetFailedHere
<1>4. ASSUME NEW o \in PutOp, NEW e \in Node, NEW n \in Node, PutThreadStep(o, e, n)
      PROVE  UNCHANGED nodeVars
  BY <1>4 DEF PutThreadStep, HandlePutBadArgs, HandlePutStore, HandlePutDecide, ForwardPut,
              ForwardPutNoConnection, ForwardPutAcked, ForwardPutRefused, PutReply
<1>5. ASSUME NEW o \in GetOp, NEW n \in Node, HandleGetRole(o, n) \/ HandleGetLookup(o, n)
      PROVE  UNCHANGED nodeVars
  BY <1>5 DEF HandleGetRole, HandleGetLookup
<1>6. ASSUME NEW n \in Node, StatusStep(n) PROVE UNCHANGED nodeVars
  BY <1>6 DEF StatusStep, Die, Crash, KilledSending, Hang, Resume
<1>7. CASE UNCHANGED vars
  BY <1>7 DEF vars
<1> QED
  BY <1>1, <1>2, <1>3, <1>4, <1>5, <1>6, <1>7 DEF Next

\* Every step of a health thread or chain command keeps what LockInv says of the node.
LEMMA LockStep ==
    ASSUME TypeOK, LockInv, [Next]_vars
    PROVE  LockInv'
<1> USE DEF TypeOK, LockInv, ChainLocked, Serving, Unlinked
<1>1. CASE UNCHANGED nodeVars
  BY <1>1 DEF nodeVars
<1>2. ASSUME NEW n \in Node, HealthCheck(n) PROVE LockInv'
  BY <1>2 DEF HealthCheck, PingNext, NextIteration
<1>3. ASSUME NEW n \in Node, SkipToNode(n) PROVE LockInv'
  BY <1>3 DEF SkipToNode
<1>4. ASSUME NEW n \in Node, NotifyNextOfPredecessor(n) PROVE LockInv'
  <2>1. \A m \in Node : <<"UPDATE_NEXT", m, NoPort>> \in mail' <=> <<"UPDATE_NEXT", m, NoPort>> \in mail
    BY <1>4 DEF NotifyNextOfPredecessor, NoticeTo
  <2>2. /\ UNCHANGED <<role, nextNodePort, prevNodePort>>
        /\ healthPc[n] = "notify" /\ \E pc \in {"sleep", "exited"} : healthPc' = [healthPc EXCEPT ![n] = pc]
    BY <1>4 DEF NotifyNextOfPredecessor, NextIteration
  <2> QED
    BY <2>1, <2>2
<1>5. ASSUME NEW n \in Node, ClearNext(n) PROVE LockInv'
  BY <1>5 DEF ClearNext, NextIteration
<1>6. ASSUME NEW n \in Node, BecomeTail(n) PROVE LockInv'
  BY <1>6 DEF BecomeTail, LastRole, NextIteration
<1>7. ASSUME NEW n \in Node, NEW p \in Port, NEW cmd \in {"UPDATE_PREV", "NOTICE"},
             HandleUpdatePrev(n, p, cmd) PROVE LockInv'
  BY <1>7 DEF HandleUpdatePrev, RoleWithPrev
<1>8. ASSUME NEW n \in Node, NEW p \in Port, HandleUpdateNext(n, p) PROVE LockInv'
  BY <1>8 DEF HandleUpdateNext, RoleWithNext
<1>9. ASSUME NEW n \in Node, NEW p \in Port, HandleSetSkip(n, p) PROVE LockInv'
  BY <1>9 DEF HandleSetSkip
<1>10. ASSUME NEW n \in Node, Start(n) PROVE LockInv'
  BY <1>10 DEF Start, FirstRole
<1> QED
  BY ChainStateSteps, <1>1, <1>2, <1>3, <1>4, <1>5, <1>6, <1>7, <1>8, <1>9, <1>10
     DEF HealthThread, ChainCommand

\* LockInv holds of the chain as it is configured.
LEMMA InitLock == Init => LockInv
BY DEF Init, FirstRole, LockInv, ChainLocked, Serving

\* Both are invariants.
LEMMA TypeAndLock == Spec => [](TypeOK /\ LockInv)
<1>1. Init => TypeOK /\ LockInv
  BY InitType, InitLock
<1>2. TypeOK /\ LockInv /\ [Next]_vars => TypeOK' /\ LockInv'
  BY TypeStep, LockStep
<1> QED
  BY <1>1, <1>2, PTL DEF Spec

\* Type correctness of every node, thread and client, whatever hangs, dies or starts
\* again and whatever an operator sends.
THEOREM TypeCorrect == Spec => []TypeOK
BY TypeAndLock, PTL

\* Role and links agree whenever chainMutex_ is free, for every chain length, every
\* pattern of failures and restarts and every set of operator commands, port -1 included:
\* a node that neither serves nor forwards has handled an UPDATE_NEXT with that port.
THEOREM RolesAgreeWithLinks == Spec => []RolesMatchLinks
<1>1. TypeOK /\ LockInv => RolesMatchLinks
  BY DEF LockInv, RolesMatchLinks
<1> QED
  BY <1>1, TypeAndLock, PTL

-----------------------------------------------------------------------------
(* Durability of an ACK, for a chain that is started in order, as the node *)
(* list says, and that nobody rewires or restarts.                         *)

Orderly ==
    /\ OperatorCmds = {}
    /\ Restartable = {}
    /\ TailFirst
    /\ FirstNext = [n \in Node |-> IF n < N THEN n + 1 ELSE NoPort]

\* A record for o's name as good as o's own.
HasRecord(o, m) == metadataStore[m][Name(o)] \in {o} \cup Rivals(o)

\* Every node that can be reached from n over nodes that are up has one, and n, hence
\* every node behind it, has been started: no empty node will still appear there.
ReplicatedFrom(o, n) ==
    /\ status[n] # "off"
    /\ \A m \in n..N : (\A k \in n..m : Up(k)) => HasRecord(o, m)

\* A node that has not been started is as constructed, and so are those before it.
StartInv ==
    \A n \in Node : status[n] = "off" =>
        /\ \A f \in File : metadataStore[n][f] = NoMeta
        /\ nextNodePort[n] = FirstNext[n]
        /\ \A m \in 1..n : status[m] = "off"

\* Without an operator no node learns of a predecessor or of a skip node.
QuietInv ==
    /\ mail = {}
    /\ \A n \in Node : skipToPort[n] = NoPort /\ healthPc[n] # "notify"

\* A node that no longer forwards, or is about to stop, has a dead neighbour.
LinkInv ==
    \A n \in Node :
        /\ nextNodePort[n] \in {n + 1, NoPort}
        /\ (n < N /\ (\/ nextNodePort[n] = NoPort
                      \/ role[n] \in Serving
                      \/ healthPc[n] \in {"failed", "setrole", "setport"})) => Gone(n + 1)

\* What a PUT thread's program counter says of the store and of its callee.
ThreadOK(o, e, n) ==
    LET pc == putPc[<<o, e, n>>] IN
    /\ pc # "none" => opState[o] # "idle"
    /\ pc \in {"stored", "forward", "waiting", "ack"} => HasRecord(o, n)
    /\ pc = "waiting" => n < N /\ callee[<<o, e, n>>] = n + 1
    /\ pc = "ack" => ReplicatedFrom(o, n)

\* ThreadOK of all threads.
ThreadInv == \A o \in PutOp, e, n \in Node : ThreadOK(o, e, n)

\* AckedPutReplicated, with what ReplicatedFrom adds to it.
AckedInv == \A o \in PutOp : opState[o] = "ok" => ReplicatedFrom(o, cursor[o])

\* The inductive invariant behind AckIsDurable.
DurInv == TypeOK /\ StartInv /\ QuietInv /\ LinkInv /\ ThreadInv /\ AckedInv

\* What a step does to the status of at most one node: one that is gone only ever goes further.
StatusMove ==
    \/ status' = status
    \/ \E k \in Node, s \in {"stopping", "down"} : status' = [status EXCEPT ![k] = s]
    \/ \E k \in Node, s \in {"up", "hung"} :
          status[k] \in {"off", "up", "hung"} /\ status' = [status EXCEPT ![k] = s]

\* A node that went away stays away and one that started has started, whatever the step.
LEMMA NodesStayGone ==
    ASSUME Restartable = {}, TypeOK, [Next]_vars
    PROVE  /\ \A n \in Node : Gone(n) => Gone(n)'
           /\ \A n \in Node : status[n] # "off" => status'[n] # "off"
<1>1. ASSUME NEW o \in Op, Invoke(o) PROVE StatusMove
  BY <1>1 DEF StatusMove, Invoke
<1>2. ASSUME NEW o \in PutOp, ClientPut(o) PROVE StatusMove
  BY <1>2 DEF StatusMove, ClientPut, PutMetadataToNode, PutAcked, PutFailedHere
<1>3. ASSUME NEW o \in GetOp, ClientGet(o) PROVE StatusMove
  BY <1>3 DEF StatusMove, ClientGet, GetMetadataFromNode, GetFound, GetFailedHere
<1>4. ASSUME NEW o \in PutOp, NEW e \in Node, NEW n \in Node, PutThreadStep(o, e, n)
      PROVE  StatusMove
  BY <1>4 DEF StatusMove, PutThreadStep, HandlePutBadArgs, HandlePutStore, HandlePutDecide, ForwardPut,
              ForwardPutNoConnection, ForwardPutAcked, ForwardPutRefused, PutReply, MayBreakPipe
<1>5. ASSUME NEW o \in GetOp, NEW n \in Node, HandleGetRole(o, n) \/ HandleGetLookup(o, n)
      PROVE  StatusMove
  BY <1>5 DEF StatusMove, HandleGetRole, HandleGetLookup
<1>6. ASSUME NEW n \in Node, HealthThread(n) PROVE StatusMove
  BY <1>6 DEF StatusMove, HealthThread, HealthCheck, SkipToNode, NotifyNextOfPredecessor, ClearNext, BecomeTail
<1>7. ASSUME NEW n \in Node, NEW p \in Port, ChainCommand(n, p)
      PROVE  StatusMove
  BY <1>7 DEF StatusMove, ChainCommand, HandleUpdatePrev, HandleUpdateNext, HandleSetSkip, MayBreakPipe
<1>8. ASSUME NEW n \in Node, Die(n) \/ Crash(n) \/ KilledSending(n)
      PROVE  StatusMove
  BY <1>8 DEF StatusMove, Die, Crash, KilledSending
<1>9. ASSUME NEW n \in Node, Hang(n) \/ Resume(n) \/ Start(n)
      PROVE  StatusMove
  BY <1>9 DEF StatusMove, Hang, Resume, Start
<1>10. ASSUME UNCHANGED vars PROVE StatusMove
  <2>1. status' = status
    BY <1>10 DEF vars
  <2> QED
    BY <2>1 DEF StatusMove
<1>11. StatusMove
  <2>1. CASE Next
    BY <1>1, <1>2, <1>3, <1>4, <1>5, <1>6, <1>7, <1>8, <1>9, <2>1 DEF Next, StatusStep
  <2> QED
    BY <1>10, <2>1
<1> USE DEF TypeOK, Gone
<1>12. CASE \E k \in Node, s \in {"stopping", "down"} : status' = [status EXCEPT ![k] = s]
  BY <1>12
<1>13. CASE \E k \in Node, s \in {"up", "hung"} :
              status[k] \in {"off", "up", "hung"} /\ status' = [status EXCEPT ![k] = s]
  BY <1>13
<1>14. CASE status' = status
  BY <1>14
<1> QED
  BY <1>11, <1>12, <1>13, <1>14 DEF StatusMove

\* A PUT that has begun has begun for good, and its file never changes.
LEMMA BegunStays ==
    ASSUME TypeOK, [Next]_vars
    PROVE  /\ opFile' = opFile
           /\ \A o \in Op : opState[o] # "idle" => opState'[o] # "idle"
<1> USE DEF TypeOK, clientVars
<1>1. ASSUME NEW o \in Op, Invoke(o)
      PROVE  opFile' = opFile /\ opState' = [opState EXCEPT ![o] = "trying"]
  BY <1>1 DEF Invoke
<1>2. ASSUME NEW o \in PutOp, ClientPut(o)
      PROVE  opFile' = opFile /\ \E s \in {"trying", "waiting", "ok", "failed"} :
                                     opState' = [opState EXCEPT ![o] = s]
  BY <1>2 DEF ClientPut, PutMetadataToNode, PutAcked, PutFailedHere, TryNextNode
<1>3. ASSUME NEW o \in GetOp, ClientGet(o)
      PROVE  opFile' = opFile /\ \E s \in {"trying", "waiting", "ok", "failed"} :
                                     opState' = [opState EXCEPT ![o] = s]
  BY <1>3 DEF ClientGet, GetMetadataFromNode, GetFound, GetFailedHere, TryNextNode
<1>4. ASSUME NEW o \in PutOp, NEW e \in Node, NEW n \in Node, PutThreadStep(o, e, n)
      PROVE  opFile' = opFile /\ opState' = opState
  BY <1>4 DEF PutThreadStep, HandlePutBadArgs, HandlePutStore, HandlePutDecide, ForwardPut,
              ForwardPutNoConnection, ForwardPutAcked, ForwardPutRefused, PutReply
<1>5. ASSUME NEW o \in GetOp, NEW n \in Node, HandleGetRole(o, n) \/ HandleGetLookup(o, n)
      PROVE  opFile' = opFile /\ opState' = opState
  BY <1>5 DEF HandleGetRole, HandleGetLookup
<1>6. ASSUME NEW n \in Node, HealthThread(n) PROVE opFile' = opFile /\ opState' = opState
  BY <1>6 DEF HealthThread, HealthCheck, SkipToNode, NotifyNextOfPredecessor, ClearNext, BecomeTail
<1>7. ASSUME NEW n \in Node, NEW p \in Port, ChainCommand(n, p)
      PROVE  opFile' = opFile /\ opState' = opState
  BY <1>7 DEF ChainCommand, HandleUpdatePrev, HandleUpdateNext, HandleSetSkip
<1>8. ASSUME NEW n \in Node, StatusStep(n) \/ Start(n) PROVE opFile' = opFile /\ opState' = opState
  BY <1>8 DEF StatusStep, Die, Crash, KilledSending, Hang, Resume, Start
<1>9. CASE UNCHANGED vars
  BY <1>9 DEF vars
<1> QED
  BY <1>1, <1>2, <1>3, <1>4, <1>5, <1>6, <1>7, <1>8, <1>9 DEF Next

\* Only a store and a start touch the records.
LEMMA StoreSteps ==
    ASSUME [Next]_vars
    PROVE  \/ metadataStore' = metadataStore
           \/ \E p \in PutOp, e, n \in Node : HandlePutStore(p, e, n)
           \/ \E n \in Node : Start(n)
<1> USE DEF threadVars
<1>1. ASSUME NEW p \in Op, Invoke(p) PROVE metadataStore' = metadataStore
  BY <1>1 DEF Invoke
<1>2. ASSUME NEW p \in PutOp, ClientPut(p) PROVE metadataStore' = metadataStore
  BY <1>2 DEF ClientPut, PutMetadataToNode, PutAcked, PutFailedHere
<1>3. ASSUME NEW p \in GetOp, ClientGet(p) PROVE metadataStore' = metadataStore
  BY <1>3 DEF ClientGet, GetMetadataFromNode, GetFound, GetFailedHere
<1>4. ASSUME NEW p \in PutOp, NEW e \in Node, NEW n \in Node, PutThreadStep(p, e, n)
      PROVE  metadataStore' = metadataStore \/ HandlePutStore(p, e, n)
  BY <1>4 DEF PutThreadStep, HandlePutBadArgs, HandlePutDecide, ForwardPut,
              ForwardPutNoConnection, ForwardPutAcked, ForwardPutRefused, PutReply
<1>5. ASSUME NEW p \in GetOp, NEW n \in Node, HandleGetRole(p, n) \/ HandleGetLookup(p, n)
      PROVE  metadataStore' = metadataStore
  BY <1>5 DEF HandleGetRole, HandleGetLookup
<1>6. ASSUME NEW n \in Node, HealthThread(n) PROVE metadataStore' = metadataStore
  BY <1>6 DEF HealthThread, HealthCheck, SkipToNode, NotifyNextOfPredecessor, ClearNext, BecomeTail
<1>7. ASSUME NEW n \in Node, NEW p \in Port, ChainCommand(n, p) PROVE metadataStore' = metadataStore
  BY <1>7 DEF ChainCommand, HandleUpdatePrev, HandleUpdateNext, HandleSetSkip
<1>8. ASSUME NEW n \in Node, StatusStep(n) PROVE metadataStore' = metadataStore
  BY <1>8 DEF StatusStep, Die, Crash, KilledSending, Hang, Resume
<1>9. CASE UNCHANGED vars
  BY <1>9 DEF vars
<1> QED
  BY <1>1, <1>2, <1>3, <1>4, <1>5, <1>6, <1>7, <1>8, <1>9 DEF Next

\* A node that has not been started holds nothing.
EmptyInv ==
    \A n \in Node : status[n] = "off" => \A f \in File : metadataStore[n][f] = NoMeta

\* There are PUT threads only of uploads that have begun.
BegunInv == \A o \in PutOp, e, n \in Node : putPc[<<o, e, n>>] # "none" => opState[o] # "idle"

\* A node that has a good record for an upload keeps one: only a rival's PUT, which
\* has begun, replaces it.
LEMMA RecordKept ==
    ASSUME Restartable = {}, TypeOK, EmptyInv, BegunInv, [Next]_vars,
           NEW o \in PutOp, NEW m \in Node, HasRecord(o, m)
    PROVE  HasRecord(o, m)'
<1> USE DEF TypeOK
<1>1. Rivals(o) \subseteq Rivals(o)' /\ Name(o)' = Name(o)
  BY BegunStays DEF Rivals, Name
<1>2. CASE metadataStore' = metadataStore
  BY <1>1, <1>2 DEF HasRecord
<1>3. ASSUME NEW p \in PutOp, NEW e \in Node, NEW n \in Node, HandlePutStore(p, e, n)
      PROVE  HasRecord(o, m)'
  <2>1. metadataStore' = [metadataStore EXCEPT ![n][Name(p)] = p]
    BY <1>3 DEF HandlePutStore, Assigned
  <2>2. opState[p] # "idle" /\ opState' = opState /\ opFile' = opFile
    BY <1>3 DEF HandlePutStore, BegunInv, clientVars
  <2>3. Name(o) \in File /\ Name(p) \in File
    BY DEF Name
  <2>4. CASE n = m /\ Name(p) = Name(o)
    <3>1. metadataStore'[m][Name(o)] = p
      BY <2>1, <2>3, <2>4
    <3>2. p \in {o} \cup Rivals(o)'
      BY <2>2, <2>4 DEF Rivals, Name
    <3> QED
      BY <1>1, <3>1, <3>2 DEF HasRecord
  <2>5. CASE ~(n = m /\ Name(p) = Name(o))
    <3>1. metadataStore'[m][Name(o)] = metadataStore[m][Name(o)]
      BY <2>1, <2>3, <2>5
    <3> QED
      BY <1>1, <3>1 DEF HasRecord
  <2> QED
    BY <2>4, <2>5
<1>5. ASSUME NEW n \in Node, Start(n) PROVE HasRecord(o, m)'
  <2>1. status[n] = "off" /\ metadataStore' = [metadataStore EXCEPT ![n] = [f \in File |-> NoMeta]]
    BY <1>5 DEF Start
  <2>2. metadataStore[m][Name(o)] # NoMeta /\ Name(o) \in File
    BY DEF HasRecord, Rivals, Name
  <2>3. n # m
    BY <2>1, <2>2 DEF EmptyInv
  <2>4. metadataStore'[m] = metadataStore[m]
    BY <2>1, <2>3
  <2> QED
    BY <1>1, <2>4 DEF HasRecord
<1> QED
  BY <1>2, <1>3, <1>5, StoreSteps

\* The same in a chain that is started in order.
LEMMA RecordStays ==
    ASSUME Restartable = {}, TypeOK, StartInv, ThreadInv, [Next]_vars,
           NEW o \in PutOp, NEW m \in Node, HasRecord(o, m)
    PROVE  HasRecord(o, m)'
<1>1. EmptyInv
  BY DEF EmptyInv, StartInv
<1>2. BegunInv
  BY DEF BegunInv, ThreadInv, ThreadOK
<1> QED
  BY <1>1, <1>2, RecordKept

\* A node that has not been started holds no record.
LEMMA RecordMeansStarted ==
    ASSUME TypeOK, StartInv, NEW o \in PutOp, NEW n \in Node, HasRecord(o, n)
    PROVE  status[n] # "off"
BY DEF TypeOK, StartInv, HasRecord, Rivals, Name

\* The whole live stretch of the chain behind a node that was started keeps its records.
LEMMA ReplicationStays ==
    ASSUME Restartable = {}, TypeOK, StartInv, ThreadInv, [Next]_vars,
           NEW o \in PutOp, NEW n \in Node, ReplicatedFrom(o, n)
    PROVE  ReplicatedFrom(o, n)'
<1> SUFFICES ASSUME NEW m \in n..N, \A k \in n..m : Up(k)'
             PROVE  HasRecord(o, m)'
  BY NodesStayGone DEF ReplicatedFrom
<1>1. m \in Node /\ \A k \in n..m : k \in Node
  OBVIOUS
<1>2. ASSUME NEW k \in n..m PROVE Up(k)
  <2>1. k \in Node /\ n \in 1..k
    OBVIOUS
  <2>2. status[k] # "off"
    BY <2>1 DEF StartInv, ReplicatedFrom
  <2>3. ~Gone(k)
    BY <2>1, NodesStayGone DEF Up, Gone
  <2> QED
    BY <2>1, <2>2, <2>3 DEF Up, Gone, TypeOK
<1>3. HasRecord(o, m)
  BY <1>2 DEF ReplicatedFrom
<1> QED
  BY <1>1, <1>3, RecordStays

\* Nodes are started in order, and nothing happens to a node before.
LEMMA StartStep ==
    ASSUME Orderly, TypeOK, StartInv, [Next]_vars
    PROVE  StartInv'
<1> SUFFICES ASSUME NEW n \in Node, status'[n] = "off"
             PROVE  /\ \A f \in File : metadataStore'[n][f] = NoMeta
                    /\ nextNodePort'[n] = FirstNext[n]
                    /\ \A m \in 1..n : status'[m] = "off"
  BY DEF StartInv
<1>1. status[n] = "off"
  BY NodesStayGone DEF Orderly
<1> DEFINE Same == /\ metadataStore'[n] = metadataStore[n]
                   /\ nextNodePort'[n] = nextNodePort[n]
                   /\ \A m \in 1..n : status[m] = "off" => status'[m] = "off"
<1>2. CASE Same
  BY <1>1, <1>2 DEF StartInv
<1>3. \A m \in 1..n : m \in Node /\ status[m] = "off"
  BY <1>1 DEF StartInv
<1> USE <1>1, <1>3 DEF TypeOK, nodeVars, threadVars, clientVars
<1>4. ASSUME NEW o \in Op, Invoke(o) PROVE Same
  BY <1>4 DEF Invoke
<1>5. ASSUME NEW o \in PutOp, ClientPut(o) PROVE Same
  BY <1>5 DEF ClientPut, PutMetadataToNode, PutAcked, PutFailedHere
<1>6. ASSUME NEW o \in GetOp, ClientGet(o) PROVE Same
  BY <1>6 DEF ClientGet, GetMetadataFromNode, GetFound, GetFailedHere
<1>7. ASSUME NEW o \in PutOp, NEW e \in Node, NEW k \in Node, PutThreadStep(o, e, k)
      PROVE  Same
  <2>1. /\ k # n /\ status[k] # "off"
        /\ \A m \in Node \ {k} : metadataStore'[m] = metadataStore[m]
        /\ status' \in {status, [status EXCEPT ![k] = "down"]}
        /\ nextNodePort' = nextNodePort
    BY <1>7 DEF PutThreadStep, HandlePutBadArgs, HandlePutStore, HandlePutDecide, ForwardPut, Alive,
                ForwardPutNoConnection, ForwardPutAcked, ForwardPutRefused, PutReply, MayBreakPipe
  <2> QED
    BY <2>1
<1>8. ASSUME NEW o \in GetOp, NEW k \in Node, HandleGetRole(o, k) \/ HandleGetLookup(o, k)
      PROVE  Same
  BY <1>8 DEF HandleGetRole, HandleGetLookup
<1>9. ASSUME NEW k \in Node, HealthThread(k) PROVE Same
  <2>1. /\ k # n
        /\ UNCHANGED <<status, metadataStore>>
        /\ \A m \in Node \ {k} : nextNodePort'[m] = nextNodePort[m]
    BY <1>9 DEF HealthThread, HealthCheck, SkipToNode, NotifyNextOfPredecessor, ClearNext,
                BecomeTail, Alive
  <2> QED
    BY <2>1
<1>10. ASSUME NEW k \in Node, NEW p \in Port, ChainCommand(k, p) PROVE Same
  <2>1. /\ k # n /\ status[k] # "off"
        /\ status' \in {status, [status EXCEPT ![k] = "down"]}
        /\ metadataStore' = metadataStore
        /\ \A m \in Node \ {k} : nextNodePort'[m] = nextNodePort[m]
    BY <1>10 DEF ChainCommand, HandleUpdatePrev, HandleUpdateNext, HandleSetSkip, MayBreakPipe
  <2> QED
    BY <2>1
<1>11. ASSUME NEW k \in Node, StatusStep(k) PROVE Same
  <2>1. /\ status[k] # "off" /\ \E s \in {"up", "hung", "stopping", "down"} :
                                    status' = [status EXCEPT ![k] = s]
        /\ UNCHANGED <<metadataStore, nextNodePort>>
    BY <1>11 DEF StatusStep, Die, Crash, KilledSending, Hang, Resume, Up, Alive
  <2> QED
    BY <2>1
<1>12. ASSUME NEW k \in Node, Start(k) PROVE Same
  <2>1. k # n /\ (\A m \in k + 1..N : status[m] # "off")
    BY <1>12 DEF Start, Orderly
  <2>2. k > n
    BY <2>1
  <2>3. /\ status' = [status EXCEPT ![k] = "up"]
        /\ metadataStore'[n] = metadataStore[n] /\ nextNodePort'[n] = nextNodePort[n]
    BY <1>12, <2>1, <2>2 DEF Start
  <2> QED
    BY <2>2, <2>3
<1>13. CASE UNCHANGED vars
  BY <1>2, <1>13 DEF vars
<1> HIDE DEF Same
<1> QED
  BY <1>2, <1>4, <1>5, <1>6, <1>7, <1>8, <1>9, <1>10, <1>11, <1>12, <1>13 DEF Next

\* Without commands in play none comes into play.
LEMMA QuietStep ==
    ASSUME TypeOK, QuietInv, [Next]_vars
    PROVE  QuietInv'
<1> USE DEF TypeOK, QuietInv
<1>1. CASE UNCHANGED nodeVars
  BY <1>1 DEF nodeVars
<1>2. ASSUME NEW n \in Node, HealthThread(n) PROVE QuietInv'
  BY <1>2 DEF HealthThread, HealthCheck, SkipToNode, NotifyNextOfPredecessor, ClearNext,
              BecomeTail, NextIteration
<1>4. ASSUME NEW n \in Node, Start(n) PROVE QuietInv'
  BY <1>4 DEF Start
<1>3. ASSUME NEW n \in Node, NEW p \in Port, ChainCommand(n, p) PROVE QuietInv'
  BY <1>3 DEF ChainCommand, HandleUpdatePrev, HandleUpdateNext, HandleSetSkip
<1> QED
  BY ChainStateSteps, <1>1, <1>2, <1>3, <1>4

\* Links change only when the neighbour is dead, and dead nodes stay dead.
LEMMA LinkStep ==
    ASSUME Orderly, TypeOK, StartInv, QuietInv, LinkInv, [Next]_vars
    PROVE  LinkInv'
<1> USE DEF TypeOK, LinkInv
<1>1. \A n \in Node : n < N /\ Gone(n + 1) => Gone(n + 1)'
  BY NodesStayGone DEF Orderly
<1>2. CASE UNCHANGED nodeVars
  BY <1>1, <1>2 DEF nodeVars
<1>3. ASSUME NEW n \in Node, HealthCheck(n) PROVE LinkInv'
  <2>1. UNCHANGED <<role, nextNodePort>>
    BY <1>3 DEF HealthCheck
  <2>2. \A m \in Node : m # n => healthPc'[m] = healthPc[m]
    BY <1>3 DEF HealthCheck
  <2>3. n < N => n + 1 \in Node /\ status[n + 1] # "off"
    BY <1>3 DEF HealthCheck, Alive, StartInv
  <2>4. healthPc'[n] \in {"failed", "setrole", "setport"} /\ n < N => Gone(n + 1)
    BY <1>3, <2>3 DEF HealthCheck, NextIteration, PingNext, Up, Gone
  <2> QED
    BY <1>1, <2>1, <2>2, <2>4
<1>4. ASSUME NEW n \in Node, ClearNext(n) PROVE LinkInv'
  BY <1>1, <1>4 DEF ClearNext, NextIteration
<1>5. ASSUME NEW n \in Node, BecomeTail(n) PROVE LinkInv'
  BY <1>1, <1>5 DEF BecomeTail, NextIteration
<1>6. ASSUME NEW n \in Node, SkipToNode(n) \/ NotifyNextOfPredecessor(n) PROVE LinkInv'
  BY <1>6 DEF SkipToNode, NotifyNextOfPredecessor, QuietInv
<1>7. ASSUME NEW n \in Node, NEW p \in Port, ChainCommand(n, p) PROVE LinkInv'
  BY <1>7 DEF ChainCommand, HandleUpdatePrev, HandleUpdateNext, HandleSetSkip, QuietInv
<1>8. ASSUME NEW n \in Node, Start(n) PROVE LinkInv'
  <2>1. FirstNext[n] = IF n < N THEN n + 1 ELSE NoPort
    BY DEF Orderly
  <2>2. /\ nextNodePort' = [nextNodePort EXCEPT ![n] = FirstNext[n]]
        /\ role' = [role EXCEPT ![n] = IF FirstNext[n] = NoPort THEN "TAIL" ELSE "HEAD"]
        /\ healthPc' = [healthPc EXCEPT ![n] = "sleep"]
    BY <1>8 DEF Start, FirstRole
  <2> QED
    BY <1>1, <2>1, <2>2 DEF Serving
<1> QED
  BY ChainStateSteps, <1>2, <1>3, <1>4, <1>5, <1>6, <1>7, <1>8 DEF HealthThread

\* A node that decides not to forward has nobody alive behind it.
LEMMA LastAliveReplicates ==
    ASSUME TypeOK, StartInv, LinkInv, NEW o \in PutOp, NEW n \in Node, ~Forwards(n), HasRecord(o, n)
    PROVE  ReplicatedFrom(o, n)
<1> SUFFICES ASSUME NEW m \in n..N, \A k \in n..m : Up(k) PROVE HasRecord(o, m)
  BY RecordMeansStarted DEF ReplicatedFrom
<1>1. CASE m = n
  BY <1>1
<1>2. CASE m > n
  <2>1. n < N /\ n + 1 \in n..m
    BY <1>2
  <2>2. ~Up(n + 1)
    BY <2>1 DEF LinkInv, Forwards, Gone, Up
  <2> QED
    BY <2>1, <2>2
<1> QED
  BY <1>1, <1>2

\* An ACK from the successor extends to the node that forwarded.
LEMMA AckExtends ==
    ASSUME TypeOK, StartInv, NEW o \in PutOp, NEW n \in Node, n < N, HasRecord(o, n),
           ReplicatedFrom(o, n + 1)
    PROVE  ReplicatedFrom(o, n)
<1> SUFFICES ASSUME NEW m \in n..N, \A k \in n..m : Up(k) PROVE HasRecord(o, m)
  BY RecordMeansStarted DEF ReplicatedFrom
<1>1. CASE m = n
  BY <1>1
<1>2. CASE m > n
  <2>1. m \in (n + 1)..N /\ \A k \in (n + 1)..m : k \in n..m
    BY <1>2
  <2> QED
    BY <2>1 DEF ReplicatedFrom
<1> QED
  BY <1>1, <1>2

\* A thread that does not move keeps what its program counter says.
LEMMA ThreadStays ==
    ASSUME Restartable = {}, TypeOK, StartInv, ThreadInv, [Next]_vars,
           NEW o \in PutOp, NEW e \in Node, NEW n \in Node,
           putPc'[<<o, e, n>>] = putPc[<<o, e, n>>], callee'[<<o, e, n>>] = callee[<<o, e, n>>]
    PROVE  ThreadOK(o, e, n)'
<1>1. ThreadOK(o, e, n)
  BY DEF ThreadInv
<1> QED
  BY <1>1, BegunStays, RecordStays, ReplicationStays DEF ThreadOK

\* Neither does one that failed promise anything.
LEMMA ErrorReply ==
    ASSUME Restartable = {}, TypeOK, StartInv, ThreadInv, [Next]_vars,
           NEW o \in PutOp, NEW e \in Node, NEW n \in Node,
           putPc[<<o, e, n>>] # "none", PutReply(o, e, n, "error")
    PROVE  ThreadInv'
<1> SUFFICES ASSUME NEW p \in PutOp, NEW d \in Node, NEW m \in Node PROVE ThreadOK(p, d, m)'
  BY DEF ThreadInv
<1>1. /\ putPc' = [putPc EXCEPT ![<<o, e, n>>] = Reply(n, "error")]
      /\ callee' = callee
  BY DEF PutReply
<1>2. CASE <<p, d, m>> = <<o, e, n>>
  <2>1. putPc'[<<o, e, n>>] \in {"error", "closed"}
    BY <1>1 DEF TypeOK, Reply
  <2>2. opState[o] # "idle"
    BY DEF ThreadInv, ThreadOK
  <2> QED
    BY <1>2, <2>1, <2>2, BegunStays DEF ThreadOK
<1>3. CASE <<p, d, m>> # <<o, e, n>>
  BY <1>1, <1>3, ThreadStays DEF TypeOK
<1> QED
  BY <1>2, <1>3

\* A thread whose ACK is justified may send it.
LEMMA AckReply ==
    ASSUME Restartable = {}, TypeOK, StartInv, ThreadInv, [Next]_vars,
           NEW o \in PutOp, NEW e \in Node, NEW n \in Node,
           putPc[<<o, e, n>>] \in {"stored", "waiting"}, ReplicatedFrom(o, n),
           PutReply(o, e, n, "ack")
    PROVE  ThreadInv'
<1> SUFFICES ASSUME NEW p \in PutOp, NEW d \in Node, NEW m \in Node PROVE ThreadOK(p, d, m)'
  BY DEF ThreadInv
<1>1. /\ putPc' = [putPc EXCEPT ![<<o, e, n>>] = Reply(n, "ack")]
      /\ callee' = callee
  BY DEF PutReply
<1>2. CASE <<p, d, m>> = <<o, e, n>>
  <2>1. putPc'[<<o, e, n>>] \in {"ack", "closed"}
    BY <1>1 DEF TypeOK, Reply
  <2>2. opState[o] # "idle" /\ HasRecord(o, n)
    BY DEF ThreadInv, ThreadOK
  <2>3. opState'[o] # "idle" /\ HasRecord(o, n)' /\ ReplicatedFrom(o, n)'
    BY <2>2, BegunStays, RecordStays, ReplicationStays
  <2> QED
    BY <1>2, <2>1, <2>3 DEF ThreadOK
<1>3. CASE <<p, d, m>> # <<o, e, n>>
  BY <1>1, <1>3, ThreadStays DEF TypeOK
<1> QED
  BY <1>2, <1>3

\* Only the client's PUT, the PUT threads and a start move PUT threads.
LEMMA ThreadMoves ==
    ASSUME [Next]_vars
    PROVE  \/ UNCHANGED <<putPc, callee>>
           \/ \E o \in PutOp : PutMetadataToNode(o)
           \/ \E o \in PutOp, e, n \in Node : PutThreadStep(o, e, n)
           \/ \E n \in Node : Start(n)
<1> USE DEF threadVars
<1>1. ASSUME NEW o \in Op, Invoke(o) PROVE UNCHANGED <<putPc, callee>>
  BY <1>1 DEF Invoke
<1>2. ASSUME NEW o \in PutOp, PutAcked(o) \/ PutFailedHere(o) PROVE UNCHANGED <<putPc, callee>>
  BY <1>2 DEF PutAcked, PutFailedHere
<1>3. ASSUME NEW o \in GetOp, ClientGet(o) PROVE UNCHANGED <<putPc, callee>>
  BY <1>3 DEF ClientGet, GetMetadataFromNode, GetFound, GetFailedHere
<1>4. ASSUME NEW o \in GetOp, NEW n \in Node, HandleGetRole(o, n) \/ HandleGetLookup(o, n)
      PROVE  UNCHANGED <<putPc, callee>>
  BY <1>4 DEF HandleGetRole, HandleGetLookup
<1>5. ASSUME NEW n \in Node, HealthThread(n) PROVE UNCHANGED <<putPc, callee>>
  BY <1>5 DEF HealthThread, HealthCheck, SkipToNode, NotifyNextOfPredecessor, ClearNext, BecomeTail
<1>6. ASSUME NEW n \in Node, NEW p \in Port, ChainCommand(n, p) PROVE UNCHANGED <<putPc, callee>>
  BY <1>6 DEF ChainCommand, HandleUpdatePrev, HandleUpdateNext, HandleSetSkip
<1>7. ASSUME NEW n \in Node, StatusStep(n) PROVE UNCHANGED <<putPc, callee>>
  BY <1>7 DEF StatusStep, Die, Crash, KilledSending, Hang, Resume
<1>8. CASE UNCHANGED vars
  BY <1>8 DEF vars
<1> QED
  BY <1>1, <1>2, <1>3, <1>4, <1>5, <1>6, <1>7, <1>8 DEF Next, ClientPut

\* Every step keeps what ThreadOK says of every PUT thread.
LEMMA ThreadStep ==
    ASSUME Restartable = {}, TypeOK, StartInv, LinkInv, ThreadInv, [Next]_vars
    PROVE  ThreadInv'
<1>1. CASE UNCHANGED <<putPc, callee>>
  BY <1>1, ThreadStays DEF ThreadInv
<1>2. ASSUME NEW o \in PutOp, PutMetadataToNode(o) PROVE ThreadInv'
  <2> DEFINE h == <<o, cursor[o], cursor[o]>>
  <2>1. /\ putPc' = [putPc EXCEPT ![h] = "recv"]
        /\ callee' = callee
        /\ opState'[o] # "idle"
    BY <1>2 DEF PutMetadataToNode, TypeOK
  <2> SUFFICES ASSUME NEW p \in PutOp, NEW d \in Node, NEW m \in Node PROVE ThreadOK(p, d, m)'
    BY DEF ThreadInv
  <2>2. CASE <<p, d, m>> = h
    BY <2>1, <2>2 DEF ThreadOK, TypeOK
  <2>3. CASE <<p, d, m>> # h
    BY <2>1, <2>3, ThreadStays DEF TypeOK
  <2> QED
    BY <2>2, <2>3
<1>3. ASSUME NEW o \in PutOp, NEW e \in Node, NEW n \in Node, PutThreadStep(o, e, n)
      PROVE  ThreadInv'
  <2>1. CASE HandlePutBadArgs(o, e, n)
    BY <2>1, ErrorReply DEF HandlePutBadArgs
  <2>2. CASE HandlePutStore(o, e, n)
    <3>1. /\ putPc' = [putPc EXCEPT ![<<o, e, n>>] = "stored"]
          /\ callee' = callee
          /\ metadataStore' = [metadataStore EXCEPT ![n][Name(o)] = o]
          /\ opFile' = opFile
          /\ putPc[<<o, e, n>>] = "recv"
      BY <2>2 DEF HandlePutStore, Assigned, clientVars
    <3> SUFFICES ASSUME NEW p \in PutOp, NEW d \in Node, NEW m \in Node PROVE ThreadOK(p, d, m)'
      BY DEF ThreadInv
    <3>2. CASE <<p, d, m>> = <<o, e, n>>
      <4>1. putPc'[<<o, e, n>>] = "stored"
        BY <3>1 DEF TypeOK
      <4>2. HasRecord(o, n)'
        BY <3>1 DEF HasRecord, Name, TypeOK
      <4>3. opState'[o] # "idle"
        BY <3>1, BegunStays DEF ThreadInv, ThreadOK
      <4> QED
        BY <3>2, <4>1, <4>2, <4>3 DEF ThreadOK
    <3>3. CASE <<p, d, m>> # <<o, e, n>>
      BY <3>1, <3>3, ThreadStays DEF TypeOK
    <3> QED
      BY <3>2, <3>3
  <2>3. CASE HandlePutDecide(o, e, n)
    <3>1. opState[o] # "idle" /\ HasRecord(o, n) /\ putPc[<<o, e, n>>] = "stored"
      BY <2>3 DEF HandlePutDecide, ThreadInv, ThreadOK
    <3>2. CASE Forwards(n)
      <4>1. /\ putPc' = [putPc EXCEPT ![<<o, e, n>>] = "forward"]
            /\ callee' = callee
        BY <2>3, <3>2 DEF HandlePutDecide
      <4> SUFFICES ASSUME NEW p \in PutOp, NEW d \in Node, NEW m \in Node PROVE ThreadOK(p, d, m)'
        BY DEF ThreadInv
      <4>2. CASE <<p, d, m>> = <<o, e, n>>
        BY <3>1, <4>1, <4>2, BegunStays, RecordStays DEF ThreadOK, TypeOK
      <4>3. CASE <<p, d, m>> # <<o, e, n>>
        BY <4>1, <4>3, ThreadStays DEF TypeOK
      <4> QED
        BY <4>2, <4>3
    <3>3. CASE ~Forwards(n)
      <4>1. PutReply(o, e, n, "ack")
        BY <2>3, <3>3 DEF HandlePutDecide
      <4> QED
        BY <3>1, <3>3, <4>1, LastAliveReplicates, AckReply
    <3> QED
      BY <3>2, <3>3
  <2>4. CASE ForwardPut(o, e, n)
    <3> DEFINE t == nextNodePort[n]
    <3>1. n < N /\ t = n + 1 /\ t \in Node
      BY <2>4 DEF ForwardPut, LinkInv, TypeOK
    <3>2. /\ putPc' = [putPc EXCEPT ![<<o, e, n>>] = "waiting", ![<<o, e, t>>] = "recv"]
          /\ callee' = [callee EXCEPT ![<<o, e, n>>] = t]
          /\ putPc[<<o, e, n>>] = "forward"
      BY <2>4 DEF ForwardPut
    <3>3. opState[o] # "idle" /\ HasRecord(o, n)
      BY <3>2 DEF ThreadInv, ThreadOK
    <3> SUFFICES ASSUME NEW p \in PutOp, NEW d \in Node, NEW m \in Node PROVE ThreadOK(p, d, m)'
      BY DEF ThreadInv
    <3>4. CASE <<p, d, m>> = <<o, e, n>>
      <4>1. putPc'[<<p, d, m>>] = "waiting" /\ callee'[<<p, d, m>>] = n + 1
        BY <3>1, <3>2, <3>4 DEF TypeOK
      <4> QED
        BY <3>1, <3>3, <3>4, <4>1, BegunStays, RecordStays DEF ThreadOK
    <3>5. CASE <<p, d, m>> = <<o, e, t>>
      <4>1. putPc'[<<p, d, m>>] = "recv"
        BY <3>1, <3>2, <3>5 DEF TypeOK
      <4> QED
        BY <3>3, <3>5, <4>1, BegunStays DEF ThreadOK
    <3>6. CASE <<p, d, m>> # <<o, e, n>> /\ <<p, d, m>> # <<o, e, t>>
      BY <3>1, <3>2, <3>6, ThreadStays DEF TypeOK
    <3> QED
      BY <3>4, <3>5, <3>6
  <2>5. CASE ForwardPutNoConnection(o, e, n)
    BY <2>5, ErrorReply DEF ForwardPutNoConnection, ConnectFailed
  <2>6. CASE ForwardPutAcked(o, e, n)
    <3>1. putPc[<<o, e, n>>] = "waiting" /\ PutReply(o, e, n, "ack")
      BY <2>6 DEF ForwardPutAcked
    <3>2. n < N /\ callee[<<o, e, n>>] = n + 1 /\ HasRecord(o, n)
      BY <3>1 DEF ThreadInv, ThreadOK
    <3>3. n + 1 \in Node /\ putPc[<<o, e, n + 1>>] = "ack"
      BY <2>6, <3>2 DEF ForwardPutAcked, Acked
    <3>4. ReplicatedFrom(o, n + 1)
      BY <3>3 DEF ThreadInv, ThreadOK
    <3> QED
      BY <3>1, <3>2, <3>4, AckExtends, AckReply
  <2>7. CASE ForwardPutRefused(o, e, n)
    BY <2>7, ErrorReply DEF ForwardPutRefused
  <2> QED
    BY <1>3, <2>1, <2>2, <2>3, <2>4, <2>5, <2>6, <2>7 DEF PutThreadStep
<1>4. ASSUME NEW k \in Node, Start(k) PROVE ThreadInv'
  <2> SUFFICES ASSUME NEW o \in PutOp, NEW e \in Node, NEW n \in Node PROVE ThreadOK(o, e, n)'
    BY DEF ThreadInv
  <2>1. /\ callee' = callee
        /\ \/ putPc'[<<o, e, n>>] = putPc[<<o, e, n>>]
           \/ putPc[<<o, e, n>>] # "none" /\ putPc'[<<o, e, n>>] = "closed"
    BY <1>4 DEF Start, Broken
  <2>2. CASE putPc'[<<o, e, n>>] = putPc[<<o, e, n>>]
    BY <2>1, <2>2, ThreadStays
  <2>3. CASE putPc[<<o, e, n>>] # "none" /\ putPc'[<<o, e, n>>] = "closed"
    <3>1. opState[o] # "idle"
      BY <2>3 DEF ThreadInv, ThreadOK
    <3> QED
      BY <2>3, <3>1, BegunStays DEF ThreadOK
  <2> QED
    BY <2>1, <2>2, <2>3
<1> QED
  BY <1>1, <1>2, <1>3, <1>4, ThreadMoves

\* An upload comes to be ok only by an ACK, and its cursor then rests.
LEMMA OkSteps ==
    ASSUME TypeOK, [Next]_vars, NEW o \in PutOp, opState'[o] = "ok"
    PROVE  PutAcked(o) \/ (opState[o] = "ok" /\ cursor'[o] = cursor[o])
<1> USE DEF clientVars, TypeOK
<1>1. ASSUME NEW p \in Op, Invoke(p) PROVE opState[o] = "ok" /\ cursor'[o] = cursor[o]
  BY <1>1 DEF Invoke
<1>2. ASSUME NEW p \in PutOp, ClientPut(p)
      PROVE  PutAcked(o) \/ (opState[o] = "ok" /\ cursor'[o] = cursor[o])
  <2>1. CASE PutMetadataToNode(p) \/ PutFailedHere(p)
    BY <2>1 DEF PutMetadataToNode, PutFailedHere, TryNextNode
  <2>2. CASE PutAcked(p)
    BY <2>2 DEF PutAcked
  <2> QED
    BY <1>2, <2>1, <2>2 DEF ClientPut
<1>3. ASSUME NEW p \in GetOp, ClientGet(p) PROVE opState[o] = "ok" /\ cursor'[o] = cursor[o]
  BY <1>3 DEF ClientGet, GetMetadataFromNode, GetFound, GetFailedHere, TryNextNode
<1>4. ASSUME NEW p \in PutOp, NEW e \in Node, NEW n \in Node, PutThreadStep(p, e, n)
      PROVE  opState[o] = "ok" /\ cursor'[o] = cursor[o]
  BY <1>4 DEF PutThreadStep, HandlePutBadArgs, HandlePutStore, HandlePutDecide, ForwardPut,
              ForwardPutNoConnection, ForwardPutAcked, ForwardPutRefused, PutReply
<1>5. ASSUME NEW p \in GetOp, NEW n \in Node, HandleGetRole(p, n) \/ HandleGetLookup(p, n)
      PROVE  opState[o] = "ok" /\ cursor'[o] = cursor[o]
  BY <1>5 DEF HandleGetRole, HandleGetLookup
<1>6. ASSUME NEW n \in Node, HealthThread(n) PROVE opState[o] = "ok" /\ cursor'[o] = cursor[o]
  BY <1>6 DEF HealthThread, HealthCheck, SkipToNode, NotifyNextOfPredecessor, ClearNext, BecomeTail
<1>7. ASSUME NEW n \in Node, NEW p \in Port, ChainCommand(n, p)
      PROVE  opState[o] = "ok" /\ cursor'[o] = cursor[o]
  BY <1>7 DEF ChainCommand, HandleUpdatePrev, HandleUpdateNext, HandleSetSkip
<1>8. ASSUME NEW n \in Node, StatusStep(n) \/ Start(n)
      PROVE  opState[o] = "ok" /\ cursor'[o] = cursor[o]
  BY <1>8 DEF StatusStep, Die, Crash, KilledSending, Hang, Resume, Start
<1>9. UNCHANGED vars => opState[o] = "ok" /\ cursor'[o] = cursor[o]
  BY DEF vars
<1> QED
  BY <1>1, <1>2, <1>3, <1>4, <1>5, <1>6, <1>7, <1>8, <1>9 DEF Next

\* What an ACK promised when the upload returned stays true.
LEMMA AckedStep ==
    ASSUME Restartable = {}, TypeOK, StartInv, ThreadInv, AckedInv, [Next]_vars
    PROVE  AckedInv'
<1> SUFFICES ASSUME NEW o \in PutOp, opState'[o] = "ok"
             PROVE  (ReplicatedFrom(o, cursor[o]))'
  BY DEF AckedInv
<1>c. PICK c \in Node : c = cursor[o]
  BY DEF TypeOK
<1>1. CASE opState[o] = "ok" /\ cursor'[o] = cursor[o]
  <2>1. ReplicatedFrom(o, c)
    BY <1>1, <1>c DEF AckedInv
  <2>2. ReplicatedFrom(o, c)'
    BY <2>1, ReplicationStays
  <2> QED
    BY <1>1, <1>c, <2>2 DEF ReplicatedFrom
<1>2. CASE PutAcked(o)
  <2>1. cursor' = cursor /\ putPc[<<o, c, c>>] = "ack"
    BY <1>2, <1>c DEF PutAcked
  <2>2. ReplicatedFrom(o, c)
    BY <2>1 DEF ThreadInv, ThreadOK
  <2>3. ReplicatedFrom(o, c)'
    BY <2>2, ReplicationStays
  <2> QED
    BY <1>c, <2>1, <2>3 DEF ReplicatedFrom
<1> QED
  BY <1>1, <1>2, OkSteps

\* The durability invariant holds of the chain as it is configured.
LEMMA InitDurable == Orderly /\ Init => DurInv
<1> SUFFICES ASSUME Orderly, Init PROVE DurInv
  OBVIOUS
<1>1. TypeOK
  BY InitType
<1>2. QuietInv
  BY DEF Init, QuietInv, Orderly
<1>3. LinkInv
  BY DEF Init, FirstRole, LinkInv, Serving, Orderly
<1>4. ThreadInv
  BY DEF Init, ThreadInv, ThreadOK
<1>5. AckedInv
  BY DEF Init, AckedInv
<1>6. StartInv
  BY DEF Init, StartInv, Orderly
<1> QED
  BY <1>1, <1>2, <1>3, <1>4, <1>5, <1>6 DEF DurInv

\* It is an invariant of an orderly chain.
LEMMA DurableAlways ==
    ASSUME Orderly
    PROVE  Spec => [](DurInv /\ LockInv)
<1>1. Init => DurInv /\ LockInv
  BY InitDurable, InitLock
<1>2. DurInv /\ LockInv /\ [Next]_vars => DurInv' /\ LockInv'
  BY TypeStep, LockStep, StartStep, QuietStep, LinkStep, ThreadStep, AckedStep DEF DurInv, Orderly
<1> QED
  BY <1>1, <1>2, PTL DEF Spec

\* An acknowledged upload is held by every node that can still be reached from where it
\* entered the chain: for every chain length, any number of concurrent uploads, and
\* whatever nodes hang, resume or die and whenever, if the nodes are started from the tail
\* on and nobody rewires the chain or starts a dead node again.
THEOREM AckIsDurable ==
    ASSUME Orderly
    PROVE  Spec => []AckedPutReplicated
<1>1. DurInv => AckedPutReplicated
  BY DEF DurInv, AckedInv, ReplicatedFrom, HasRecord, AckedPutReplicated
<1> QED
  BY <1>1, DurableAlways, PTL

\* In such a chain a successor is dropped only when it is dead.
THEOREM OnlyDeadNodesAreDropped ==
    ASSUME Orderly
    PROVE  Spec => LiveNextKept
<1> DEFINE Kept == \A n \in Node :
                      nextNodePort[n] # NoPort /\ nextNodePort'[n] # nextNodePort[n]
                          => ~Up(nextNodePort[n])
<1>1. ASSUME DurInv, LockInv, [Next]_vars PROVE Kept \/ UNCHANGED vars
  <2> SUFFICES ASSUME NEW n \in Node, nextNodePort[n] # NoPort, nextNodePort'[n] # nextNodePort[n]
               PROVE  ~Up(nextNodePort[n])
    OBVIOUS
  <2> USE DEF DurInv, TypeOK
  <2>1. ~UNCHANGED nodeVars
    BY DEF nodeVars
  <2> USE <1>1
  <2>2. ASSUME NEW m \in Node, HealthThread(m) PROVE ~Up(nextNodePort[n])
    <3>1. ClearNext(m)
      BY <2>2 DEF HealthThread, HealthCheck, SkipToNode, NotifyNextOfPredecessor, BecomeTail, QuietInv
    <3>2. m = n /\ healthPc[n] \in {"failed", "setport"}
      BY <3>1 DEF ClearNext
    <3>3. n < N /\ nextNodePort[n] = n + 1
      BY DEF LinkInv
    <3> QED
      BY <3>2, <3>3 DEF LinkInv, Gone, Up
  <2>3. ASSUME NEW m \in Node, NEW p \in Port, ChainCommand(m, p) PROVE FALSE
    BY <2>3 DEF ChainCommand, HandleUpdatePrev, HandleUpdateNext, HandleSetSkip, QuietInv
  <2>4. ASSUME NEW m \in Node, Start(m) PROVE FALSE
    BY <2>4 DEF Start, Orderly, StartInv
  <2> QED
    BY <2>1, <2>2, <2>3, <2>4, ChainStateSteps
<1>2. DurInv /\ LockInv /\ [Next]_vars => [Kept]_vars
  BY <1>1
<1>3. [][Kept]_vars => LiveNextKept
  BY DEF LiveNextKept
<1> QED
  BY <1>2, <1>3, DurableAlways, PTL DEF Spec

-----------------------------------------------------------------------------
(* The tail holds what was acknowledged, also across skip nodes, for a     *)
(* chain with any first links and any order of starts in which no          *)
(* UPDATE_NEXT gives a node that stopped forwarding a new successor and no *)
(* node is started a second time.                                          *)

NoRelink ==
    /\ Restartable = {}
    /\ \A m \in OperatorCmds : m[1] # "UPDATE_NEXT"

\* A node before the last serves reads or has no successor: TailHasAcked promises nothing.
GaveUp == \E n \in Node \ {N} : role[n] \in Serving \/ nextNodePort[n] = NoPort

\* Unless some node gave up, the last node has a record as good as o's.
OnTail(o) == GaveUp \/ HasRecord(o, N)

\* A node that has not been started is as constructed.
FreshInv ==
    \A n \in Node : status[n] = "off" =>
        /\ \A f \in File : metadataStore[n][f] = NoMeta
        /\ role[n] = FirstRole(n)
        /\ nextNodePort[n] = FirstNext[n]

\* No UPDATE_NEXT is on its way.
MailInv == \A m \in mail : m[1] # "UPDATE_NEXT"

\* What a PUT thread's program counter says of the tail.
TailOK(o, e, n) ==
    LET pc == putPc[<<o, e, n>>] IN
    /\ pc # "none" => opState[o] # "idle"
    /\ n = N /\ pc \in {"stored", "forward", "waiting", "ack"} => HasRecord(o, N)
    /\ pc = "waiting" => callee[<<o, e, n>>] \in Node
    /\ pc = "ack" => OnTail(o)

\* TailOK of all threads.
TailThreadInv == \A o \in PutOp, e, n \in Node : TailOK(o, e, n)

\* What is known of an upload that returned.
TailAckedInv == \A o \in PutOp : opState[o] = "ok" => OnTail(o)

\* The inductive invariant behind AcksReachTail.
TailInv == TypeOK /\ LockInv /\ FreshInv /\ MailInv /\ TailThreadInv /\ TailAckedInv

\* Nothing happens to a node before its start.
LEMMA FreshStep ==
    ASSUME NoRelink, TypeOK, FreshInv, [Next]_vars
    PROVE  FreshInv'
<1> SUFFICES ASSUME NEW n \in Node, status'[n] = "off"
             PROVE  /\ \A f \in File : metadataStore'[n][f] = NoMeta
                    /\ role'[n] = FirstRole(n)
                    /\ nextNodePort'[n] = FirstNext[n]
  BY DEF FreshInv, FirstRole
<1>1. status[n] = "off"
  BY NodesStayGone DEF NoRelink
<1>2. CASE /\ metadataStore'[n] = metadataStore[n]
           /\ role'[n] = role[n]
           /\ nextNodePort'[n] = nextNodePort[n]
  BY <1>1, <1>2 DEF FreshInv
<1> USE <1>1 DEF TypeOK, nodeVars, threadVars, clientVars
<1>3. ASSUME NEW o \in PutOp, NEW e \in Node, NEW k \in Node, HandlePutStore(o, e, k)
      PROVE  metadataStore'[n] = metadataStore[n]
  BY <1>3 DEF HandlePutStore, Alive
<1>4. ASSUME NEW k \in Node, Start(k)
      PROVE  k # n /\ metadataStore'[n] = metadataStore[n]
  <2>1. k # n
    BY <1>4 DEF Start
  <2> QED
    BY <1>4, <2>1 DEF Start
<1>5. metadataStore'[n] = metadataStore[n]
  BY <1>3, <1>4, StoreSteps
<1>6. ASSUME NEW k \in Node, HealthThread(k)
      PROVE  role'[n] = role[n] /\ nextNodePort'[n] = nextNodePort[n]
  <2>1. k # n
    BY <1>6 DEF HealthThread, HealthCheck, SkipToNode, NotifyNextOfPredecessor, ClearNext,
                BecomeTail, Alive
  <2> QED
    BY <1>6, <2>1 DEF HealthThread, HealthCheck, SkipToNode, NotifyNextOfPredecessor, ClearNext,
                      BecomeTail
<1>7. ASSUME NEW k \in Node, NEW p \in Port, ChainCommand(k, p)
      PROVE  role'[n] = role[n] /\ nextNodePort'[n] = nextNodePort[n]
  BY <1>7 DEF ChainCommand, HandleUpdatePrev, HandleUpdateNext, HandleSetSkip
<1>8. ASSUME NEW k \in Node, Start(k)
      PROVE  role'[n] = role[n] /\ nextNodePort'[n] = nextNodePort[n]
  BY <1>4, <1>8 DEF Start
<1>9. role'[n] = role[n] /\ nextNodePort'[n] = nextNodePort[n]
  BY <1>6, <1>7, <1>8, ChainStateSteps
<1> QED
  BY <1>2, <1>5, <1>9

\* Nobody but an operator sends UPDATE_NEXT.
LEMMA MailStep ==
    ASSUME TypeOK, MailInv, [Next]_vars
    PROVE  MailInv'
<1>1. CASE UNCHANGED nodeVars
  BY <1>1 DEF nodeVars, MailInv
<1>2. ASSUME NEW n \in Node, HealthThread(n) PROVE MailInv'
  BY <1>2 DEF HealthThread, HealthCheck, SkipToNode, NotifyNextOfPredecessor, ClearNext,
              BecomeTail, NoticeTo, MailInv
<1>3. ASSUME NEW n \in Node, NEW p \in Port, ChainCommand(n, p) PROVE MailInv'
  BY <1>3 DEF ChainCommand, HandleUpdatePrev, HandleUpdateNext, HandleSetSkip, MailInv
<1>4. ASSUME NEW n \in Node, Start(n) PROVE MailInv'
  BY <1>4 DEF Start, MailInv
<1> QED
  BY <1>1, <1>2, <1>3, <1>4, ChainStateSteps

\* A node that has no successor, or took the role of one that has none, never gets one again.
LEMMA GaveUpStays ==
    ASSUME NoRelink, TypeOK, LockInv, FreshInv, MailInv, [Next]_vars, GaveUp
    PROVE  GaveUp'
<1>1. PICK n \in Node \ {N} : role[n] \in Serving \/ nextNodePort[n] = NoPort
  BY DEF GaveUp
<1> SUFFICES role'[n] \in Serving \/ nextNodePort'[n] = NoPort
  BY DEF GaveUp
<1> USE <1>1 DEF TypeOK, Serving
<1>2. CASE UNCHANGED nodeVars
  BY <1>2 DEF nodeVars
<1>3. ASSUME NEW k \in Node, HealthThread(k)
      PROVE  role'[n] \in Serving \/ nextNodePort'[n] = NoPort
  <2>1. CASE HealthCheck(k) \/ NotifyNextOfPredecessor(k)
    BY <2>1 DEF HealthCheck, NotifyNextOfPredecessor
  <2>2. CASE SkipToNode(k)
    <3>1. k # n
      BY <2>2 DEF SkipToNode, LockInv, ChainLocked, Unlinked, NoRelink
    <3> QED
      BY <2>2, <3>1 DEF SkipToNode
  <2>3. CASE ClearNext(k)
    BY <2>3 DEF ClearNext
  <2>4. CASE BecomeTail(k)
    BY <2>4 DEF BecomeTail, LastRole
  <2> QED
    BY <1>3, <2>1, <2>2, <2>3, <2>4 DEF HealthThread
<1>4. ASSUME NEW k \in Node, NEW p \in Port, ChainCommand(k, p)
      PROVE  role'[n] \in Serving \/ nextNodePort'[n] = NoPort
  <2>1. ~HandleUpdateNext(k, p)
    BY DEF HandleUpdateNext, MailInv
  <2>2. CASE HandleSetSkip(k, p)
    BY <2>2 DEF HandleSetSkip
  <2>3. ASSUME NEW cmd \in {"UPDATE_PREV", "NOTICE"}, HandleUpdatePrev(k, p, cmd)
        PROVE  role'[n] \in Serving \/ nextNodePort'[n] = NoPort
    BY <2>3 DEF HandleUpdatePrev, RoleWithPrev
  <2> QED
    BY <1>4, <2>1, <2>2, <2>3 DEF ChainCommand
<1>5. ASSUME NEW k \in Node, Start(k)
      PROVE  role'[n] \in Serving \/ nextNodePort'[n] = NoPort
  <2>1. status[k] = "off"
    BY <1>5 DEF Start, NoRelink
  <2>2. CASE k = n
    BY <1>5, <2>1, <2>2 DEF Start, FreshInv
  <2>3. CASE k # n
    BY <1>5, <2>3 DEF Start
  <2> QED
    BY <2>2, <2>3
<1> QED
  BY <1>2, <1>3, <1>4, <1>5, ChainStateSteps

\* What the tail is known to hold it keeps.
LEMMA OnTailStays ==
    ASSUME NoRelink, TypeOK, LockInv, FreshInv, MailInv, TailThreadInv, [Next]_vars,
           NEW o \in PutOp
    PROVE  /\ HasRecord(o, N) => HasRecord(o, N)'
           /\ OnTail(o) => OnTail(o)'
<1>1. EmptyInv /\ BegunInv /\ Restartable = {} /\ N \in Node
  <2>1. EmptyInv
    BY DEF EmptyInv, FreshInv
  <2>2. BegunInv
    BY DEF BegunInv, TailThreadInv, TailOK
  <2> QED
    BY <2>1, <2>2 DEF NoRelink
<1>2. HasRecord(o, N) => HasRecord(o, N)'
  BY <1>1, RecordKept
<1>3. GaveUp => GaveUp'
  BY GaveUpStays
<1> QED
  BY <1>2, <1>3 DEF OnTail

\* A thread that does not move keeps what its program counter says of the tail.
LEMMA TailThreadStays ==
    ASSUME NoRelink, TypeOK, LockInv, FreshInv, MailInv, TailThreadInv, [Next]_vars,
           NEW o \in PutOp, NEW e \in Node, NEW n \in Node,
           putPc'[<<o, e, n>>] = putPc[<<o, e, n>>], callee'[<<o, e, n>>] = callee[<<o, e, n>>]
    PROVE  TailOK(o, e, n)'
<1>1. TailOK(o, e, n)
  BY DEF TailThreadInv
<1>2. opState[o] # "idle" => opState'[o] # "idle"
  BY BegunStays
<1> QED
  BY <1>1, <1>2, OnTailStays DEF TailOK

\* A reply keeps the invariant when what it says of the tail is so.
LEMMA TailReply ==
    ASSUME NoRelink, TypeOK, LockInv, FreshInv, MailInv, TailThreadInv, [Next]_vars,
           NEW o \in PutOp, NEW e \in Node, NEW n \in Node, NEW r \in {"ack", "error"},
           putPc[<<o, e, n>>] # "none", PutReply(o, e, n, r),
           r = "ack" => /\ putPc[<<o, e, n>>] \in {"stored", "waiting"}
                        /\ OnTail(o)
    PROVE  TailThreadInv'
<1> SUFFICES ASSUME NEW p \in PutOp, NEW d \in Node, NEW m \in Node PROVE TailOK(p, d, m)'
  BY DEF TailThreadInv
<1>1. /\ putPc' = [putPc EXCEPT ![<<o, e, n>>] = Reply(n, r)]
      /\ callee' = callee
  BY DEF PutReply
<1>2. CASE <<p, d, m>> = <<o, e, n>>
  <2>1. putPc'[<<o, e, n>>] \in {r, "closed"}
    BY <1>1 DEF TypeOK, Reply
  <2>2. opState[o] # "idle" /\ (n = N /\ r = "ack" => HasRecord(o, N))
    BY DEF TailThreadInv, TailOK
  <2>3. opState'[o] # "idle"
    BY <2>2, BegunStays
  <2>4. r = "ack" => OnTail(o)' /\ (n = N => HasRecord(o, N)')
    BY <2>2, OnTailStays
  <2> QED
    BY <1>2, <2>1, <2>3, <2>4 DEF TailOK
<1>3. CASE <<p, d, m>> # <<o, e, n>>
  BY <1>1, <1>3, TailThreadStays DEF TypeOK
<1> QED
  BY <1>2, <1>3

\* Every step keeps what TailOK says of every PUT thread.
LEMMA TailThreadStep ==
    ASSUME NoRelink, TypeOK, LockInv, FreshInv, MailInv, TailThreadInv, [Next]_vars
    PROVE  TailThreadInv'
<1>1. CASE UNCHANGED <<putPc, callee>>
  BY <1>1, TailThreadStays DEF TailThreadInv
<1>2. ASSUME NEW o \in PutOp, PutMetadataToNode(o) PROVE TailThreadInv'
  <2> DEFINE h == <<o, cursor[o], cursor[o]>>
  <2>1. /\ putPc' = [putPc EXCEPT ![h] = "recv"]
        /\ callee' = callee
        /\ opState'[o] # "idle"
    BY <1>2 DEF PutMetadataToNode, TypeOK
  <2> SUFFICES ASSUME NEW p \in PutOp, NEW d \in Node, NEW m \in Node PROVE TailOK(p, d, m)'
    BY DEF TailThreadInv
  <2>2. CASE <<p, d, m>> = h
    BY <2>1, <2>2 DEF TailOK, TypeOK
  <2>3. CASE <<p, d, m>> # h
    BY <2>1, <2>3, TailThreadStays DEF TypeOK
  <2> QED
    BY <2>2, <2>3
<1>3. ASSUME NEW o \in PutOp, NEW e \in Node, NEW n \in Node, PutThreadStep(o, e, n)
      PROVE  TailThreadInv'
  <2>1. CASE HandlePutBadArgs(o, e, n)
    BY <2>1, TailReply DEF HandlePutBadArgs
  <2>2. CASE HandlePutStore(o, e, n)
    <3>1. /\ putPc' = [putPc EXCEPT ![<<o, e, n>>] = "stored"]
          /\ callee' = callee
          /\ metadataStore' = [metadataStore EXCEPT ![n][Name(o)] = o]
          /\ opFile' = opFile
          /\ putPc[<<o, e, n>>] = "recv"
      BY <2>2 DEF HandlePutStore, Assigned, clientVars
    <3> SUFFICES ASSUME NEW p \in PutOp, NEW d \in Node, NEW m \in Node PROVE TailOK(p, d, m)'
      BY DEF TailThreadInv
    <3>2. CASE <<p, d, m>> = <<o, e, n>>
      <4>1. putPc'[<<o, e, n>>] = "stored"
        BY <3>1 DEF TypeOK
      <4>2. HasRecord(o, n)'
        BY <3>1 DEF HasRecord, Name, TypeOK
      <4>3. opState'[o] # "idle"
        BY <3>1, BegunStays DEF TailThreadInv, TailOK
      <4> QED
        BY <3>2, <4>1, <4>2, <4>3 DEF TailOK
    <3>3. CASE <<p, d, m>> # <<o, e, n>>
      BY <3>1, <3>3, TailThreadStays DEF TypeOK
    <3> QED
      BY <3>2, <3>3
  <2>3. CASE HandlePutDecide(o, e, n)
    <3>1. /\ putPc[<<o, e, n>>] = "stored"
          /\ opState[o] # "idle"
          /\ n = N => HasRecord(o, N)
      BY <2>3 DEF HandlePutDecide, TailThreadInv, TailOK
    <3>2. CASE Forwards(n)
      <4>1. /\ putPc' = [putPc EXCEPT ![<<o, e, n>>] = "forward"]
            /\ callee' = callee
        BY <2>3, <3>2 DEF HandlePutDecide
      <4> SUFFICES ASSUME NEW p \in PutOp, NEW d \in Node, NEW m \in Node PROVE TailOK(p, d, m)'
        BY DEF TailThreadInv
      <4>2. CASE <<p, d, m>> = <<o, e, n>>
        BY <3>1, <4>1, <4>2, BegunStays, OnTailStays DEF TailOK, TypeOK
      <4>3. CASE <<p, d, m>> # <<o, e, n>>
        BY <4>1, <4>3, TailThreadStays DEF TypeOK
      <4> QED
        BY <4>2, <4>3
    <3>3. CASE ~Forwards(n)
      <4>1. PutReply(o, e, n, "ack")
        BY <2>3, <3>3 DEF HandlePutDecide
      <4>2. OnTail(o)
        BY <3>1, <3>3 DEF OnTail, GaveUp, Forwards
      <4> QED
        BY <3>1, <4>1, <4>2, TailReply
    <3> QED
      BY <3>2, <3>3
  <2>4. CASE ForwardPut(o, e, n)
    <3> DEFINE t == nextNodePort[n]
    <3>1. t \in Node
      BY <2>4 DEF ForwardPut, TypeOK
    <3>2. /\ putPc' = [putPc EXCEPT ![<<o, e, n>>] = "waiting", ![<<o, e, t>>] = "recv"]
          /\ callee' = [callee EXCEPT ![<<o, e, n>>] = t]
          /\ putPc[<<o, e, n>>] = "forward"
      BY <2>4 DEF ForwardPut
    <3>3. opState[o] # "idle" /\ (n = N => HasRecord(o, N))
      BY <3>2 DEF TailThreadInv, TailOK
    <3> SUFFICES ASSUME NEW p \in PutOp, NEW d \in Node, NEW m \in Node PROVE TailOK(p, d, m)'
      BY DEF TailThreadInv
    <3>4. CASE <<p, d, m>> = <<o, e, t>>
      <4>1. putPc'[<<p, d, m>>] = "recv"
        BY <3>1, <3>2, <3>4 DEF TypeOK
      <4> QED
        BY <3>3, <3>4, <4>1, BegunStays DEF TailOK
    <3>5. CASE <<p, d, m>> = <<o, e, n>> /\ <<p, d, m>> # <<o, e, t>>
      <4>1. putPc'[<<p, d, m>>] = "waiting" /\ callee'[<<p, d, m>>] = t
        BY <3>1, <3>2, <3>5 DEF TypeOK
      <4> QED
        BY <3>1, <3>3, <3>5, <4>1, BegunStays, OnTailStays DEF TailOK
    <3>6. CASE <<p, d, m>> # <<o, e, n>> /\ <<p, d, m>> # <<o, e, t>>
      BY <3>1, <3>2, <3>6, TailThreadStays DEF TypeOK
    <3> QED
      BY <3>4, <3>5, <3>6
  <2>5. CASE ForwardPutNoConnection(o, e, n)
    BY <2>5, TailReply DEF ForwardPutNoConnection, ConnectFailed
  <2>6. CASE ForwardPutAcked(o, e, n)
    <3>1. putPc[<<o, e, n>>] = "waiting" /\ PutReply(o, e, n, "ack")
      BY <2>6 DEF ForwardPutAcked
    <3>2. PICK t \in Node : t = callee[<<o, e, n>>]
      BY <3>1 DEF TailThreadInv, TailOK
    <3>3. putPc[<<o, e, t>>] = "ack"
      BY <2>6, <3>2 DEF ForwardPutAcked, Acked
    <3>4. OnTail(o)
      BY <3>3 DEF TailThreadInv, TailOK
    <3> QED
      BY <3>1, <3>4, TailReply
  <2>7. CASE ForwardPutRefused(o, e, n)
    BY <2>7, TailReply DEF ForwardPutRefused
  <2> QED
    BY <1>3, <2>1, <2>2, <2>3, <2>4, <2>5, <2>6, <2>7 DEF PutThreadStep
<1>4. ASSUME NEW k \in Node, Start(k) PROVE TailThreadInv'
  <2> SUFFICES ASSUME NEW o \in PutOp, NEW e \in Node, NEW n \in Node PROVE TailOK(o, e, n)'
    BY DEF TailThreadInv
  <2>1. /\ callee' = callee
        /\ \/ putPc'[<<o, e, n>>] = putPc[<<o, e, n>>]
           \/ putPc[<<o, e, n>>] # "none" /\ putPc'[<<o, e, n>>] = "closed"
    BY <1>4 DEF Start, Broken
  <2>2. CASE putPc'[<<o, e, n>>] = putPc[<<o, e, n>>]
    BY <2>1, <2>2, TailThreadStays
  <2>3. CASE putPc[<<o, e, n>>] # "none" /\ putPc'[<<o, e, n>>] = "closed"
    <3>1. opState[o] # "idle"
      BY <2>3 DEF TailThreadInv, TailOK
    <3> QED
      BY <2>3, <3>1, BegunStays DEF TailOK
  <2> QED
    BY <2>1, <2>2, <2>3
<1> QED
  BY <1>1, <1>2, <1>3, <1>4, ThreadMoves

\* An upload that returned ok was acknowledged by its entry node.
LEMMA TailAckedStep ==
    ASSUME NoRelink, TypeOK, LockInv, FreshInv, MailInv, TailThreadInv, TailAckedInv, [Next]_vars
    PROVE  TailAckedInv'
<1> SUFFICES ASSUME NEW o \in PutOp, opState'[o] = "ok" PROVE OnTail(o)'
  BY DEF TailAckedInv
<1>1. CASE opState[o] = "ok"
  BY <1>1, OnTailStays DEF TailAckedInv
<1>2. CASE PutAcked(o)
  <2>1. PICK c \in Node : c = cursor[o]
    BY DEF TypeOK
  <2>2. putPc[<<o, c, c>>] = "ack"
    BY <1>2, <2>1 DEF PutAcked
  <2> QED
    BY <2>2, OnTailStays DEF TailThreadInv, TailOK
<1> QED
  BY <1>1, <1>2, OkSteps

\* The invariant holds of the chain as it is configured.
LEMMA InitTail == NoRelink /\ Init => TailInv
<1> SUFFICES ASSUME NoRelink, Init PROVE TailInv
  OBVIOUS
<1>1. FreshInv
  BY DEF Init, FreshInv
<1>2. MailInv
  BY DEF Init, MailInv, NoRelink
<1>3. TailThreadInv
  BY DEF Init, TailThreadInv, TailOK
<1>4. TailAckedInv
  BY DEF Init, TailAckedInv
<1> QED
  BY <1>1, <1>2, <1>3, <1>4, InitType, InitLock DEF TailInv

\* Every acknowledged upload is on the last node, or a rival's record is, as long as no
\* node before it stopped forwarding: for every chain length, any first links, any start
\* order, deaths, stalls, SET_SKIP and UPDATE_PREV commands, and although a PUT thread
\* tests role_ and nextNodePort_ and later reads the port again, both without a lock.
THEOREM AcksReachTail ==
    ASSUME NoRelink
    PROVE  Spec => []TailHasAcked
<1>1. Init => TailInv
  BY InitTail
<1>2. TailInv /\ [Next]_vars => TailInv'
  BY TypeStep, LockStep, FreshStep, MailStep, TailThreadStep, TailAckedStep DEF TailInv
<1>3. TailInv => TailHasAcked
  BY DEF TailInv, TailAckedInv, OnTail, GaveUp, HasRecord, TailHasAcked
<1> QED
  BY <1>1, <1>2, <1>3, PTL DEF Spec
=============================================================================
