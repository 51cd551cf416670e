------------------------ MODULE ChainRefinementProofs ------------------------
(***************************************************************************)
(* The refinement of MetadataRegister by a chain in which nothing fails,   *)
(* proved for every length of the chain, every set of calls and files and  *)
(* every assignment of calls to Client objects; and the chain that the     *)
(* processes configure from a node list file, for every file that gives no *)
(* metadata node's id twice.                                               *)
(***************************************************************************)
EXTENDS ChainDeployment, MetadataChainProofs, FiniteSetTheorems, WellFoundedInduction

\* Every node is started in its place, names are plain, and nothing fails, hangs or
\* is rewired.
FailureFree ==
    /\ Crashable = {} /\ Hangable = {} /\ Restartable = {} /\ LateStart = {}
    /\ OperatorCmds = {}
    /\ Unparsable = {}
    /\ FirstNext = [n \in Node |-> IF n < N THEN n + 1 ELSE NoPort]

\* The nodes stay as they were constructed: only the last answers GETs.
CalmInv ==
    /\ status = [n \in Node |-> "up"]
    /\ nextNodePort = FirstNext
    /\ role = [n \in Node |-> FirstRole(n)]
    /\ healthPc = [n \in Node |-> "sleep"]
    /\ mail = {}

\* An upload enters at node 1 and goes down the chain: a thread of it runs on every node
\* up to the one it has reached, and the ACKs come back from the last node on.
Chained(o) ==
    \A n \in Node :
        LET pc == putPc[<<o, 1, n>>] IN
        /\ opState[o] \in {"idle", "trying"} => pc = "none"
        /\ opState[o] = "ok" => pc = "ack"
        /\ pc \in {"forward", "waiting"} => n < N
        /\ pc = "waiting" => callee[<<o, 1, n>>] = n + 1
        /\ pc = "ack" => \A m \in n..N : putPc[<<o, 1, m>>] = "ack"
        /\ pc \in {"none", "recv", "stored", "forward"} => \A m \in n + 1..N : putPc[<<o, 1, m>>] = "none"

\* What is known of an upload and its threads, which all entered at the first node.
PutOK(o) ==
    /\ cursor[o] = 1
    /\ opState[o] # "failed"
    /\ \A e, n \in Node : /\ putPc[<<o, e, n>>] \notin {"error", "closed"}
                          /\ e # 1 => putPc[<<o, e, n>>] = "none"
    /\ Chained(o)

PutInv == \A o \in PutOp : PutOK(o)

\* A download asks the last node first.  It goes on to the others, in vain, only when
\* that node had no record.
GetOK(o) ==
    LET pc == getPc[<<o, N>>] IN
    /\ \A n \in 1..(N - 1) : getPc[<<o, n>>] \in {"none", "recv", "redirect"}
    /\ pc \in {"none", "recv", "lookup", "found", "notfound"}
    /\ opState[o] = "idle" => cursor[o] = N /\ pc = "none"
    /\ opState[o] = "trying" /\ cursor[o] = N => pc = "none"
    /\ opState[o] = "waiting" /\ cursor[o] = N => pc # "none"
    /\ pc \in {"recv", "lookup"} => opState[o] = "waiting" /\ cursor[o] = N
    /\ cursor[o] # N \/ opState[o] = "failed" => pc = "notfound"
    /\ opState[o] = "ok" => pc = "found" /\ result[o] = answer[<<o, N>>]
    /\ pc = "notfound" => answer[<<o, N>>] = NoMeta
    /\ opState[o] # "ok" => result[o] = NoMeta

GetInv == \A o \in GetOp : GetOK(o)

\* The inductive invariant behind ChainIsLinearizable.
SteadyInv == TypeOK /\ LockInv /\ CalmInv /\ PutInv /\ GetInv

USE ChainAssumption DEF Node, Op, NoPort, Port, PutThread, GetThread, OperatorCmd, ChainCmd

\* The chain as it is configured, with every node up.
LEMMA InitSteady == ASSUME FailureFree, Init PROVE SteadyInv
<1>1. CalmInv
  BY DEF FailureFree, Init, CalmInv
<1>2. PutInv
  BY DEF Init, PutInv, PutOK, Chained
<1>3. GetInv
  BY DEF Init, GetInv, GetOK
<1> QED
  BY <1>1, <1>2, <1>3, InitType, InitLock DEF SteadyInv

-----------------------------------------------------------------------------
(* The steps that are possible while nothing fails.                        *)

\* What the nodes do not change.
calmVars == <<status, nodeVars>>

\* A node is up, and forwards to the next one unless it is the last.
LEMMA CalmNode ==
    ASSUME FailureFree, TypeOK, CalmInv, NEW n \in Node
    PROVE  /\ status[n] = "up" /\ Up(n) /\ Alive(n)
           /\ n < N => /\ role[n] \notin Serving /\ nextNodePort[n] = n + 1 /\ n + 1 \in Node
           /\ n = N => role[n] \in Serving /\ nextNodePort[n] = NoPort
BY DEF FailureFree, CalmInv, Up, Alive, FirstRole, Serving

\* Pings are answered, so the health threads change nothing; nobody else touches a node.
LEMMA NodesAreCalm ==
    ASSUME FailureFree, TypeOK, CalmInv, NEW n \in Node
    PROVE  /\ HealthThread(n) => UNCHANGED vars
           /\ \A p \in Port : ~ChainCommand(n, p)
           /\ ~StatusStep(n) /\ ~Start(n)
<1>1. status[n] = "up" /\ Up(n) /\ healthPc[n] = "sleep" /\ mail = {}
  BY CalmNode DEF CalmInv
<1>2. PingNext(n)
  BY CalmNode DEF PingNext, FailureFree
<1>3. ASSUME HealthThread(n) PROVE UNCHANGED vars
  <2>1. HealthCheck(n)
    BY <1>1, <1>3 DEF HealthThread, SkipToNode, NotifyNextOfPredecessor, ClearNext, BecomeTail
  <2>2. healthPc' = healthPc
    BY <1>1, <1>2, <2>1 DEF HealthCheck, NextIteration, TypeOK
  <2> QED
    BY <2>1, <2>2 DEF HealthCheck, vars, nodeVars
<1>4. \A p \in Port : ~ChainCommand(n, p)
  BY <1>1 DEF ChainCommand, HandleUpdatePrev, HandleUpdateNext, HandleSetSkip
<1>5. ~StatusStep(n) /\ ~Start(n)
  <2>1. \A t \in Node : ~Gone(t)
    BY DEF CalmInv, Gone
  <2>2. ~KilledSending(n)
    BY <2>1 DEF KilledSending, TypeOK
  <2> QED
    BY <1>1, <2>2 DEF StatusStep, Die, Crash, Hang, Resume, MayDie, Start, FailureFree
<1> QED
  BY <1>3, <1>4, <1>5

\* No reply meets a closed socket.
LEMMA RepliesArrive ==
    ASSUME FailureFree, TypeOK, CalmInv, PutInv, NEW o \in PutOp, NEW e \in Node, NEW n \in Node, NEW r,
           PutReply(o, e, n, r)
    PROVE  /\ putPc' = [putPc EXCEPT ![<<o, e, n>>] = r] /\ status' = status
           /\ UNCHANGED <<nodeVars, callee, getPc, answer, metadataStore, clientVars>>
<1>1. Up(n) /\ ~CallerGone(o, e, n)
  BY CalmNode DEF CallerGone, PutInv, PutOK
<1> QED
  BY <1>1 DEF PutReply, Reply

\* The steps of the threads of an upload: it is never refused.
LEMMA PutSteps ==
    ASSUME FailureFree, SteadyInv, NEW o \in PutOp, NEW e \in Node, NEW n \in Node, PutThreadStep(o, e, n)
    PROVE  e = 1 /\ (HandlePutStore(o, e, n) \/ HandlePutDecide(o, e, n) \/ ForwardPut(o, e, n) \/ ForwardPutAcked(o, e, n))
<1>1. TypeOK /\ CalmInv /\ PutOK(o)
  BY DEF SteadyInv, PutInv
<1>2. putPc[<<o, e, n>>] # "none"
  BY DEF PutThreadStep, HandlePutBadArgs, HandlePutStore, HandlePutDecide, ForwardPut,
         ForwardPutNoConnection, ForwardPutAcked, ForwardPutRefused
<1>3. e = 1
  BY <1>1, <1>2 DEF PutOK
<1>4. ~HandlePutBadArgs(o, e, n)
  BY DEF HandlePutBadArgs, FailureFree
<1>5. ~ForwardPutNoConnection(o, e, n)
  <2> SUFFICES ASSUME putPc[<<o, e, n>>] = "forward" PROVE nextNodePort[n] # NoPort /\ Up(nextNodePort[n])
    BY DEF ForwardPutNoConnection
  <2>1. n < N
    BY <1>1, <1>3 DEF PutOK, Chained
  <2>2. nextNodePort[n] = n + 1 /\ n + 1 \in Node
    BY <1>1, <2>1, CalmNode
  <2> QED
    BY <1>1, <2>2, CalmNode
<1>6. ~ForwardPutRefused(o, e, n)
  <2> SUFFICES ASSUME putPc[<<o, e, n>>] = "waiting" PROVE ~Refused(o, e, callee[<<o, e, n>>])
    BY DEF ForwardPutRefused
  <2>1. callee[<<o, e, n>>] = n + 1 /\ n < N
    BY <1>1, <1>3 DEF PutOK, Chained
  <2>2. n + 1 \in Node
    BY <2>1
  <2> QED
    BY <1>1, <2>1, <2>2, CalmNode DEF Refused, PutOK
<1> QED
  BY <1>3, <1>4, <1>5, <1>6 DEF PutThreadStep

-----------------------------------------------------------------------------
(* Every step keeps the invariant.                                         *)

\* A step that does not touch an upload or a download.
LEMMA PutKept ==
    ASSUME NEW o \in PutOp, PutOK(o), cursor'[o] = cursor[o], opState'[o] = opState[o],
           \A e, n \in Node : putPc'[<<o, e, n>>] = putPc[<<o, e, n>>],
           \A n \in Node : callee'[<<o, 1, n>>] = callee[<<o, 1, n>>]
    PROVE  PutOK(o)'
<1>1. cursor'[o] = 1 /\ opState'[o] # "failed"
  BY DEF PutOK
<1>2. ASSUME NEW e \in Node, NEW n \in Node
      PROVE  putPc'[<<o, e, n>>] \notin {"error", "closed"} /\ (e # 1 => putPc'[<<o, e, n>>] = "none")
  BY DEF PutOK
<1>3. Chained(o)'
  <2>1. \A n \in Node : \A m \in n..N : m \in Node
    OBVIOUS
  <2>2. \A n \in Node : \A m \in n + 1..N : m \in Node
    OBVIOUS
  <2>3. \A n \in Node : putPc'[<<o, 1, n>>] = putPc[<<o, 1, n>>] /\ callee'[<<o, 1, n>>] = callee[<<o, 1, n>>]
    OBVIOUS
  <2> QED
    BY <2>1, <2>2, <2>3 DEF PutOK, Chained
<1> QED
  BY <1>1, <1>2, <1>3 DEF PutOK

\* A download whose call, thread and answer do not move.
LEMMA GetKept ==
    ASSUME NEW o \in GetOp, GetOK(o), cursor'[o] = cursor[o], opState'[o] = opState[o], result'[o] = result[o],
           \A n \in Node : getPc'[<<o, n>>] = getPc[<<o, n>>], answer'[<<o, N>>] = answer[<<o, N>>]
    PROVE  GetOK(o)'
<1>1. N \in Node /\ 1..(N - 1) \subseteq Node
  OBVIOUS
<1> QED
  BY <1>1 DEF GetOK

\* The threads of an upload.
LEMMA ThreadsStay ==
    ASSUME FailureFree, SteadyInv, NEW o \in PutOp, NEW n \in Node,
           HandlePutStore(o, 1, n) \/ HandlePutDecide(o, 1, n) \/ ForwardPut(o, 1, n) \/ ForwardPutAcked(o, 1, n)
    PROVE  /\ PutInv' /\ UNCHANGED <<calmVars, getPc, answer, clientVars>>
<1>1. TypeOK /\ CalmInv /\ PutInv /\ PutOK(o)
  BY DEF SteadyInv, PutInv
<1>2. 1 \in Node /\ N \in Node
  OBVIOUS
<1> DEFINE pc(m) == putPc[<<o, 1, m>>]
<1>3. opState[o] = "waiting"
  <2>1. pc(n) \in {"recv", "stored", "forward", "waiting"}
    BY DEF HandlePutStore, HandlePutDecide, ForwardPut, ForwardPutAcked
  <2>2. opState[o] \in {"idle", "trying", "waiting", "ok"}
    BY <1>1 DEF TypeOK, PutOK, Returned
  <2> QED
    BY <1>1, <2>1, <2>2 DEF PutOK, Chained
<1>4. CASE HandlePutStore(o, 1, n)
  <2>1. /\ pc(n) = "recv" /\ putPc' = [putPc EXCEPT ![<<o, 1, n>>] = "stored"]
        /\ UNCHANGED <<calmVars, callee, getPc, answer, clientVars>>
    BY <1>4 DEF HandlePutStore, calmVars
  <2>2. opState' = opState /\ cursor' = cursor /\ callee' = callee
    BY <2>1 DEF clientVars
  <2>3. Chained(o)'
    BY <1>1, <1>2, <1>3, <2>1, <2>2 DEF TypeOK, PutOK, Chained
  <2>4. PutOK(o)'
    BY <1>1, <1>2, <2>1, <2>2, <2>3 DEF TypeOK, PutOK
  <2>5. ASSUME NEW p \in PutOp, p # o PROVE PutOK(p)'
    BY <1>1, <1>2, <2>1, <2>2, <2>5, PutKept DEF TypeOK, PutInv
  <2> QED
    BY <2>1, <2>4, <2>5 DEF PutInv
<1>5. CASE HandlePutDecide(o, 1, n) /\ n < N
  <2>1. Forwards(n)
    BY <1>1, <1>5, CalmNode DEF Forwards
  <2>2. /\ pc(n) = "stored" /\ putPc' = [putPc EXCEPT ![<<o, 1, n>>] = "forward"]
        /\ UNCHANGED <<calmVars, callee, getPc, answer, clientVars>>
    BY <1>5, <2>1 DEF HandlePutDecide, calmVars
  <2>3. opState' = opState /\ cursor' = cursor /\ callee' = callee
    BY <2>2 DEF clientVars
  <2>4. Chained(o)'
    BY <1>1, <1>2, <1>3, <1>5, <2>2, <2>3 DEF TypeOK, PutOK, Chained
  <2>5. PutOK(o)'
    BY <1>1, <1>2, <2>2, <2>3, <2>4 DEF TypeOK, PutOK
  <2>6. ASSUME NEW p \in PutOp, p # o PROVE PutOK(p)'
    BY <1>1, <1>2, <2>2, <2>3, <2>6, PutKept DEF TypeOK, PutInv
  <2> QED
    BY <2>2, <2>5, <2>6 DEF PutInv
<1>6. CASE HandlePutDecide(o, 1, n) /\ n = N
  <2>1. ~Forwards(n)
    BY <1>1, <1>6, CalmNode DEF Forwards
  <2>2. pc(n) = "stored" /\ PutReply(o, 1, n, "ack")
    BY <1>6, <2>1 DEF HandlePutDecide
  <2>3. /\ putPc' = [putPc EXCEPT ![<<o, 1, n>>] = "ack"]
        /\ UNCHANGED <<calmVars, callee, getPc, answer, clientVars>>
    BY <1>1, <1>2, <2>2, RepliesArrive DEF calmVars
  <2>4. opState' = opState /\ cursor' = cursor /\ callee' = callee
    BY <2>3 DEF clientVars
  <2>5. Chained(o)'
    BY <1>1, <1>2, <1>3, <1>6, <2>2, <2>3, <2>4 DEF TypeOK, PutOK, Chained
  <2>6. PutOK(o)'
    BY <1>1, <1>2, <2>3, <2>4, <2>5 DEF TypeOK, PutOK
  <2>7. ASSUME NEW p \in PutOp, p # o PROVE PutOK(p)'
    BY <1>1, <1>2, <2>3, <2>4, <2>7, PutKept DEF TypeOK, PutInv
  <2> QED
    BY <2>3, <2>6, <2>7 DEF PutInv
<1>7. CASE ForwardPut(o, 1, n)
  <2>1. pc(n) = "forward" /\ n < N /\ n + 1 \in Node /\ nextNodePort[n] = n + 1
    <3>1. pc(n) = "forward"
      BY <1>7 DEF ForwardPut
    <3>2. n < N
      BY <1>1, <3>1 DEF PutOK, Chained
    <3> QED
      BY <1>1, <3>1, <3>2, CalmNode
  <2>2. /\ putPc' = [putPc EXCEPT ![<<o, 1, n>>] = "waiting", ![<<o, 1, n + 1>>] = "recv"]
        /\ callee' = [callee EXCEPT ![<<o, 1, n>>] = n + 1]
        /\ UNCHANGED <<calmVars, getPc, answer, clientVars>>
    BY <1>7, <2>1 DEF ForwardPut, calmVars
  <2>3. opState' = opState /\ cursor' = cursor
    BY <2>2 DEF clientVars
  <2>4. \A m \in n + 1..N : pc(m) = "none"
    BY <1>1, <2>1 DEF PutOK, Chained
  <2>5. /\ putPc'[<<o, 1, n>>] = "waiting" /\ callee'[<<o, 1, n>>] = n + 1
        /\ putPc'[<<o, 1, n + 1>>] = "recv"
        /\ \A m \in Node \ {n, n + 1} : putPc'[<<o, 1, m>>] = pc(m)
        /\ \A m \in Node \ {n} : callee'[<<o, 1, m>>] = callee[<<o, 1, m>>]
    BY <1>1, <1>2, <2>1, <2>2 DEF TypeOK
  <2>6. Chained(o)'
    <3> SUFFICES ASSUME NEW m \in Node
                 PROVE LET q == putPc'[<<o, 1, m>>] IN
                       /\ q \in {"forward", "waiting"} => m < N
                       /\ q = "waiting" => callee'[<<o, 1, m>>] = m + 1
                       /\ q = "ack" => \A k \in m..N : putPc'[<<o, 1, k>>] = "ack"
                       /\ q \in {"none", "recv", "stored", "forward"} => \A k \in m + 1..N : putPc'[<<o, 1, k>>] = "none"
      BY <1>3, <2>3 DEF Chained
    <3>1. CASE m < n
      <4>1. pc(m) \notin {"none", "recv", "stored", "forward", "ack"}
        BY <1>1, <2>1, <3>1 DEF PutOK, Chained
      <4>2. putPc'[<<o, 1, m>>] = pc(m) /\ callee'[<<o, 1, m>>] = callee[<<o, 1, m>>]
        BY <2>5, <3>1
      <4> QED
        BY <1>1, <4>1, <4>2 DEF PutOK, Chained
    <3>2. CASE m = n
      BY <2>1, <2>5, <3>2
    <3>3. CASE m > n
      <4>1. \A k \in m + 1..N : k \in Node \ {n, n + 1} /\ k \in n + 1..N
        BY <3>3
      <4>2. \A k \in m + 1..N : putPc'[<<o, 1, k>>] = "none"
        BY <2>4, <2>5, <4>1
      <4>3. putPc'[<<o, 1, m>>] \in {"none", "recv"}
        <5>1. m \in n + 1..N /\ (m = n + 1 \/ m \in Node \ {n, n + 1})
          BY <3>3
        <5> QED
          BY <2>4, <2>5, <5>1
      <4> QED
        BY <4>2, <4>3
    <3> QED
      BY <3>1, <3>2, <3>3
  <2>7. PutOK(o)'
    BY <1>1, <1>2, <2>1, <2>2, <2>3, <2>6 DEF TypeOK, PutOK
  <2>8. ASSUME NEW p \in PutOp, p # o PROVE PutOK(p)'
    <3>1. /\ \A e, m \in Node : putPc'[<<p, e, m>>] = putPc[<<p, e, m>>]
          /\ \A m \in Node : callee'[<<p, 1, m>>] = callee[<<p, 1, m>>]
      BY <1>1, <1>2, <2>1, <2>2, <2>8 DEF TypeOK
    <3> QED
      BY <1>1, <2>3, <3>1, PutKept DEF PutInv
  <2> QED
    BY <2>2, <2>7, <2>8 DEF PutInv
<1>8. CASE ForwardPutAcked(o, 1, n)
  <2>1. pc(n) = "waiting" /\ n < N /\ n + 1 \in Node /\ PutReply(o, 1, n, "ack") /\ pc(n + 1) = "ack"
    <3>1. pc(n) = "waiting" /\ PutReply(o, 1, n, "ack") /\ Acked(o, 1, callee[<<o, 1, n>>])
      BY <1>8 DEF ForwardPutAcked
    <3>2. n < N /\ callee[<<o, 1, n>>] = n + 1
      BY <1>1, <3>1 DEF PutOK, Chained
    <3> QED
      BY <3>1, <3>2 DEF Acked
  <2>2. /\ putPc' = [putPc EXCEPT ![<<o, 1, n>>] = "ack"]
        /\ UNCHANGED <<calmVars, callee, getPc, answer, clientVars>>
    BY <1>1, <1>2, <2>1, RepliesArrive DEF calmVars
  <2>3. opState' = opState /\ cursor' = cursor /\ callee' = callee
    BY <2>2 DEF clientVars
  <2>4. \A m \in n + 1..N : pc(m) = "ack"
    BY <1>1, <2>1 DEF PutOK, Chained
  <2>5. Chained(o)'
    BY <1>1, <1>2, <1>3, <2>1, <2>2, <2>3, <2>4 DEF TypeOK, PutOK, Chained
  <2>6. PutOK(o)'
    BY <1>1, <1>2, <2>2, <2>3, <2>5 DEF TypeOK, PutOK
  <2>7. ASSUME NEW p \in PutOp, p # o PROVE PutOK(p)'
    BY <1>1, <1>2, <2>2, <2>3, <2>7, PutKept DEF TypeOK, PutInv
  <2> QED
    BY <2>2, <2>6, <2>7 DEF PutInv
<1>9. n < N \/ n = N
  OBVIOUS
<1> QED
  BY <1>4, <1>5, <1>6, <1>7, <1>8, <1>9

\* The threads of a download.
LEMMA LookupsStay ==
    ASSUME FailureFree, SteadyInv, NEW o \in GetOp, NEW n \in Node, HandleGetRole(o, n) \/ HandleGetLookup(o, n)
    PROVE  /\ GetInv' /\ UNCHANGED <<calmVars, putPc, callee, metadataStore, clientVars>>
<1>1. TypeOK /\ CalmInv /\ GetInv /\ GetOK(o) /\ N \in Node
  BY DEF SteadyInv, GetInv
<1>2. ASSUME NEW p \in GetOp, p # o,
             \A m \in Node : getPc'[<<p, m>>] = getPc[<<p, m>>] /\ answer'[<<p, m>>] = answer[<<p, m>>],
             UNCHANGED clientVars
      PROVE  GetOK(p)'
  BY <1>1, <1>2, GetKept DEF GetInv, clientVars
<1>3. CASE HandleGetRole(o, n)
  <2>1. /\ getPc[<<o, n>>] = "recv" /\ answer' = answer
        /\ getPc' = [getPc EXCEPT ![<<o, n>>] = IF n = N THEN "lookup" ELSE "redirect"]
        /\ UNCHANGED <<calmVars, putPc, callee, metadataStore, clientVars>>
    <3>1. Serves(n) <=> n = N
      BY <1>1, CalmNode DEF Serves
    <3>2. Reply(n, "redirect") = "redirect"
      BY <1>1, CalmNode DEF Reply
    <3> QED
      BY <1>3, <3>1, <3>2 DEF HandleGetRole, calmVars
  <2>2. opState' = opState /\ cursor' = cursor /\ result' = result
    BY <2>1 DEF clientVars
  <2>3. GetOK(o)'
    <3>1. \A k \in Node : getPc'[<<o, k>>] = IF k = n THEN (IF n = N THEN "lookup" ELSE "redirect") ELSE getPc[<<o, k>>]
      BY <1>1, <2>1 DEF TypeOK
    <3>2. 1..(N - 1) \subseteq Node /\ N \notin 1..(N - 1)
      OBVIOUS
    <3>3. CASE n = N
      <4>1. getPc'[<<o, N>>] = "lookup" /\ \A k \in 1..(N - 1) : getPc'[<<o, k>>] = getPc[<<o, k>>]
        BY <1>1, <3>1, <3>2, <3>3
      <4>2. opState[o] = "waiting" /\ cursor[o] = N /\ result[o] = NoMeta
        BY <1>1, <2>1, <3>3 DEF GetOK
      <4> QED
        BY <1>1, <2>1, <2>2, <4>1, <4>2 DEF GetOK
    <3>4. CASE n # N
      <4>1. getPc'[<<o, N>>] = getPc[<<o, N>>]
        BY <1>1, <3>1, <3>4
      <4>2. \A k \in 1..(N - 1) : getPc'[<<o, k>>] \in {"none", "recv", "redirect"}
        BY <1>1, <3>1, <3>2, <3>4 DEF GetOK
      <4> QED
        BY <1>1, <2>1, <2>2, <4>1, <4>2 DEF GetOK
    <3> QED
      BY <3>3, <3>4
  <2>4. ASSUME NEW p \in GetOp, p # o PROVE GetOK(p)'
    BY <1>1, <1>2, <2>1, <2>4 DEF TypeOK
  <2> QED
    BY <2>1, <2>3, <2>4 DEF GetInv
<1>4. CASE HandleGetLookup(o, n)
  <2>1. getPc[<<o, n>>] = "lookup" /\ n = N
    <3>1. getPc[<<o, n>>] = "lookup"
      BY <1>4 DEF HandleGetLookup
    <3>2. n \in 1..(N - 1) => getPc[<<o, n>>] # "lookup"
      BY <1>1 DEF GetOK
    <3> QED
      BY <3>1, <3>2
  <2>2. PICK m \in PutOp \cup {NoMeta} : m = metadataStore[n][Name(o)]
    <3>1. Name(o) \in File
      BY <1>1 DEF Name, TypeOK
    <3> QED
      BY <1>1, <3>1 DEF TypeOK
  <2>3. /\ answer' = [answer EXCEPT ![<<o, N>>] = m]
        /\ getPc' = [getPc EXCEPT ![<<o, N>>] = IF m = NoMeta THEN "notfound" ELSE "found"]
        /\ UNCHANGED <<calmVars, putPc, callee, metadataStore, clientVars>>
    BY <1>1, <1>4, <2>1, <2>2, CalmNode DEF HandleGetLookup, Reply, calmVars
  <2>4. opState' = opState /\ cursor' = cursor /\ result' = result
    BY <2>3 DEF clientVars
  <2>5. GetOK(o)'
    <3>1. opState[o] = "waiting" /\ cursor[o] = N /\ result[o] = NoMeta
      BY <1>1, <2>1 DEF GetOK
    <3>2. /\ answer'[<<o, N>>] = m /\ getPc'[<<o, N>>] = IF m = NoMeta THEN "notfound" ELSE "found"
          /\ \A k \in 1..(N - 1) : getPc'[<<o, k>>] = getPc[<<o, k>>]
      BY <1>1, <2>3 DEF TypeOK
    <3> QED
      BY <1>1, <2>4, <3>1, <3>2 DEF GetOK
  <2>6. ASSUME NEW p \in GetOp, p # o PROVE GetOK(p)'
    BY <1>1, <1>2, <2>3, <2>6 DEF TypeOK
  <2> QED
    BY <2>3, <2>5, <2>6 DEF GetInv
<1> QED
  BY <1>3, <1>4

\* The clients.
LEMMA ClientsStay ==
    ASSUME FailureFree, SteadyInv,
           \/ \E o \in Op : Invoke(o)
           \/ \E o \in PutOp : ClientPut(o)
           \/ \E o \in GetOp : ClientGet(o)
    PROVE  PutInv' /\ GetInv' /\ UNCHANGED <<calmVars, metadataStore, opFile>>
<1>1. TypeOK /\ CalmInv /\ PutInv /\ GetInv /\ N \in Node /\ 1 \in Node
  BY DEF SteadyInv
<1>2. ASSUME NEW o \in Op, Invoke(o) PROVE PutInv' /\ GetInv' /\ UNCHANGED <<calmVars, metadataStore, opFile>>
  <2>1. /\ opState[o] = "idle" /\ opState' = [opState EXCEPT ![o] = "trying"]
        /\ UNCHANGED <<calmVars, threadVars, opFile, cursor, result>>
    BY <1>2 DEF Invoke, calmVars
  <2>2. putPc' = putPc /\ callee' = callee /\ getPc' = getPc /\ answer' = answer /\ cursor' = cursor /\ result' = result
        /\ metadataStore' = metadataStore
    BY <2>1 DEF threadVars
  <2>3. ASSUME NEW p \in PutOp PROVE PutOK(p)'
    <3>1. PutOK(p) /\ opState'[p] = IF p = o THEN "trying" ELSE opState[p]
      BY <1>1, <2>1 DEF PutInv, TypeOK
    <3> QED
      BY <2>1, <2>2, <3>1 DEF PutOK, Chained
  <2>4. ASSUME NEW p \in GetOp PROVE GetOK(p)'
    <3>1. GetOK(p) /\ opState'[p] = IF p = o THEN "trying" ELSE opState[p]
      BY <1>1, <2>1 DEF GetInv, TypeOK
    <3> QED
      BY <2>1, <2>2, <3>1 DEF GetOK
  <2> QED
    BY <2>1, <2>2, <2>3, <2>4 DEF PutInv, GetInv
<1>3. ASSUME NEW o \in PutOp, ClientPut(o) PROVE PutInv' /\ GetInv' /\ UNCHANGED <<calmVars, metadataStore, opFile>>
  <2>1. PutOK(o) /\ cursor[o] = 1 /\ o \notin GetOp
    BY <1>1 DEF PutInv, PutOK
  <2>2. ~PutFailedHere(o)
    BY <1>1, <2>1, CalmNode DEF PutFailedHere, Refused, PutOK
  <2>3. UNCHANGED <<calmVars, metadataStore, opFile, cursor, callee, getPc, answer, result>>
    BY <1>3, <2>2 DEF ClientPut, PutMetadataToNode, PutAcked, threadVars, calmVars
  <2>4. /\ \A p \in Op \ {o} : opState'[p] = opState[p]
        /\ \A p \in PutOp \ {o}, e, n \in Node : putPc'[<<p, e, n>>] = putPc[<<p, e, n>>]
    BY <1>1, <1>3, <2>1, <2>2 DEF ClientPut, PutMetadataToNode, PutAcked, threadVars, TypeOK
  <2>5. ASSUME NEW p \in GetOp PROVE GetOK(p)'
    BY <1>1, <2>1, <2>3, <2>4, GetKept DEF GetInv
  <2>6. ASSUME NEW p \in PutOp, p # o PROVE PutOK(p)'
    BY <1>1, <2>3, <2>4, <2>6, PutKept DEF PutInv
  <2>7. PutOK(o)'
    <3>1. CASE PutMetadataToNode(o)
      <4>1. /\ opState[o] = "trying" /\ opState' = [opState EXCEPT ![o] = "waiting"]
            /\ putPc' = [putPc EXCEPT ![<<o, 1, 1>>] = "recv"]
        BY <2>1, <3>1 DEF PutMetadataToNode
      <4>2. \A n \in Node : putPc[<<o, 1, n>>] = "none"
        BY <2>1, <4>1 DEF PutOK, Chained
      <4>3. opState'[o] = "waiting" /\ \A n \in Node : putPc'[<<o, 1, n>>] = IF n = 1 THEN "recv" ELSE "none"
        BY <1>1, <4>1, <4>2 DEF TypeOK
      <4>4. Chained(o)'
        BY <4>3 DEF Chained
      <4>5. \A e, n \in Node : /\ putPc'[<<o, e, n>>] \notin {"error", "closed"}
                               /\ e # 1 => putPc'[<<o, e, n>>] = "none"
        BY <1>1, <2>1, <4>1 DEF TypeOK, PutOK
      <4> QED
        BY <2>1, <2>3, <4>3, <4>4, <4>5 DEF PutOK
    <3>2. CASE PutAcked(o)
      <4>1. putPc[<<o, 1, 1>>] = "ack" /\ opState'[o] = "ok" /\ putPc' = putPc
        BY <1>1, <2>1, <3>2 DEF PutAcked, threadVars, TypeOK
      <4>2. \A n \in Node : putPc[<<o, 1, n>>] = "ack"
        BY <1>1, <2>1, <4>1 DEF PutOK, Chained
      <4>3. Chained(o)'
        BY <2>1, <2>3, <4>1, <4>2 DEF PutOK, Chained
      <4> QED
        BY <2>1, <2>3, <4>1, <4>3 DEF PutOK
    <3> QED
      BY <1>3, <2>2, <3>1, <3>2 DEF ClientPut
  <2> QED
    BY <2>3, <2>5, <2>6, <2>7 DEF PutInv, GetInv
<1>4. ASSUME NEW o \in GetOp, ClientGet(o) PROVE PutInv' /\ GetInv' /\ UNCHANGED <<calmVars, metadataStore, opFile>>
  <2>1. GetOK(o) /\ cursor[o] \in Node /\ o \notin PutOp /\ Up(cursor[o])
    BY <1>1, CalmNode DEF GetInv, TypeOK
  <2>2. UNCHANGED <<calmVars, metadataStore, opFile, callee, putPc, answer>>
    BY <1>4 DEF ClientGet, GetMetadataFromNode, GetFound, GetFailedHere, threadVars, calmVars
  <2>3. /\ \A p \in Op \ {o} : opState'[p] = opState[p] /\ cursor'[p] = cursor[p]
        /\ \A p \in GetOp \ {o} : result'[p] = result[p]
        /\ \A p \in GetOp \ {o}, n \in Node : getPc'[<<p, n>>] = getPc[<<p, n>>]
    BY <1>1, <1>4, <2>1 DEF ClientGet, GetMetadataFromNode, GetFound, GetFailedHere, TryNextNode, threadVars, TypeOK
  <2>4. ASSUME NEW p \in PutOp PROVE PutOK(p)'
    BY <1>1, <2>1, <2>2, <2>3, PutKept DEF PutInv
  <2>5. ASSUME NEW p \in GetOp, p # o PROVE GetOK(p)'
    BY <1>1, <2>2, <2>3, <2>5, GetKept DEF GetInv
  <2>6. GetOK(o)'
    <3>1. CASE GetMetadataFromNode(o)
      <4>1. /\ opState[o] = "trying" /\ opState'[o] = "waiting" /\ cursor' = cursor /\ result' = result
            /\ getPc' = [getPc EXCEPT ![<<o, cursor[o]>>] = "recv"]
        BY <1>1, <3>1 DEF GetMetadataFromNode, TypeOK
      <4>2. \A n \in Node : getPc'[<<o, n>>] = IF n = cursor[o] THEN "recv" ELSE getPc[<<o, n>>]
        BY <1>1, <2>1, <4>1 DEF TypeOK
      <4>3. 1..(N - 1) \subseteq Node /\ N \notin 1..(N - 1)
        OBVIOUS
      <4> QED
        BY <1>1, <2>1, <2>2, <4>1, <4>2, <4>3 DEF GetOK
    <3>2. CASE GetFound(o)
      <4>1. cursor[o] = N
        <5>1. getPc[<<o, cursor[o]>>] = "found"
          BY <3>2 DEF GetFound
        <5>2. cursor[o] \in 1..(N - 1) => getPc[<<o, cursor[o]>>] # "found"
          BY <2>1 DEF GetOK
        <5> QED
          BY <2>1, <5>1, <5>2
      <4>2. /\ getPc[<<o, N>>] = "found" /\ opState'[o] = "ok" /\ result'[o] = answer[<<o, N>>]
            /\ getPc' = getPc /\ cursor' = cursor
        BY <1>1, <3>2, <4>1 DEF GetFound, threadVars, TypeOK
      <4> QED
        BY <2>1, <2>2, <4>1, <4>2 DEF GetOK
    <3>3. CASE GetFailedHere(o)
      <4>1. /\ opState[o] = "waiting" /\ getPc[<<o, cursor[o]>>] \in {"notfound", "redirect", "closed"}
            /\ getPc' = getPc /\ result' = result
        BY <2>1, <3>3 DEF GetFailedHere, threadVars
      <4>2. getPc[<<o, N>>] = "notfound"
        BY <2>1, <4>1 DEF GetOK
      <4>3. \/ opState'[o] = "failed" /\ cursor'[o] = cursor[o]
            \/ opState'[o] = "trying" /\ cursor'[o] = cursor[o] - 1
        BY <1>1, <3>3 DEF GetFailedHere, TryNextNode, TypeOK
      <4>4. cursor'[o] = cursor[o] - 1 => cursor'[o] # N
        BY <2>1
      <4> QED
        BY <2>1, <2>2, <4>1, <4>2, <4>3, <4>4 DEF GetOK
    <3> QED
      BY <1>4, <3>1, <3>2, <3>3 DEF ClientGet
  <2> QED
    BY <2>2, <2>4, <2>5, <2>6 DEF PutInv, GetInv
<1> QED
  BY <1>2, <1>3, <1>4

\* Every step keeps the invariant.
LEMMA SteadyStep == ASSUME FailureFree, SteadyInv, [Next]_vars PROVE SteadyInv'
<1>1. TypeOK /\ LockInv /\ CalmInv /\ PutInv /\ GetInv /\ 1 \in Node
  BY DEF SteadyInv
<1>2. TypeOK' /\ LockInv'
  BY <1>1, TypeStep, LockStep
<1>3. ASSUME UNCHANGED <<calmVars>> PROVE CalmInv'
  BY <1>1, <1>3 DEF CalmInv, calmVars, nodeVars
<1>4. CASE \/ \E o \in Op : Invoke(o)
           \/ \E o \in PutOp : ClientPut(o)
           \/ \E o \in GetOp : ClientGet(o)
  BY <1>2, <1>3, <1>4, ClientsStay DEF SteadyInv
<1>5. ASSUME NEW o \in PutOp, NEW e \in Node, NEW n \in Node, PutThreadStep(o, e, n) PROVE SteadyInv'
  <2>1. PutInv' /\ UNCHANGED <<calmVars, getPc, answer, clientVars>>
    BY <1>5, PutSteps, ThreadsStay
  <2>2. ASSUME NEW p \in GetOp PROVE GetOK(p)'
    BY <1>1, <2>1, GetKept DEF GetInv, clientVars
  <2> QED
    BY <1>2, <1>3, <2>1, <2>2 DEF SteadyInv, GetInv
<1>6. ASSUME NEW o \in GetOp, NEW n \in Node, HandleGetRole(o, n) \/ HandleGetLookup(o, n) PROVE SteadyInv'
  <2>1. GetInv' /\ UNCHANGED <<calmVars, putPc, callee, metadataStore, clientVars>>
    BY <1>6, LookupsStay
  <2>2. ASSUME NEW p \in PutOp PROVE PutOK(p)'
    BY <1>1, <2>1, PutKept DEF PutInv, clientVars
  <2> QED
    BY <1>2, <1>3, <2>1, <2>2 DEF SteadyInv, PutInv
<1>7. CASE UNCHANGED vars
  <2>1. UNCHANGED <<calmVars, threadVars, clientVars>>
    BY <1>7 DEF vars, calmVars
  <2>2. ASSUME NEW p \in PutOp PROVE PutOK(p)'
    BY <1>1, <2>1, PutKept DEF PutInv, clientVars, threadVars
  <2>3. ASSUME NEW p \in GetOp PROVE GetOK(p)'
    BY <1>1, <2>1, GetKept DEF GetInv, clientVars, threadVars
  <2> QED
    BY <1>2, <1>3, <2>1, <2>2, <2>3 DEF SteadyInv, PutInv, GetInv
<1> QED
  BY <1>1, <1>4, <1>5, <1>6, <1>7, NodesAreCalm DEF Next

-----------------------------------------------------------------------------
(* Every step is one of the register, seen through the last node.          *)

\* A call has taken effect.
Reached(o) ==
    IF o \in PutOp THEN putPc[<<o, 1, N>>] \notin {"none", "recv"}
    ELSE getPc[<<o, N>>] \in {"found", "notfound"}

Phase(o) ==
    IF opState[o] = "idle" THEN "idle"
    ELSE IF opState[o] \in Returned THEN "done"
    ELSE IF Reached(o) THEN "effected" ELSE "pending"

Observed(o) == IF opState[o] \in Returned THEN result[o] ELSE answer[<<o, N>>]

\* The mapping of ChainRefinement, one call at a time.
LEMMA PhaseBar == phaseBar = [o \in Op |-> Phase(o)]
BY DEF phaseBar, Phase, Reached, Returned

\* The same after a step.
LEMMA PhaseBarNext == phaseBar' = [o \in Op |-> Phase(o)']
BY DEF phaseBar, Phase, Reached, Returned

\* What the mapping makes of the answers, before a step and after it.
LEMMA ObservedBar == observedBar = [o \in GetOp |-> Observed(o)] /\ observedBar' = [o \in GetOp |-> Observed(o)']
BY DEF observedBar, Observed

\* A step that changes neither the store of the last node nor what the calls look like.
LEMMA RegisterStutters ==
    ASSUME metadataStore'[N] = metadataStore[N], opFile' = opFile,
           \A o \in Op : Phase(o)' = Phase(o), \A o \in GetOp : Observed(o)' = Observed(o)
    PROVE  UNCHANGED Register!vars
<1>1. regBar' = regBar
  BY DEF regBar
<1>2. phaseBar' = phaseBar
  BY PhaseBar, PhaseBarNext
<1>3. observedBar' = observedBar
  BY ObservedBar
<1> QED
  BY <1>1, <1>2, <1>3 DEF Register!vars, Name

\* A step that moves one call on.
LEMMA PhaseMoves ==
    ASSUME NEW o \in Op, NEW from, NEW to, Phase(o) = from, Phase(o)' = to,
           \A p \in Op \ {o} : Phase(p)' = Phase(p)
    PROVE  Register!Step(o, from, to)
<1>1. phaseBar[o] = from
  BY PhaseBar
<1>2. phaseBar' = [phaseBar EXCEPT ![o] = to]
  BY PhaseBar, PhaseBarNext
<1> QED
  BY <1>1, <1>2 DEF Register!Step

\* A call that begins or returns.
LEMMA CallMoves ==
    ASSUME NEW o \in Op, \/ Phase(o) = "idle" /\ Phase(o)' = "pending"
                         \/ Phase(o) = "effected" /\ Phase(o)' = "done",
           metadataStore'[N] = metadataStore[N], opFile' = opFile,
           \A p \in Op \ {o} : Phase(p)' = Phase(p), \A p \in GetOp : Observed(p)' = Observed(p)
    PROVE  Register!Next
<1>1. regBar' = regBar
  BY DEF regBar
<1>2. observedBar' = observedBar
  BY ObservedBar
<1>3. [p \in Op |-> Name(p)]' = [p \in Op |-> Name(p)]
  BY DEF Name
<1>4. Register!Begin(o) \/ Register!Return(o)
  BY <1>1, <1>2, <1>3, PhaseMoves DEF Register!Begin, Register!Return
<1> QED
  BY <1>4 DEF Register!Next, Register!Op

\* What a step leaves of the calls it is not about.
LEMMA OtherPhase ==
    ASSUME NEW p \in Op, opState'[p] = opState[p],
           p \in PutOp => putPc'[<<p, 1, N>>] = putPc[<<p, 1, N>>],
           p \notin PutOp => getPc'[<<p, N>>] = getPc[<<p, N>>]
    PROVE  Phase(p)' = Phase(p)
BY DEF Phase, Reached

\* A call begins and returns in the register when it does in the chain.
LEMMA ClientMaps ==
    ASSUME FailureFree, SteadyInv, SteadyInv',
           \/ \E o \in Op : Invoke(o)
           \/ \E o \in PutOp : ClientPut(o)
           \/ \E o \in GetOp : ClientGet(o)
    PROVE  [Register!Next]_(Register!vars)
<1>1. TypeOK /\ CalmInv /\ PutInv /\ GetInv /\ PutInv' /\ GetInv' /\ N \in Node /\ 1 \in Node
  BY DEF SteadyInv
<1>2. metadataStore'[N] = metadataStore[N] /\ opFile' = opFile
  BY ClientsStay
<1>3. ASSUME NEW o \in Op, Invoke(o) PROVE Register!Next
  <2>1. /\ opState[o] = "idle" /\ opState' = [opState EXCEPT ![o] = "trying"]
        /\ putPc' = putPc /\ getPc' = getPc /\ answer' = answer /\ result' = result
    BY <1>3 DEF Invoke, threadVars
  <2>2. opState'[o] = "trying" /\ \A p \in Op \ {o} : opState'[p] = opState[p]
    BY <1>1, <2>1 DEF TypeOK
  <2>3. \A p \in Op \ {o} : Phase(p)' = Phase(p)
    BY <2>1, <2>2, OtherPhase
  <2>4. ~Reached(o)'
    <3>1. CASE o \in PutOp
      BY <1>1, <2>2, <3>1 DEF Reached, PutInv, PutOK, Chained
    <3>2. CASE o \notin PutOp
      <4>1. getPc[<<o, N>>] = "none"
        BY <1>1, <2>1, <3>2 DEF GetInv, GetOK
      <4> QED
        BY <2>1, <3>2, <4>1 DEF Reached
    <3> QED
      BY <3>1, <3>2
  <2>5. Phase(o) = "idle" /\ Phase(o)' = "pending"
    BY <2>1, <2>2, <2>4 DEF Phase, Returned
  <2>6. \A p \in GetOp : Observed(p)' = Observed(p)
    BY <2>1, <2>2 DEF Observed, Returned
  <2> QED
    BY <1>2, <2>3, <2>5, <2>6, CallMoves
<1>4. ASSUME NEW o \in PutOp, ClientPut(o) PROVE [Register!Next]_(Register!vars)
  <2>1. PutOK(o) /\ cursor[o] = 1 /\ o \notin GetOp
    BY <1>1 DEF PutInv, PutOK
  <2>2. ~PutFailedHere(o)
    BY <1>1, <2>1, CalmNode DEF PutFailedHere, Refused, PutOK
  <2>3. getPc' = getPc /\ answer' = answer /\ result' = result
    BY <1>4, <2>2 DEF ClientPut, PutMetadataToNode, PutAcked, threadVars
  <2>4. \A p \in Op \ {o} : opState'[p] = opState[p] /\ (p \in PutOp => putPc'[<<p, 1, N>>] = putPc[<<p, 1, N>>])
    BY <1>1, <1>4, <2>1, <2>2 DEF ClientPut, PutMetadataToNode, PutAcked, threadVars, TypeOK
  <2>5. \A p \in Op \ {o} : Phase(p)' = Phase(p)
    BY <2>3, <2>4, OtherPhase
  <2>6. \A p \in GetOp : Observed(p)' = Observed(p)
    BY <2>1, <2>3, <2>4 DEF Observed
  <2>7. CASE PutMetadataToNode(o)
    <3>1. /\ opState[o] = "trying" /\ opState'[o] = "waiting"
          /\ putPc' = [putPc EXCEPT ![<<o, 1, 1>>] = "recv"]
      BY <1>1, <2>1, <2>7 DEF PutMetadataToNode, TypeOK
    <3>2. putPc[<<o, 1, N>>] = "none" /\ putPc'[<<o, 1, N>>] \in {"none", "recv"}
      BY <1>1, <2>1, <3>1 DEF PutOK, Chained, TypeOK
    <3>3. Phase(o)' = Phase(o)
      BY <3>1, <3>2 DEF Phase, Reached, Returned
    <3> QED
      BY <1>2, <2>5, <2>6, <3>3, RegisterStutters
  <2>8. CASE PutAcked(o)
    <3>1. opState[o] = "waiting" /\ opState'[o] = "ok" /\ putPc' = putPc
      BY <1>1, <2>8 DEF PutAcked, threadVars, TypeOK
    <3>2. putPc[<<o, 1, N>>] = "ack"
      BY <1>1, <3>1 DEF PutInv, PutOK, Chained
    <3>3. Phase(o) = "effected" /\ Phase(o)' = "done"
      BY <3>1, <3>2 DEF Phase, Reached, Returned
    <3> QED
      BY <1>2, <2>5, <2>6, <3>3, CallMoves
  <2> QED
    BY <1>4, <2>2, <2>7, <2>8 DEF ClientPut
<1>5. ASSUME NEW o \in GetOp, ClientGet(o) PROVE [Register!Next]_(Register!vars)
  <2>1. GetOK(o) /\ GetOK(o)' /\ cursor[o] \in Node /\ o \notin PutOp /\ Up(cursor[o])
    BY <1>1, CalmNode DEF GetInv, TypeOK
  <2>2. putPc' = putPc /\ answer' = answer
    BY <1>5 DEF ClientGet, GetMetadataFromNode, GetFound, GetFailedHere, threadVars
  <2>3. /\ \A p \in Op \ {o} : opState'[p] = opState[p]
        /\ \A p \in GetOp \ {o} : result'[p] = result[p] /\ getPc'[<<p, N>>] = getPc[<<p, N>>]
    BY <1>1, <1>5, <2>1 DEF ClientGet, GetMetadataFromNode, GetFound, GetFailedHere, TryNextNode, threadVars, TypeOK
  <2>4. \A p \in Op \ {o} : Phase(p)' = Phase(p)
    BY <2>2, <2>3, OtherPhase
  <2>5. \A p \in GetOp \ {o} : Observed(p)' = Observed(p)
    BY <2>2, <2>3 DEF Observed
  <2>6. CASE GetMetadataFromNode(o)
    <3>1. /\ opState[o] = "trying" /\ opState'[o] = "waiting" /\ cursor' = cursor
          /\ getPc' = [getPc EXCEPT ![<<o, cursor[o]>>] = "recv"]
      BY <1>1, <2>6 DEF GetMetadataFromNode, TypeOK
    <3>2. Reached(o)' = Reached(o)
      <4>1. CASE cursor[o] = N
        BY <1>1, <2>1, <3>1, <4>1 DEF Reached, GetOK, TypeOK
      <4>2. CASE cursor[o] # N
        <5>1. getPc'[<<o, N>>] = getPc[<<o, N>>]
          BY <1>1, <2>1, <3>1, <4>2 DEF TypeOK
        <5> QED
          BY <2>1, <5>1 DEF Reached
      <4> QED
        BY <4>1, <4>2
    <3>3. Phase(o)' = Phase(o) /\ Observed(o)' = Observed(o)
      BY <2>2, <3>1, <3>2 DEF Phase, Observed, Returned
    <3> QED
      BY <1>2, <2>4, <2>5, <3>3, RegisterStutters
  <2>7. CASE GetFound(o)
    <3>1. opState[o] = "waiting" /\ opState'[o] = "ok" /\ getPc' = getPc
      BY <1>1, <2>7 DEF GetFound, threadVars, TypeOK
    <3>2. getPc[<<o, N>>] = "found" /\ result'[o] = answer[<<o, N>>]
      BY <2>1, <2>2, <3>1 DEF GetOK
    <3>3. Phase(o) = "effected" /\ Phase(o)' = "done" /\ Observed(o)' = Observed(o)
      BY <2>1, <3>1, <3>2 DEF Phase, Reached, Returned, Observed
    <3> QED
      BY <1>2, <2>4, <2>5, <3>3, CallMoves
  <2>8. CASE GetFailedHere(o)
    <3>1. /\ opState[o] = "waiting" /\ getPc[<<o, cursor[o]>>] \in {"notfound", "redirect", "closed"}
          /\ getPc' = getPc /\ result' = result
      BY <2>1, <2>8 DEF GetFailedHere, threadVars
    <3>2. getPc[<<o, N>>] = "notfound" /\ answer[<<o, N>>] = NoMeta /\ result[o] = NoMeta
      BY <2>1, <3>1 DEF GetOK
    <3>3. opState'[o] \in {"failed", "trying"}
      BY <1>1, <2>8 DEF GetFailedHere, TryNextNode, TypeOK
    <3>4. Observed(o)' = Observed(o) /\ Phase(o) = "effected" /\ Phase(o)' \in {"done", "effected"}
      BY <2>1, <2>2, <3>1, <3>2, <3>3 DEF Observed, Phase, Reached, Returned
    <3> QED
      BY <1>2, <2>4, <2>5, <3>4, CallMoves, RegisterStutters
  <2> QED
    BY <1>5, <2>6, <2>7, <2>8 DEF ClientGet
<1> QED
  BY <1>3, <1>4, <1>5

\* An upload takes effect when the last node stores it; its other steps are stutters.
LEMMA PutMaps ==
    ASSUME FailureFree, SteadyInv, NEW o \in PutOp, NEW n \in Node,
           HandlePutStore(o, 1, n) \/ HandlePutDecide(o, 1, n) \/ ForwardPut(o, 1, n) \/ ForwardPutAcked(o, 1, n)
    PROVE  [Register!Next]_(Register!vars)
<1>1. TypeOK /\ CalmInv /\ PutInv /\ PutOK(o) /\ N \in Node /\ 1 \in Node /\ o \notin GetOp
  BY DEF SteadyInv, PutInv
<1>2. UNCHANGED <<getPc, answer, clientVars>>
  BY ThreadsStay
<1>3. opState' = opState /\ opFile' = opFile /\ result' = result /\ getPc' = getPc /\ answer' = answer
  BY <1>2 DEF clientVars
<1>4. \A p \in PutOp \ {o} : putPc'[<<p, 1, N>>] = putPc[<<p, 1, N>>]
  BY <1>1 DEF HandlePutStore, HandlePutDecide, ForwardPut, ForwardPutAcked, PutReply, TypeOK
<1>5. \A p \in Op \ {o} : Phase(p)' = Phase(p)
  BY <1>3, <1>4, OtherPhase
<1>6. \A p \in GetOp : Observed(p)' = Observed(p)
  BY <1>3 DEF Observed
<1>7. CASE HandlePutStore(o, 1, n) /\ n = N
  <2>1. /\ putPc[<<o, 1, N>>] = "recv" /\ putPc'[<<o, 1, N>>] = "stored"
        /\ metadataStore' = [metadataStore EXCEPT ![N] = [metadataStore[N] EXCEPT ![Name(o)] = o]]
    BY <1>1, <1>7 DEF HandlePutStore, Assigned, TypeOK
  <2>2. opState[o] = "waiting"
    <3>1. opState[o] \in {"idle", "trying", "waiting", "ok"}
      BY <1>1 DEF TypeOK, PutOK, Returned
    <3> QED
      BY <1>1, <2>1, <3>1 DEF PutOK, Chained
  <2>3. Phase(o) = "pending" /\ Phase(o)' = "effected"
    BY <1>3, <2>1, <2>2 DEF Phase, Reached, Returned
  <2>4. regBar' = [regBar EXCEPT ![Name(o)] = o]
    BY <1>1, <2>1 DEF regBar, TypeOK
  <2>5. observedBar' = observedBar
    BY <1>6, ObservedBar
  <2>6. [p \in Op |-> Name(p)]' = [p \in Op |-> Name(p)]
    BY <1>3 DEF Name
  <2>7. Register!Step(o, "pending", "effected")
    BY <1>5, <2>3, PhaseMoves
  <2>8. Register!Write(o)
    BY <2>4, <2>5, <2>6, <2>7 DEF Register!Write
  <2> QED
    BY <2>8 DEF Register!Next
<1>8. CASE ~(HandlePutStore(o, 1, n) /\ n = N)
  <2>1. metadataStore'[N] = metadataStore[N]
    BY <1>1, <1>8 DEF HandlePutStore, HandlePutDecide, ForwardPut, ForwardPutAcked, PutReply, TypeOK
  <2>2. Reached(o)' = Reached(o)
    <3>1. CASE HandlePutStore(o, 1, n)
      <4>1. putPc'[<<o, 1, N>>] = putPc[<<o, 1, N>>]
        BY <1>1, <1>8, <3>1 DEF HandlePutStore, TypeOK
      <4> QED
        BY <4>1 DEF Reached
    <3>2. CASE HandlePutDecide(o, 1, n)
      <4>1. putPc[<<o, 1, n>>] = "stored"
        BY <3>2 DEF HandlePutDecide
      <4>2. putPc' = [putPc EXCEPT ![<<o, 1, n>>] = "forward"] \/ PutReply(o, 1, n, "ack")
        BY <3>2 DEF HandlePutDecide
      <4>3. \E r \in {"forward", "ack"} : putPc' = [putPc EXCEPT ![<<o, 1, n>>] = r]
        BY <1>1, <4>2, RepliesArrive
      <4> QED
        BY <1>1, <4>1, <4>3 DEF Reached, TypeOK
    <3>3. CASE ForwardPut(o, 1, n)
      <4>1. putPc[<<o, 1, n>>] = "forward"
        BY <3>3 DEF ForwardPut
      <4>2. n < N /\ \A m \in n + 1..N : putPc[<<o, 1, m>>] = "none"
        BY <1>1, <4>1 DEF PutOK, Chained
      <4>3. putPc' = [putPc EXCEPT ![<<o, 1, n>>] = "waiting", ![<<o, 1, n + 1>>] = "recv"]
        BY <1>1, <3>3, <4>2, CalmNode DEF ForwardPut
      <4>4. putPc[<<o, 1, N>>] = "none" /\ putPc'[<<o, 1, N>>] \in {"none", "recv"}
        BY <1>1, <4>2, <4>3 DEF TypeOK
      <4> QED
        BY <4>4 DEF Reached
    <3>4. CASE ForwardPutAcked(o, 1, n)
      <4>1. putPc[<<o, 1, n>>] = "waiting" /\ PutReply(o, 1, n, "ack")
        BY <3>4 DEF ForwardPutAcked
      <4>2. putPc' = [putPc EXCEPT ![<<o, 1, n>>] = "ack"]
        BY <1>1, <4>1, RepliesArrive
      <4> QED
        BY <1>1, <4>1, <4>2 DEF Reached, TypeOK
    <3> QED
      BY <3>1, <3>2, <3>3, <3>4
  <2>3. Phase(o)' = Phase(o)
    BY <1>3, <2>2 DEF Phase
  <2> QED
    BY <1>3, <1>5, <1>6, <2>1, <2>3, RegisterStutters
<1> QED
  BY <1>7, <1>8

\* A download takes effect when the last node looks it up; its other steps are stutters.
LEMMA GetMaps ==
    ASSUME FailureFree, SteadyInv, NEW o \in GetOp, NEW n \in Node, HandleGetRole(o, n) \/ HandleGetLookup(o, n)
    PROVE  [Register!Next]_(Register!vars)
<1>1. TypeOK /\ CalmInv /\ GetOK(o) /\ N \in Node /\ o \notin PutOp
  BY DEF SteadyInv, GetInv
<1>2. UNCHANGED <<putPc, metadataStore, clientVars>>
  BY LookupsStay
<1>3. opState' = opState /\ opFile' = opFile /\ result' = result /\ putPc' = putPc /\ metadataStore' = metadataStore
  BY <1>2 DEF clientVars
<1>4. \A p \in GetOp \ {o} : getPc'[<<p, N>>] = getPc[<<p, N>>] /\ answer'[<<p, N>>] = answer[<<p, N>>]
  BY <1>1 DEF HandleGetRole, HandleGetLookup, TypeOK
<1>5. \A p \in Op \ {o} : Phase(p)' = Phase(p)
  BY <1>3, <1>4, OtherPhase
<1>6. \A p \in GetOp \ {o} : Observed(p)' = Observed(p)
  BY <1>3, <1>4 DEF Observed
<1>7. CASE HandleGetRole(o, n)
  <2>1. /\ getPc[<<o, n>>] = "recv" /\ answer' = answer
        /\ getPc' = [getPc EXCEPT ![<<o, n>>] = IF Serves(n) THEN "lookup" ELSE "redirect"]
    <3>1. Reply(n, "redirect") = "redirect"
      BY <1>1, CalmNode DEF Reply
    <3> QED
      BY <1>7, <3>1 DEF HandleGetRole
  <2>2. Reached(o)' = Reached(o)
    <3>1. getPc'[<<o, N>>] = getPc[<<o, N>>] \/ (n = N /\ getPc'[<<o, N>>] \in {"lookup", "redirect"})
      BY <1>1, <2>1 DEF TypeOK
    <3> QED
      BY <1>1, <2>1, <3>1 DEF Reached
  <2>3. Phase(o)' = Phase(o) /\ Observed(o)' = Observed(o)
    BY <1>3, <2>1, <2>2 DEF Phase, Observed
  <2> QED
    BY <1>3, <1>5, <1>6, <2>3, RegisterStutters
<1>8. CASE HandleGetLookup(o, n)
  <2>1. getPc[<<o, n>>] = "lookup" /\ n = N
    <3>1. getPc[<<o, n>>] = "lookup"
      BY <1>8 DEF HandleGetLookup
    <3>2. n \in 1..(N - 1) => getPc[<<o, n>>] # "lookup"
      BY <1>1 DEF GetOK
    <3> QED
      BY <3>1, <3>2
  <2>2. /\ answer'[<<o, N>>] = metadataStore[N][Name(o)]
        /\ getPc'[<<o, N>>] \in {"found", "notfound"}
    BY <1>1, <1>8, <2>1, CalmNode DEF HandleGetLookup, Reply, TypeOK
  <2>3. opState[o] = "waiting"
    BY <1>1, <2>1 DEF GetOK
  <2>4. Phase(o) = "pending" /\ Phase(o)' = "effected" /\ Observed(o)' = metadataStore[N][Name(o)]
    BY <1>1, <1>3, <2>1, <2>2, <2>3 DEF Phase, Reached, Returned, Observed
  <2>5. observedBar' = [observedBar EXCEPT ![o] = regBar[Name(o)]]
    BY <1>6, <2>4, ObservedBar DEF regBar
  <2>6. [p \in Op |-> Name(p)]' = [p \in Op |-> Name(p)] /\ regBar' = regBar
    BY <1>3 DEF Name, regBar
  <2>7. Register!Step(o, "pending", "effected")
    BY <1>5, <2>4, PhaseMoves
  <2>8. Register!Read(o)
    BY <2>5, <2>6, <2>7 DEF Register!Read
  <2> QED
    BY <2>8 DEF Register!Next
<1> QED
  BY <1>7, <1>8

\* Every step of the chain is one of the register, or a stutter.
LEMMA RegisterStep ==
    ASSUME FailureFree, SteadyInv, SteadyInv', [Next]_vars
    PROVE  [Register!Next]_(Register!vars)
<1>1. TypeOK /\ CalmInv
  BY DEF SteadyInv
<1>2. CASE UNCHANGED vars
  <2>1. UNCHANGED <<metadataStore, opFile, opState, putPc, getPc, answer, result>>
    BY <1>2 DEF vars, threadVars, clientVars
  <2>2. (\A o \in Op : Phase(o)' = Phase(o)) /\ \A o \in GetOp : Observed(o)' = Observed(o)
    BY <2>1 DEF Phase, Reached, Observed
  <2> QED
    BY <2>1, <2>2, RegisterStutters
<1>3. ASSUME NEW o \in PutOp, NEW e \in Node, NEW n \in Node, PutThreadStep(o, e, n)
      PROVE  [Register!Next]_(Register!vars)
  BY <1>3, PutSteps, PutMaps
<1>4. ASSUME NEW o \in GetOp, NEW n \in Node, HandleGetRole(o, n) \/ HandleGetLookup(o, n)
      PROVE  [Register!Next]_(Register!vars)
  BY <1>4, GetMaps
<1> QED
  BY <1>1, <1>2, <1>3, <1>4, ClientMaps, NodesAreCalm DEF Next

\* While nothing fails the chain is a linearizable map of metadata records (README:
\* linearizable consistency for metadata; handlePut, forwardPut, handleGet, uploadFile,
\* downloadFile), for chains of any length and any number of concurrent calls: every
\* behaviour, seen through the last node, is one of MetadataRegister.
THEOREM ChainIsLinearizable == ASSUME FailureFree PROVE Spec => RefinesRegister
<1>1. Init => SteadyInv
  BY InitSteady
<1>2. SteadyInv /\ [Next]_vars => SteadyInv'
  BY SteadyStep
<1>3. Init => Register!Init
  <2> SUFFICES ASSUME Init PROVE Register!Init
    OBVIOUS
  <2>1. N \in Node /\ SteadyInv
    BY InitSteady
  <2>2. regBar = [f \in File |-> NoMeta]
    BY <2>1 DEF Init, regBar
  <2>3. phaseBar = [o \in Op |-> "idle"]
    BY PhaseBar DEF Init, Phase
  <2>4. observedBar = [o \in GetOp |-> NoMeta]
    BY <2>1 DEF observedBar, Init, Returned
  <2>5. [o \in Op |-> Name(o)] \in [Op -> File]
    BY <2>1 DEF SteadyInv, TypeOK, Name
  <2> QED
    BY <2>2, <2>3, <2>4, <2>5 DEF Register!Init, Register!Op
<1>4. SteadyInv /\ SteadyInv' /\ [Next]_vars => [Register!Next]_(Register!vars)
  BY RegisterStep
<1> QED
  BY <1>1, <1>2, <1>3, <1>4, PTL DEF Spec, RefinesRegister, Register!Spec
-----------------------------------------------------------------------------
(* The chain the processes configure: loadConfig and main of the metadata  *)
(* node.                                                                   *)

\* A set of naturals that is not empty has a least element.
LEMMA LeastNat ==
    ASSUME NEW T \in SUBSET Nat, NEW y \in T
    PROVE  \E x \in T : \A z \in T : x <= z
<1> DEFINE R == {ss \in Nat \X Nat : ss[1] < ss[2]}
<1>1. IsWellFoundedOn(R, Nat)
  BY NatLessThanWellFounded DEF OpToRel
<1>2. \E x \in T : \A z \in T : ~(<<z, x>> \in R)
  <2> HIDE DEF R
  <2> QED
    BY <1>1, WFMin
<1>3. PICK x \in T : \A z \in T : ~(<<z, x>> \in R)
  BY <1>2
<1>4. ASSUME NEW z \in T PROVE x <= z
  <2>1. z \in Nat /\ x \in Nat
    OBVIOUS
  <2>2. z < x => <<z, x>> \in R
    BY <2>1
  <2> QED
    BY <1>3, <2>1, <2>2
<1> QED
  BY <1>4

\* pos says which place of s the elements of r come from: each place of P once, and no other.
Places(pos, r, s, P) ==
    /\ pos \in [1..Len(r) -> P]
    /\ \A k, l \in 1..Len(r) : pos[k] = pos[l] => k = l
    /\ \A j \in P : \E k \in 1..Len(r) : pos[k] = j
    /\ \A k \in 1..Len(r) : r[k] = s[pos[k]]

KeepsOf(r, s, P, V) == r \in Seq(V) /\ \E pos : Places(pos, r, s, P)

\* One turn of the loop.
KeepStep(r, s, S, i) == IF i \in S THEN Append(r, s[i]) ELSE r

LEMMA KeepsOneMore ==
    ASSUME NEW V, NEW s \in Seq(V), NEW S, NEW i \in 1..Len(s), NEW r,
           KeepsOf(r, s, S \cap (1..(i - 1)), V)
    PROVE  KeepsOf(KeepStep(r, s, S, i), s, S \cap (1..i), V)
<1> DEFINE P == S \cap (1..(i - 1))
           Q == S \cap (1..i)
           n == Len(r)
<1>1. r \in Seq(V) /\ n \in Nat
  BY DEF KeepsOf
<1>2. PICK pos : Places(pos, r, s, P)
  BY DEF KeepsOf
<1>3. CASE i \notin S
  <2>1. Q = P
    BY <1>3
  <2> QED
    BY <1>1, <1>2, <1>3, <2>1 DEF KeepsOf, KeepStep
<1>4. CASE i \in S
  <2> DEFINE t == Append(r, s[i])
             new == [k \in 1..(n + 1) |-> IF k = n + 1 THEN i ELSE pos[k]]
  <2>1. P \subseteq Q /\ i \in Q /\ i \notin P /\ \A j \in Q : j \in P \/ j = i
    BY <1>4
  <2>2. s[i] \in V
    OBVIOUS
  <2>3. t \in Seq(V) /\ Len(t) = n + 1 /\ t[n + 1] = s[i] /\ \A k \in 1..n : t[k] = r[k]
    BY <1>1, <2>2
  <2>4. \A k \in 1..(n + 1) : k = n + 1 \/ (k \in 1..n /\ k # n + 1)
    BY <1>1
  <2>5. \A k \in 1..n : k \in 1..(n + 1) /\ k # n + 1
    BY <1>1
  <2>6. n + 1 \in 1..(n + 1)
    BY <1>1
  <2> HIDE DEF t, P, Q, n
  <2>7. /\ pos \in [1..n -> P] /\ \A k, l \in 1..n : pos[k] = pos[l] => k = l
        /\ \A j \in P : \E k \in 1..n : pos[k] = j
        /\ \A k \in 1..n : r[k] = s[pos[k]]
    BY <1>2 DEF Places, n
  <2>8. new[n + 1] = i /\ \A k \in 1..n : new[k] = pos[k] /\ pos[k] \in P
    BY <2>5, <2>6, <2>7
  <2>9. new \in [1..(n + 1) -> Q]
    BY <2>1, <2>4, <2>7
  <2> HIDE DEF new
  <2>10. \A k, l \in 1..(n + 1) : new[k] = new[l] => k = l
    BY <2>1, <2>4, <2>7, <2>8
  <2>11. \A j \in Q : \E k \in 1..(n + 1) : new[k] = j
    BY <2>1, <2>5, <2>6, <2>7, <2>8
  <2>12. \A k \in 1..(n + 1) : t[k] = s[new[k]]
    BY <2>3, <2>4, <2>7, <2>8
  <2>13. Places(new, t, s, Q)
    BY <2>3, <2>9, <2>10, <2>11, <2>12 DEF Places
  <2>14. KeepStep(r, s, S, i) = t
    BY <1>4 DEF KeepStep, t
  <2> QED
    BY <2>3, <2>13, <2>14 DEF KeepsOf, Q
<1> QED
  BY <1>3, <1>4

\* The loop over s, so far.
IsLoop(f, s, S, n, V) ==
    /\ f \in [0..n -> Seq(V)] /\ f[0] = <<>>
    /\ \A i \in 1..n : f[i] = KeepStep(f[i - 1], s, S, i)

LEMMA LoopExists ==
    ASSUME NEW V, NEW s \in Seq(V), NEW S, NEW n \in 0..Len(s)
    PROVE  \E f : IsLoop(f, s, S, n, V)
<1> DEFINE T == {k \in 0..Len(s) : ~\E f : IsLoop(f, s, S, k, V)}
<1> SUFFICES ASSUME NEW y \in T PROVE FALSE
  OBVIOUS
<1>1. T \in SUBSET Nat
  OBVIOUS
<1>2. PICK k \in T : \A z \in T : k <= z
  <2> HIDE DEF T
  <2> QED
    BY <1>1, LeastNat
<1>3. k \in 0..Len(s) /\ k \in Nat /\ ~\E f : IsLoop(f, s, S, k, V)
  OBVIOUS
<1>4. CASE k = 0
  <2> DEFINE f == [i \in 0..k |-> <<>>]
  <2>1. <<>> \in Seq(V)
    OBVIOUS
  <2>2. IsLoop(f, s, S, k, V)
    BY <1>4, <2>1 DEF IsLoop
  <2> QED
    BY <1>3, <2>2
<1>5. CASE k # 0
  <2>1. k - 1 \in 0..Len(s) /\ ~(k <= k - 1) /\ k \in 1..Len(s) /\ k - 1 \in 0..(k - 1)
    BY <1>3, <1>5
  <2>2. k - 1 \notin T
    <3> HIDE DEF T
    <3> QED
      BY <1>2, <2>1
  <2>3. PICK g : IsLoop(g, s, S, k - 1, V)
    BY <2>1, <2>2
  <2> DEFINE last == KeepStep(g[k - 1], s, S, k)
             f == [i \in 0..k |-> IF i = k THEN last ELSE g[i]]
  <2>4. \A i \in 0..k : i = k \/ i \in 0..(k - 1)
    BY <1>3
  <2>5. last \in Seq(V)
    <3>1. g[k - 1] \in Seq(V) /\ s[k] \in V
      BY <2>1, <2>3 DEF IsLoop
    <3> QED
      BY <3>1 DEF KeepStep
  <2> HIDE DEF last
  <2>6. f \in [0..k -> Seq(V)]
    BY <2>3, <2>4, <2>5 DEF IsLoop
  <2>7. f[0] = <<>>
    BY <1>3, <1>5, <2>3 DEF IsLoop
  <2>8. ASSUME NEW i \in 1..k PROVE f[i] = KeepStep(f[i - 1], s, S, i)
    <3>1. i \in 0..k /\ i - 1 \in 0..k /\ i - 1 # k
      BY <1>3
    <3>2. f[i - 1] = g[i - 1]
      BY <3>1
    <3>3. CASE i = k
      BY <3>1, <3>2, <3>3 DEF last
    <3>4. CASE i # k
      <4>1. i \in 1..(k - 1) /\ f[i] = g[i]
        BY <1>3, <3>1, <3>4
      <4> QED
        BY <2>3, <3>2, <4>1 DEF IsLoop
    <3> QED
      BY <3>3, <3>4
  <2> HIDE DEF f
  <2>9. IsLoop(f, s, S, k, V)
    BY <2>6, <2>7, <2>8 DEF IsLoop
  <2> QED
    BY <1>3, <2>9
<1> QED
  BY <1>4, <1>5

\* What the loop keeps: exactly the elements at the places of S.
LEMMA KeptElements ==
    ASSUME NEW V, NEW s \in Seq(V), NEW S \in SUBSET (1..Len(s))
    PROVE  KeepsOf(Kept(s, S), s, S, V)
<1> DEFINE n == Len(s)
           Turn(f, i) == IF i = 0 THEN <<>>
                         ELSE IF i \in S THEN Append(f[i - 1], s[i]) ELSE f[i - 1]
           F(f) == [i \in 0..n |-> Turn(f, i)]
           c == CHOOSE f : f = F(f)
           C(i) == S \cap (1..i)
<1>1. n \in Nat /\ n \in 0..n
  OBVIOUS
<1>2. Kept(s, S) = c[n]
  BY DEF Kept
<1>3. \E f : f = F(f)
  <2>1. PICK f : IsLoop(f, s, S, n, V)
    BY <1>1, LoopExists
  <2>2. f = [i \in 0..n |-> f[i]]
    BY <2>1 DEF IsLoop
  <2>3. ASSUME NEW i \in 0..n
        PROVE  f[i] = Turn(f, i)
    <3>1. CASE i = 0
      BY <2>1, <3>1 DEF IsLoop
    <3>2. CASE i # 0
      <4>1. i \in 1..n
        BY <1>1, <3>2
      <4> QED
        BY <2>1, <3>2, <4>1 DEF IsLoop, KeepStep
    <3> QED
      BY <3>1, <3>2
  <2> HIDE DEF Turn
  <2>4. f = F(f)
    BY <2>2, <2>3
  <2> QED
    BY <2>4
<1>4. c = F(c)
  <2> HIDE DEF F
  <2> QED
    BY <1>3, Zenon
<1> HIDE DEF c
<1>5. c[0] = <<>> /\ \A i \in 1..n : c[i] = KeepStep(c[i - 1], s, S, i)
  <2>1. 0 \in 0..n /\ \A i \in 1..n : i \in 0..n /\ i # 0
    BY <1>1
  <2> QED
    BY <1>4, <2>1 DEF KeepStep
<1> HIDE DEF F
<1>6. KeepsOf(<<>>, s, C(0), V)
  <2>1. C(0) = {} /\ <<>> \in Seq(V)
    OBVIOUS
  <2>2. Places(<<>>, <<>>, s, {})
    BY DEF Places
  <2> QED
    BY <2>1, <2>2 DEF KeepsOf
<1>7. \A i \in 0..n : KeepsOf(c[i], s, C(i), V)
  <2> DEFINE T == {i \in 0..n : ~KeepsOf(c[i], s, C(i), V)}
  <2> SUFFICES ASSUME NEW y \in T PROVE FALSE
    OBVIOUS
  <2>1. T \in SUBSET Nat
    OBVIOUS
  <2>2. PICK i \in T : \A z \in T : i <= z
    <3> HIDE DEF T
    <3> QED
      BY <2>1, LeastNat
  <2>3. i \in 0..n /\ ~KeepsOf(c[i], s, C(i), V)
    OBVIOUS
  <2>4. i # 0
    BY <1>5, <1>6, <2>3
  <2>5. i \in 1..n /\ i - 1 \in 0..n /\ ~(i <= i - 1)
    BY <1>1, <2>3, <2>4
  <2>6. KeepsOf(c[i - 1], s, C(i - 1), V)
    <3>1. i - 1 \notin T
      <4> HIDE DEF T
      <4> QED
        BY <2>2, <2>5
    <3> QED
      BY <2>5, <3>1
  <2>7. KeepsOf(KeepStep(c[i - 1], s, S, i), s, C(i), V)
    BY <2>5, <2>6, KeepsOneMore
  <2> QED
    BY <1>5, <2>3, <2>5, <2>7
<1>8. C(n) = S
  OBVIOUS
<1> QED
  BY <1>1, <1>2, <1>7, <1>8

\* d is c in another order, the ids ascending.
SortOf(d, c, m) ==
    \E q \in Bijection(1..m, 1..m) :
        /\ d = [k \in 1..m |-> c[q[k]]]
        /\ \A i, j \in 1..m : i < j => c[q[i]].id < c[q[j]].id

\* What std::sort returns, when no two nodes have the same id.  Such an order exists: a
\* node's place is one more than the number of nodes with a smaller id.
LEMMA SortedAscends ==
    ASSUME NEW m \in Nat, NEW c, DOMAIN c = 1..m,
           \A i \in 1..m : c[i].id \in Int,
           \A i, j \in 1..m : c[i].id = c[j].id => i = j
    PROVE  SortOf(Sorted(c), c, m)
<1> DEFINE D == 1..m
           id == [i \in D |-> c[i].id]
           Below(i) == {j \in D : id[j] < id[i]}
           rank == [i \in D |-> Cardinality(Below(i)) + 1]
           Upward(q) == \A i, j \in D : i < j => c[q[i]].id <= c[q[j]].id
<1>1. IsFiniteSet(D) /\ Cardinality(D) = m
  <2>1. 1 \in Int /\ m \in Int /\ (1 > m => m = 0)
    OBVIOUS
  <2>2. IsFiniteSet(1..m) /\ Cardinality(1..m) = IF 1 > m THEN 0 ELSE m - 1 + 1
    BY <2>1, FS_Interval, Zenon
  <2> QED
    BY <2>1, <2>2
<1>2. /\ \A i \in D : id[i] \in Int /\ id[i] = c[i].id
      /\ \A i, j \in D : id[i] = id[j] => i = j
  OBVIOUS
<1> HIDE DEF id
<1>3. ASSUME NEW i \in D
      PROVE  IsFiniteSet(Below(i)) /\ Cardinality(Below(i)) \in Nat /\ Cardinality(Below(i)) < m
  <2>1. Below(i) \in SUBSET D /\ Below(i) # D
    <3>1. i \in D /\ ~(id[i] < id[i])
      BY <1>2
    <3> QED
      BY <3>1
  <2> HIDE DEF Below, D
  <2>2. IsFiniteSet(Below(i)) /\ Cardinality(Below(i)) <= m /\ Cardinality(Below(i)) # m
    BY <1>1, <2>1, FS_Subset
  <2>3. Cardinality(Below(i)) \in Nat
    BY <2>2, FS_CardinalityType
  <2> QED
    BY <2>2, <2>3
<1>4. ASSUME NEW i \in D, NEW j \in D, id[i] < id[j]
      PROVE  Cardinality(Below(i)) < Cardinality(Below(j))
  <2>1. Below(i) \in SUBSET Below(j) /\ Below(i) # Below(j)
    <3>1. i \in Below(j) /\ i \notin Below(i)
      BY <1>2, <1>4
    <3>2. \A t \in D : id[t] < id[i] => id[t] < id[j]
      BY <1>2, <1>4
    <3> QED
      BY <3>1, <3>2
  <2> HIDE DEF Below, D
  <2>2. Cardinality(Below(i)) <= Cardinality(Below(j)) /\ Cardinality(Below(i)) # Cardinality(Below(j))
    BY <1>3, <2>1, FS_Subset
  <2> QED
    BY <1>3, <2>2
<1>5. /\ rank \in [D -> D]
      /\ \A i, j \in D : id[i] < id[j] => rank[i] < rank[j]
  <2> HIDE DEF Below
  <2>1. \A i \in D : Cardinality(Below(i)) + 1 \in D
    BY <1>3
  <2>2. \A i, j \in D : id[i] < id[j] => Cardinality(Below(i)) + 1 < Cardinality(Below(j)) + 1
    BY <1>3, <1>4
  <2> QED
    BY <2>1, <2>2
<1> HIDE DEF rank, Below
<1>6. \A i, j \in D : rank[i] = rank[j] => i = j
  <2> SUFFICES ASSUME NEW i \in D, NEW j \in D, rank[i] = rank[j], i # j PROVE FALSE
    OBVIOUS
  <2>1. id[i] < id[j] \/ id[j] < id[i]
    BY <1>2
  <2>2. rank[i] \in Int /\ rank[j] \in Int
    BY <1>5
  <2> QED
    BY <1>5, <2>1, <2>2
<1>7. \A k \in D : \E i \in D : rank[i] = k
  <2>1. rank \in Injection(D, D)
    BY <1>5, <1>6 DEF Injection, IsInjective
  <2> HIDE DEF D
  <2>2. rank \in Surjection(D, D)
    BY <1>1, <2>1, FS_Injection
  <2> QED
    BY <2>2 DEF Surjection
<1> DEFINE f == [k \in D |-> CHOOSE i \in D : rank[i] = k]
<1>8. f \in [D -> D] /\ \A k \in D : f[k] \in D /\ rank[f[k]] = k
  BY <1>7
<1> HIDE DEF f
<1>9. f \in Bijection(D, D)
  <2>1. \A k, l \in D : f[k] = f[l] => k = l
    BY <1>8
  <2>2. f \in Injection(D, D)
    BY <1>8, <2>1 DEF Injection, IsInjective
  <2> HIDE DEF D
  <2>3. f \in Surjection(D, D)
    BY <1>1, <2>2, FS_Injection
  <2> QED
    BY <2>2, <2>3 DEF Bijection
<1>10. Upward(f)
  <2> SUFFICES ASSUME NEW i \in D, NEW j \in D, i < j PROVE c[f[i]].id <= c[f[j]].id
    OBVIOUS
  <2>1. f[i] \in D /\ f[j] \in D /\ rank[f[i]] = i /\ rank[f[j]] = j
    BY <1>8
  <2>2. ~(id[f[j]] < id[f[i]])
    <3>1. id[f[j]] < id[f[i]] => rank[f[j]] < rank[f[i]]
      BY <1>5, <2>1
    <3>2. i \in Int /\ j \in Int /\ ~(j < i)
      OBVIOUS
    <3> QED
      BY <2>1, <3>1, <3>2
  <2> QED
    BY <1>2, <2>1, <2>2
<1> DEFINE q == CHOOSE p \in Bijection(D, D) : Upward(p)
<1>11. q \in Bijection(D, D) /\ Upward(q)
  <2> HIDE DEF Upward
  <2> QED
    BY <1>9, <1>10, Zenon
<1>12. Sorted(c) = [k \in D |-> c[q[k]]]
  BY DEF Sorted
<1> HIDE DEF q
<1>13. ASSUME NEW i \in D, NEW j \in D, i < j PROVE c[q[i]].id < c[q[j]].id
  <2>1. q[i] \in D /\ q[j] \in D /\ q[i] # q[j]
    BY <1>11, <1>13 DEF Bijection, Injection, IsInjective
  <2>2. c[q[i]].id <= c[q[j]].id
    BY <1>11, <1>13
  <2> QED
    BY <1>2, <2>1, <2>2
<1> QED
  BY <1>11, <1>12, <1>13 DEF SortOf

\* The words of a file: operator>> never reads an empty text.
ConfigWord == {w \in [kind : {"num", "text"}, num : Int, text : STRING] : w # TextWord("")}

ConfigNode == [id : Int, host : ConfigWord, port : Int]

\* loadConfig returns a list of nodes, whatever else the file holds.
LEMMA LoadedNodes ==
    ASSUME NEW file \in Seq(Seq(ConfigWord))
    PROVE  LoadConfig(file) \in Seq(ConfigNode)
<1> DEFINE V == Seq(ConfigWord)
           S == {i \in DOMAIN file : IsNodeLine(file[i])}
           lines == Kept(file, S)
           Entry(line) == NodeInfo(line[1].num, line[2], line[3].num)
<1>1. S \in SUBSET (1..Len(file))
  OBVIOUS
<1>2. ASSUME NEW line \in V, IsNodeLine(line) PROVE Entry(line) \in ConfigNode
  <2>1. 1 \in 1..Len(line) /\ 2 \in 1..Len(line) /\ 3 \in 1..Len(line)
    BY <1>2 DEF IsNodeLine
  <2>2. line[1] \in ConfigWord /\ line[2] \in ConfigWord /\ line[3] \in ConfigWord
    BY <2>1
  <2>3. line[1].num \in Int /\ line[3].num \in Int
    BY <2>2 DEF ConfigWord
  <2> QED
    BY <2>2, <2>3 DEF ConfigNode, NodeInfo
<1>3. \A i \in S : file[i] \in V /\ IsNodeLine(file[i])
  OBVIOUS
<1> HIDE DEF S, V
<1>4. file \in Seq(V)
  BY DEF V
<1>5. KeepsOf(lines, file, S, V)
  <2> HIDE DEF lines
  <2> QED
    BY <1>1, <1>4, KeptElements DEF lines
<1>6. LoadConfig(file) = [i \in DOMAIN lines |-> Entry(lines[i])]
  BY DEF LoadConfig, S
<1> HIDE DEF lines, Entry
<1>7. lines \in Seq(V)
  BY <1>5 DEF KeepsOf
<1>8. ASSUME NEW i \in 1..Len(lines) PROVE Entry(lines[i]) \in ConfigNode
  <2>1. PICK pos : Places(pos, lines, file, S)
    BY <1>5 DEF KeepsOf
  <2>2. pos[i] \in S /\ lines[i] = file[pos[i]]
    BY <2>1 DEF Places
  <2> QED
    BY <1>2, <1>3, <2>2
<1>9. Len(lines) \in Nat /\ DOMAIN lines = 1..Len(lines)
  BY <1>7
<1>10. PICK n \in Nat : n = Len(lines)
  BY <1>9
<1>11. LoadConfig(file) = [i \in 1..n |-> Entry(lines[i])] /\ \A i \in 1..n : Entry(lines[i]) \in ConfigNode
  BY <1>6, <1>8, <1>9, <1>10
<1> QED
  BY <1>11

\* No two lines of the file give a metadata node the same id.
IdsDiffer(nodes) ==
    \A i, j \in DOMAIN nodes : nodes[i].id >= 11 /\ nodes[i].id = nodes[j].id => i = j

\* chain lists the metadata nodes, each once, by ascending id.
IsChain(chain, nodes, m) ==
    /\ m \in Nat /\ DOMAIN chain = 1..m /\ Len(chain) = m
    /\ \A k \in 1..m : \E i \in DOMAIN nodes : nodes[i].id >= 11 /\ chain[k] = nodes[i]
    /\ \A i \in DOMAIN nodes : nodes[i].id >= 11 => \E k \in 1..m : chain[k] = nodes[i]
    /\ \A k, l \in 1..m : k < l => chain[k].id < chain[l].id

LEMMA ChainOfNodes ==
    ASSUME NEW nodes \in Seq(ConfigNode), IdsDiffer(nodes)
    PROVE  \E m : IsChain(MetadataNodes(nodes), nodes, m)
<1> DEFINE S == {i \in DOMAIN nodes : nodes[i].id >= FirstMetadataId}
           c == Kept(nodes, S)
           m == Len(c)
<1>1. S \in SUBSET (1..Len(nodes)) /\ S \in SUBSET DOMAIN nodes
  OBVIOUS
<1>2. /\ \A i \in S : nodes[i].id >= 11 /\ nodes[i].id \in Int /\ nodes[i] \in ConfigNode
      /\ \A i \in DOMAIN nodes : nodes[i].id >= 11 => i \in S
  <2>1. \A i \in DOMAIN nodes : nodes[i] \in ConfigNode
    OBVIOUS
  <2>2. \A i \in DOMAIN nodes : nodes[i].id \in Int
    BY <2>1 DEF ConfigNode
  <2> QED
    BY <2>1, <2>2 DEF FirstMetadataId
<1>3. MetadataNodes(nodes) = Sorted(c)
  BY DEF MetadataNodes
<1> HIDE DEF S
<1>4. KeepsOf(c, nodes, S, ConfigNode)
  <2> HIDE DEF c
  <2> QED
    BY <1>1, KeptElements DEF c
<1> HIDE DEF c
<1>5. c \in Seq(ConfigNode) /\ m \in Nat /\ DOMAIN c = 1..m
  BY <1>4 DEF KeepsOf
<1>6. PICK pos : Places(pos, c, nodes, S)
  BY <1>4 DEF KeepsOf
<1> HIDE DEF m
<1>7. /\ pos \in [1..m -> S] /\ \A k, l \in 1..m : pos[k] = pos[l] => k = l
      /\ \A j \in S : \E k \in 1..m : pos[k] = j
      /\ \A k \in 1..m : c[k] = nodes[pos[k]]
  BY <1>6 DEF Places, m
<1>8. \A k \in 1..m : pos[k] \in S /\ c[k].id \in Int
  BY <1>2, <1>7
<1>9. ASSUME NEW k \in 1..m, NEW l \in 1..m, c[k].id = c[l].id PROVE k = l
  <2>1. pos[k] \in DOMAIN nodes /\ pos[l] \in DOMAIN nodes /\ nodes[pos[k]].id >= 11
    BY <1>1, <1>2, <1>8
  <2>2. nodes[pos[k]].id = nodes[pos[l]].id
    BY <1>7, <1>9
  <2>3. pos[k] = pos[l]
    BY <2>1, <2>2 DEF IdsDiffer
  <2> QED
    BY <1>7, <2>3
<1>10. SortOf(Sorted(c), c, m)
  BY <1>5, <1>8, <1>9, SortedAscends
<1>11. PICK q \in Bijection(1..m, 1..m) :
          /\ Sorted(c) = [k \in 1..m |-> c[q[k]]]
          /\ \A i, j \in 1..m : i < j => c[q[i]].id < c[q[j]].id
  BY <1>10 DEF SortOf
<1>12. q \in [1..m -> 1..m] /\ \A k \in 1..m : \E l \in 1..m : q[l] = k
  BY <1>11 DEF Bijection, Injection, Surjection
<1> DEFINE chain == Sorted(c)
<1>13. DOMAIN chain = 1..m /\ \A k \in 1..m : chain[k] = c[q[k]] /\ q[k] \in 1..m
  BY <1>11, <1>12
<1>14. Len(chain) = m
  <2>1. \A k \in 1..m : c[q[k]] \in ConfigNode
    BY <1>5, <1>12
  <2>2. chain \in Seq(ConfigNode)
    BY <1>5, <1>11, <2>1
  <2> QED
    BY <1>5, <1>13, <2>2
<1> HIDE DEF chain
<1>15. ASSUME NEW k \in 1..m PROVE \E i \in DOMAIN nodes : nodes[i].id >= 11 /\ chain[k] = nodes[i]
  <2>1. pos[q[k]] \in S /\ chain[k] = nodes[pos[q[k]]]
    BY <1>7, <1>8, <1>13
  <2> QED
    BY <1>1, <1>2, <2>1
<1>16. ASSUME NEW i \in DOMAIN nodes, nodes[i].id >= 11 PROVE \E k \in 1..m : chain[k] = nodes[i]
  <2>1. i \in S
    BY <1>2, <1>16
  <2>2. PICK k \in 1..m : pos[k] = i
    BY <1>7, <2>1
  <2>3. PICK l \in 1..m : q[l] = k
    BY <1>12
  <2> QED
    BY <1>7, <1>13, <2>2, <2>3
<1>17. \A k, l \in 1..m : k < l => chain[k].id < chain[l].id
  BY <1>11, <1>13
<1> QED
  BY <1>3, <1>5, <1>13, <1>14, <1>15, <1>16, <1>17 DEF IsChain, chain

\* getNodeById finds the only node with the id.
LEMMA NodeOfId ==
    ASSUME NEW nodes \in Seq(ConfigNode), IdsDiffer(nodes), NEW p \in DOMAIN nodes, nodes[p].id >= 11
    PROVE  GetNodeById(nodes, nodes[p].id) = nodes[p]
<1> DEFINE found == {i \in DOMAIN nodes : nodes[i].id = nodes[p].id}
<1>1. found = {p}
  BY DEF IdsDiffer
<1>2. p \in Nat
  OBVIOUS
<1>3. Min({p}) = p
  BY <1>2 DEF Min
<1>4. GetNodeById(nodes, nodes[p].id) = IF found = {} THEN NoInfo ELSE nodes[Min(found)]
  BY DEF GetNodeById
<1> QED
  BY <1>1, <1>3, <1>4

\* The ids of the metadata nodes the file names.
MetadataIds(file) == {i \in {n.id : n \in Range(LoadConfig(file))} : i >= 11}

\* The next address main computes is the one behind the node's own place in the sorted list,
\* and that place is the only one with the node's id.
LEMMA FileFormsChain ==
    ASSUME NEW file \in Seq(Seq(ConfigWord)), IdsDiffer(LoadConfig(file))
    PROVE  FormsOneChain(file)
<1> DEFINE nodes == LoadConfig(file)
           chain == MetadataNodes(nodes)
           ids == MetadataIds(file)
<1>1. nodes \in Seq(ConfigNode) /\ IdsDiffer(nodes)
  BY LoadedNodes
<1>2. \A p \in DOMAIN nodes : nodes[p] \in ConfigNode /\ nodes[p].id \in Int
  <2>1. \A p \in DOMAIN nodes : nodes[p] \in ConfigNode
    BY <1>1
  <2> QED
    BY <2>1 DEF ConfigNode
<1>3. /\ \A i \in ids : \E p \in DOMAIN nodes : nodes[p].id = i /\ nodes[p].id >= 11
      /\ \A p \in DOMAIN nodes : nodes[p].id >= 11 => nodes[p].id \in ids
  BY DEF MetadataIds, Range
<1>4. \A x : Starts(file, x) <=> ~(GetNodeById(nodes, x).port = 0 /\ GetNodeById(nodes, x).host = NoInfo.host)
  BY DEF Starts, GetMyNode
<1>5. \A x : MyAddress(file, x) = Address(GetNodeById(nodes, x))
  BY DEF MyAddress, GetMyNode
<1> DEFINE Mine(x) == {k \in DOMAIN chain : chain[k].id = x}
<1>6. \A x : NextAddress(file, x) = IF Mine(x) = {} \/ Min(Mine(x)) = Len(chain) THEN NoAddress
                                    ELSE Address(chain[Min(Mine(x)) + 1])
  BY DEF NextAddress
<1> DEFINE Later(i) == {j \in ids : j > i}
<1>7. SUFFICES ASSUME NEW i \in ids
               PROVE  /\ Starts(file, i)
                      /\ NextAddress(file, i) =
                            IF Later(i) = {} THEN NoAddress ELSE MyAddress(file, Min(Later(i)))
  BY DEF FormsOneChain, MetadataIds
<1> HIDE DEF nodes, ids
<1>8. PICK m : IsChain(chain, nodes, m)
  BY <1>1, ChainOfNodes
<1> HIDE DEF chain
<1>9. /\ m \in Nat /\ DOMAIN chain = 1..m /\ Len(chain) = m
      /\ \A k \in 1..m : \E p \in DOMAIN nodes : nodes[p].id >= 11 /\ chain[k] = nodes[p]
      /\ \A p \in DOMAIN nodes : nodes[p].id >= 11 => \E k \in 1..m : chain[k] = nodes[p]
      /\ \A k, l \in 1..m : k < l => chain[k].id < chain[l].id
  BY <1>8 DEF IsChain
<1> DEFINE id == [k \in 1..m |-> chain[k].id]
<1>10. \A k \in 1..m : id[k] = chain[k].id /\ id[k] \in Int /\ id[k] \in ids
  BY <1>2, <1>3, <1>9
<1>11. /\ \A j \in ids : \E k \in 1..m : id[k] = j
       /\ \A k, l \in 1..m : k < l => id[k] < id[l]
  <2> HIDE DEF id
  <2>1. ASSUME NEW j \in ids PROVE \E k \in 1..m : id[k] = j
    <3>1. PICK p \in DOMAIN nodes : nodes[p].id = j /\ nodes[p].id >= 11
      BY <1>3
    <3>2. PICK k \in 1..m : chain[k] = nodes[p]
      BY <1>9, <3>1
    <3> QED
      BY <1>10, <3>1, <3>2
  <2>2. ASSUME NEW k \in 1..m, NEW l \in 1..m, k < l PROVE id[k] < id[l]
    BY <1>9, <1>10, <2>2
  <2> QED
    BY <2>1, <2>2
<1> HIDE DEF id
<1>12. m \in Nat
  BY <1>9
<1>13. PICK p \in DOMAIN nodes : nodes[p].id = i /\ nodes[p].id >= 11
  BY <1>3
<1>14. GetNodeById(nodes, i) = nodes[p]
  BY <1>1, <1>13, NodeOfId
<1>15. Starts(file, i)
  <2>1. nodes[p].host # TextWord("")
    BY <1>2 DEF ConfigNode, ConfigWord
  <2>2. NoInfo.host = TextWord("")
    BY DEF NoInfo, NodeInfo
  <2> QED
    BY <1>4, <1>14, <2>1, <2>2
<1>16. PICK k \in 1..m : id[k] = i
  BY <1>11
<1>17. k \in Nat /\ i \in Int
  BY <1>9, <1>10, <1>16
<1>18. Mine(i) = {k}
  <2>1. ASSUME NEW l \in 1..m, id[l] = i, l # k PROVE FALSE
    <3>1. l < k \/ k < l
      BY <1>12, <2>1
    <3> QED
      BY <1>11, <1>16, <1>17, <2>1, <3>1
  <2>2. \A l \in 1..m : chain[l].id = i <=> l = k
    BY <1>10, <1>16, <2>1
  <2>3. DOMAIN chain = 1..m
    BY <1>9
  <2> QED
    BY <2>2, <2>3
<1>19. Min(Mine(i)) = k
  BY <1>17, <1>18 DEF Min
<1>20. CASE k = m
  <2>1. Later(i) = {}
    <3> SUFFICES ASSUME NEW j \in ids, j > i PROVE FALSE
      OBVIOUS
    <3>1. PICK l \in 1..m : id[l] = j
      BY <1>11
    <3>2. j \in Int /\ (l < k \/ l = k)
      BY <1>10, <1>20, <1>12, <3>1
    <3> QED
      BY <1>11, <1>16, <1>17, <3>1, <3>2
  <2>2. NextAddress(file, i) = NoAddress
    BY <1>6, <1>9, <1>19, <1>20
  <2> QED
    BY <1>15, <2>1, <2>2
<1>21. CASE k # m
  <2>1. k + 1 \in 1..m /\ k < k + 1
    BY <1>9, <1>21
  <2> DEFINE next == id[k + 1]
  <2>2. next \in ids /\ next \in Int /\ next > i
    BY <1>10, <1>11, <1>16, <1>17, <2>1
  <2>3. ASSUME NEW j \in ids, j > i PROVE j \in Int /\ next <= j
    <3>1. PICK l \in 1..m : id[l] = j
      BY <1>11
    <3>2. j \in Int
      BY <1>10, <3>1
    <3>3. ~(l < k) /\ l # k
      BY <1>11, <1>16, <1>17, <2>3, <3>1, <3>2
    <3>4. l = k + 1 \/ k + 1 < l
      BY <1>17, <1>12, <3>3
    <3> QED
      BY <1>11, <2>1, <2>2, <3>1, <3>2, <3>4
  <2> HIDE DEF next
  <2>4. Later(i) # {} /\ Min(Later(i)) = next
    <3>1. next \in Later(i) /\ \A j \in Later(i) : j \in Int /\ next <= j
      BY <2>2, <2>3
    <3> HIDE DEF Later
    <3>2. ASSUME NEW x \in Later(i), \A y \in Later(i) : x <= y PROVE x = next
      <4>1. x <= next /\ next <= x /\ x \in Int
        BY <3>1, <3>2
      <4> QED
        BY <2>2, <4>1
    <3> QED
      BY <3>1, <3>2 DEF Min
  <2>5. PICK s \in DOMAIN nodes : nodes[s].id >= 11 /\ chain[k + 1] = nodes[s]
    BY <1>9, <2>1
  <2>6. GetNodeById(nodes, next) = chain[k + 1]
    BY <1>1, <1>10, <2>1, <2>5, NodeOfId DEF next
  <2>7. NextAddress(file, i) = Address(chain[k + 1])
    <3>1. Mine(i) # {}
      BY <1>18
    <3> HIDE DEF Mine
    <3> QED
      BY <1>6, <1>9, <1>19, <1>21, <3>1
  <2> QED
    BY <1>5, <1>15, <2>4, <2>6, <2>7
<1> QED
  BY <1>20, <1>21

\* Whatever else the files hold and in whatever order: if no metadata node's id is given
\* twice, the processes that read the file, each for itself, form one chain in the order of
\* the ids (main of the metadata node, loadConfig, std::sort).  The doubled line that
\* breaks it is the counterexample of the run on such a file.
THEOREM FilesFormChains ==
    ASSUME ConfigFiles \subseteq Seq(Seq(ConfigWord)),
           \A file \in ConfigFiles : IdsDiffer(LoadConfig(file))
    PROVE  Spec => []ConfigFormsChain
<1>1. ConfigFormsChain
  BY FileFormsChain DEF ConfigFormsChain
<1> QED
  BY <1>1, PTL

\* A file that names the N metadata nodes links them in the order the other theorems
\* suppose: every node's first successor is the next one (main of the metadata node).
THEOREM FileLinksInOrder ==
    ASSUME ConfigFile \in Seq(Seq(ConfigWord)), IdsDiffer(LoadConfig(ConfigFile)),
           MetadataIds(ConfigFile) = {NodeId(n) : n \in Node}
    PROVE  FirstNext = [n \in Node |-> IF n < N THEN n + 1 ELSE NoPort]
<1> DEFINE ids == MetadataIds(ConfigFile)
           Later(i) == {j \in ids : j > i}
<1>1. N \in Nat /\ ids = {10 + n : n \in Node}
  BY DEF NodeId
<1>2. \A i \in ids : NextAddress(ConfigFile, i) =
          IF Later(i) = {} THEN NoAddress ELSE MyAddress(ConfigFile, Min(Later(i)))
  BY FileFormsChain DEF FormsOneChain, MetadataIds
<1> HIDE DEF ids
<1>3. \A n \in Node : /\ FirstNext[n] = NextAddress(ConfigFile, 10 + n).port
                      /\ MyAddress(ConfigFile, 10 + n).port = n
  <2> SUFFICES ASSUME NEW n \in Node
               PROVE  /\ FirstNext[n] = NextAddress(ConfigFile, 10 + n).port
                      /\ MyAddress(ConfigFile, 10 + n).port = n
    OBVIOUS
  <2>1. /\ FirstNext[n] = NextAddress(ConfigFile, 10 + n).port
        /\ MyAddress(ConfigFile, 10 + n) = [host |-> Loopback, port |-> n]
    BY DeploymentAssumption DEF NodeId
  <2> QED
    BY <2>1
<1>4. ASSUME NEW n \in Node PROVE FirstNext[n] = IF n < N THEN n + 1 ELSE NoPort
  <2>1. n \in Nat /\ n <= N /\ 10 + n \in ids
    BY <1>1
  <2>2. CASE n < N
    <3>1. n + 1 \in Node /\ 10 + (n + 1) \in ids /\ 10 + (n + 1) > 10 + n
      BY <1>1, <2>1, <2>2
    <3>2. \A j \in Later(10 + n) : j \in Int /\ 10 + (n + 1) <= j
      BY <1>1, <2>1
    <3>3. 10 + (n + 1) \in Later(10 + n)
      BY <3>1
    <3> DEFINE next == 10 + (n + 1)
    <3>4. next \in Int
      BY <2>1
    <3> HIDE DEF Later, next
    <3>5. Min(Later(10 + n)) = next
      <4>1. \A x \in Later(10 + n) : (\A y \in Later(10 + n) : x <= y) => x = next
        BY <3>2, <3>3, <3>4 DEF next
      <4> QED
        BY <3>2, <3>3, <4>1 DEF Min, next
    <3>6. FirstNext[n] = MyAddress(ConfigFile, next).port
      BY <1>2, <1>3, <2>1, <3>3, <3>5
    <3> QED
      BY <1>3, <2>2, <3>1, <3>6 DEF next
  <2>3. CASE n = N
    <3>1. Later(10 + n) = {}
      BY <1>1, <2>1, <2>3
    <3> QED
      <4>1. NextAddress(ConfigFile, 10 + n) = NoAddress
        BY <1>2, <2>1, <3>1
      <4> QED
        <5>1. FirstNext[n] = NoAddress.port
          BY <1>3, <4>1
        <5>2. NoAddress.port = -1
          BY DEF NoAddress
        <5> QED
          BY <2>1, <2>3, <5>1, <5>2
  <2> QED
    BY <1>1, <2>1, <2>2, <2>3
<1> QED
  BY <1>4

=============================================================================
