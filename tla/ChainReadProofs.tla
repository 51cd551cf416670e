--------------------------- MODULE ChainReadProofs ---------------------------
(***************************************************************************)
(* What a download returns, for every length of the chain and every set of *)
(* calls: the record of the file it named, and, while no node but the tail *)
(* dies, one that no acknowledged upload had replaced.                     *)
(***************************************************************************)
EXTENDS MetadataChainProofs

USE ChainAssumption DEF Node, Op, NoPort, Port, PutThread, GetThread, OperatorCmd, ChainCmd

-----------------------------------------------------------------------------
(* Which steps touch what.                                                 *)

\* Only the client's GET, the GET threads and a start move GET threads.
LEMMA GetMoves ==
    ASSUME [Next]_vars
    PROVE  \/ UNCHANGED <<getPc, answer>>
           \/ \E o \in GetOp : GetMetadataFromNode(o)
           \/ \E o \in GetOp, n \in Node : HandleGetRole(o, n) \/ HandleGetLookup(o, n)
           \/ \E n \in Node : Start(n)
<1> USE DEF threadVars
<1>1. ASSUME NEW o \in Op, Invoke(o) PROVE UNCHANGED <<getPc, answer>>
  BY <1>1 DEF Invoke
<1>2. ASSUME NEW o \in PutOp, ClientPut(o) PROVE UNCHANGED <<getPc, answer>>
  BY <1>2 DEF ClientPut, PutMetadataToNode, PutAcked, PutFailedHere
<1>3. ASSUME NEW o \in GetOp, GetFound(o) \/ GetFailedHere(o) PROVE UNCHANGED <<getPc, answer>>
  BY <1>3 DEF GetFound, GetFailedHere
<1>4. ASSUME NEW o \in PutOp, NEW e \in Node, NEW n \in Node, PutThreadStep(o, e, n)
      PROVE  UNCHANGED <<getPc, answer>>
  BY <1>4 DEF PutThreadStep, HandlePutBadArgs, HandlePutStore, HandlePutDecide, ForwardPut,
              ForwardPutNoConnection, ForwardPutAcked, ForwardPutRefused, PutReply
<1>5. ASSUME NEW n \in Node, HealthThread(n) PROVE UNCHANGED <<getPc, answer>>
  BY <1>5 DEF HealthThread, HealthCheck, SkipToNode, NotifyNextOfPredecessor, ClearNext, BecomeTail
<1>6. ASSUME NEW n \in Node, NEW p \in Port, ChainCommand(n, p) PROVE UNCHANGED <<getPc, answer>>
  BY <1>6 DEF ChainCommand, HandleUpdatePrev, HandleUpdateNext, HandleSetSkip
<1>7. ASSUME NEW n \in Node, StatusStep(n) PROVE UNCHANGED <<getPc, answer>>
  BY <1>7 DEF StatusStep, Die, Crash, KilledSending, Hang, Resume
<1>8. CASE UNCHANGED vars
  BY <1>8 DEF vars
<1> QED
  BY <1>1, <1>2, <1>3, <1>4, <1>5, <1>6, <1>7, <1>8 DEF Next, ClientGet

\* Only the calls themselves move the clients.
LEMMA ClientMoves ==
    ASSUME [Next]_vars
    PROVE  \/ UNCHANGED clientVars
           \/ \E o \in Op : Invoke(o)
           \/ \E o \in PutOp : ClientPut(o)
           \/ \E o \in GetOp : ClientGet(o)
<1>1. ASSUME NEW o \in PutOp, NEW e \in Node, NEW n \in Node, PutThreadStep(o, e, n)
      PROVE  UNCHANGED clientVars
  BY <1>1 DEF PutThreadStep, HandlePutBadArgs, HandlePutStore, HandlePutDecide, ForwardPut,
              ForwardPutNoConnection, ForwardPutAcked, ForwardPutRefused, PutReply
<1>2. ASSUME NEW o \in GetOp, NEW n \in Node, HandleGetRole(o, n) \/ HandleGetLookup(o, n)
      PROVE  UNCHANGED clientVars
  BY <1>2 DEF HandleGetRole, HandleGetLookup
<1>3. ASSUME NEW n \in Node, HealthThread(n) PROVE UNCHANGED clientVars
  BY <1>3 DEF HealthThread, HealthCheck, SkipToNode, NotifyNextOfPredecessor, ClearNext, BecomeTail
<1>4. ASSUME NEW n \in Node, NEW p \in Port, ChainCommand(n, p) PROVE UNCHANGED clientVars
  BY <1>4 DEF ChainCommand, HandleUpdatePrev, HandleUpdateNext, HandleSetSkip
<1>5. ASSUME NEW n \in Node, StatusStep(n) \/ Start(n) PROVE UNCHANGED clientVars
  BY <1>5 DEF StatusStep, Die, Crash, KilledSending, Hang, Resume, Start
<1>6. UNCHANGED vars => UNCHANGED clientVars
  BY DEF vars
<1> QED
  BY <1>1, <1>2, <1>3, <1>4, <1>5, <1>6 DEF Next

\* A download comes to be ok only by finding a record, and its result then rests.
LEMMA GetOkSteps ==
    ASSUME TypeOK, [Next]_vars, NEW r \in GetOp, opState'[r] = "ok"
    PROVE  GetFound(r) \/ (opState[r] = "ok" /\ result'[r] = result[r])
<1> USE DEF clientVars, TypeOK
<1>1. ASSUME NEW p \in Op, Invoke(p) PROVE opState[r] = "ok" /\ result'[r] = result[r]
  BY <1>1 DEF Invoke
<1>2. ASSUME NEW p \in PutOp, ClientPut(p) PROVE opState[r] = "ok" /\ result'[r] = result[r]
  BY <1>2 DEF ClientPut, PutMetadataToNode, PutAcked, PutFailedHere, TryNextNode
<1>3. ASSUME NEW p \in GetOp, GetMetadataFromNode(p) \/ GetFailedHere(p)
      PROVE  opState[r] = "ok" /\ result'[r] = result[r]
  BY <1>3 DEF GetMetadataFromNode, GetFailedHere, TryNextNode
<1>4. ASSUME NEW p \in GetOp, GetFound(p)
      PROVE  GetFound(r) \/ (opState[r] = "ok" /\ result'[r] = result[r])
  BY <1>4 DEF GetFound
<1> QED
  BY ClientMoves, <1>1, <1>2, <1>3, <1>4 DEF ClientGet

-----------------------------------------------------------------------------
(* Whatever happens to the chain, the records a download may be given were *)
(* stored for the name it asked for.                                       *)

\* A record of an upload that has begun, for the name f.
RecordOf(p, f) == p \in PutOp /\ opState[p] # "idle" /\ Name(p) = f

\* The stores, the answers of GET threads and the results of downloads hold such records.
NamesInv ==
    /\ BegunInv
    /\ \A n \in Node, f \in File :
          metadataStore[n][f] # NoMeta => RecordOf(metadataStore[n][f], f)
    /\ \A r \in GetOp, n \in Node :
          getPc[<<r, n>>] = "found" => RecordOf(answer[<<r, n>>], Name(r))
    /\ \A r \in GetOp : opState[r] = "ok" => RecordOf(result[r], Name(r))

\* A record stays what it is.
LEMMA RecordOfStays ==
    ASSUME TypeOK, [Next]_vars, NEW p, NEW f, RecordOf(p, f)
    PROVE  RecordOf(p, f)'
BY BegunStays DEF RecordOf, Name

\* Every step keeps the threads those of uploads that have begun.
LEMMA BegunStep ==
    ASSUME TypeOK, BegunInv, [Next]_vars
    PROVE  BegunInv'
<1> SUFFICES ASSUME NEW o \in PutOp, NEW e \in Node, NEW n \in Node, putPc'[<<o, e, n>>] # "none"
             PROVE  opState'[o] # "idle"
  BY DEF BegunInv
<1> USE DEF TypeOK, BegunInv
<1>1. CASE putPc[<<o, e, n>>] # "none"
  BY <1>1, BegunStays
<1>2. CASE putPc[<<o, e, n>>] = "none"
  <2>1. ~UNCHANGED <<putPc, callee>>
    BY <1>2
  <2>2. ASSUME NEW p \in PutOp, PutMetadataToNode(p) PROVE opState[o] # "idle"
    BY <1>2, <2>2 DEF PutMetadataToNode
  <2>3. ASSUME NEW p \in PutOp, NEW d \in Node, NEW m \in Node, PutThreadStep(p, d, m)
        PROVE  p = o /\ opState[o] # "idle"
    BY <1>2, <2>3 DEF PutThreadStep, HandlePutBadArgs, HandlePutStore, HandlePutDecide, ForwardPut,
              ForwardPutNoConnection, ForwardPutAcked, ForwardPutRefused, PutReply
  <2>4. ASSUME NEW m \in Node, Start(m) PROVE FALSE
    BY <1>2, <2>4 DEF Start, Broken
  <2> QED
    BY <2>1, <2>2, <2>3, <2>4, ThreadMoves, BegunStays
<1> QED
  BY <1>1, <1>2

\* Every step keeps all records under the names they were stored for.
LEMMA NamesStep ==
    ASSUME TypeOK, NamesInv, [Next]_vars
    PROVE  NamesInv'
<1> USE DEF TypeOK
<1>1. BegunInv'
  BY BegunStep DEF NamesInv
<1>2. ASSUME NEW n \in Node, NEW f \in File, metadataStore'[n][f] # NoMeta
      PROVE  RecordOf(metadataStore[n][f], f)'
  <2>1. CASE metadataStore'[n][f] = metadataStore[n][f]
    BY <1>2, <2>1, RecordOfStays DEF NamesInv, RecordOf, Name
  <2>2. ASSUME NEW p \in PutOp, NEW e \in Node, NEW m \in Node, HandlePutStore(p, e, m),
               metadataStore'[n][f] # metadataStore[n][f]
        PROVE  RecordOf(metadataStore[n][f], f)'
    <3>1. /\ metadataStore' = [metadataStore EXCEPT ![m][Name(p)] = p]
          /\ opState[p] # "idle" /\ UNCHANGED <<opState, opFile>>
          /\ Name(p) \in File
      BY <2>2 DEF HandlePutStore, Assigned, clientVars, NamesInv, BegunInv, Name
    <3>2. n = m /\ f = Name(p) /\ metadataStore'[n][f] = p
      BY <2>2, <3>1
    <3> QED
      BY <3>1, <3>2 DEF RecordOf, Name
  <2>3. ASSUME NEW m \in Node, Start(m) PROVE metadataStore'[n][f] = metadataStore[n][f]
    BY <1>2, <2>3 DEF Start
  <2> QED
    BY <2>1, <2>2, <2>3, StoreSteps
<1>3. ASSUME NEW r \in GetOp, NEW n \in Node, getPc'[<<r, n>>] = "found"
      PROVE  RecordOf(answer[<<r, n>>], Name(r))'
  <2>1. Name(r)' = Name(r) /\ Name(r) \in File
    BY BegunStays DEF Name
  <2>2. CASE getPc[<<r, n>>] = "found" /\ answer'[<<r, n>>] = answer[<<r, n>>]
    <3>1. PICK p, f : p = answer[<<r, n>>] /\ f = Name(r)
      OBVIOUS
    <3>2. RecordOf(p, f)
      BY <2>2, <3>1 DEF NamesInv
    <3>3. RecordOf(p, f)'
      BY <3>2, RecordOfStays
    <3> QED
      BY <2>1, <2>2, <3>1, <3>3 DEF RecordOf
  <2>3. CASE HandleGetLookup(r, n)
    <3>1. answer'[<<r, n>>] = metadataStore[n][Name(r)] /\ metadataStore[n][Name(r)] # NoMeta
      BY <1>3, <2>3 DEF HandleGetLookup, Reply
    <3>2. PICK p, f : p = metadataStore[n][Name(r)] /\ f = Name(r)
      OBVIOUS
    <3>3. RecordOf(p, f)
      BY <2>1, <3>1, <3>2 DEF NamesInv
    <3>4. RecordOf(p, f)'
      BY <3>3, RecordOfStays
    <3> QED
      BY <2>1, <3>1, <3>2, <3>4 DEF RecordOf
  <2>4. ASSUME NEW q \in GetOp, GetMetadataFromNode(q)
        PROVE  getPc[<<r, n>>] = "found" /\ answer'[<<r, n>>] = answer[<<r, n>>]
    BY <1>3, <2>4 DEF GetMetadataFromNode
  <2>5. ASSUME NEW q \in GetOp, NEW m \in Node, HandleGetRole(q, m)
        PROVE  getPc[<<r, n>>] = "found" /\ answer'[<<r, n>>] = answer[<<r, n>>]
    BY <1>3, <2>5 DEF HandleGetRole, Reply
  <2>6. ASSUME NEW q \in GetOp, NEW m \in Node, HandleGetLookup(q, m)
        PROVE  HandleGetLookup(r, n) \/ (getPc[<<r, n>>] = "found" /\ answer'[<<r, n>>] = answer[<<r, n>>])
    BY <1>3, <2>6 DEF HandleGetLookup
  <2>7. ASSUME NEW m \in Node, Start(m)
        PROVE  getPc[<<r, n>>] = "found" /\ answer'[<<r, n>>] = answer[<<r, n>>]
    BY <1>3, <2>7 DEF Start, Broken
  <2> QED
    BY <1>3, <2>2, <2>3, <2>4, <2>5, <2>6, <2>7, GetMoves
<1>4. ASSUME NEW r \in GetOp, opState'[r] = "ok" PROVE RecordOf(result[r], Name(r))'
  <2>1. Name(r)' = Name(r)
    BY BegunStays DEF Name
  <2>2. CASE opState[r] = "ok" /\ result'[r] = result[r]
    BY <2>1, <2>2, RecordOfStays DEF NamesInv, RecordOf, Name
  <2>3. CASE GetFound(r)
    <3>1. PICK c \in Node : c = cursor[r]
      OBVIOUS
    <3>2. getPc[<<r, c>>] = "found" /\ result'[r] = answer[<<r, c>>]
      BY <2>3, <3>1 DEF GetFound
    <3>3. RecordOf(answer[<<r, c>>], Name(r))
      BY <3>2 DEF NamesInv
    <3> QED
      BY <2>1, <3>2, <3>3, RecordOfStays DEF RecordOf, Name
  <2> QED
    BY <1>4, <2>2, <2>3, GetOkSteps
<1> QED
  BY <1>1, <1>2, <1>3, <1>4 DEF NamesInv

\* Every chain, however it is wired, killed and restarted, keeps records under their names.
LEMMA NamesAlways == Spec => [](TypeOK /\ LockInv /\ NamesInv)
<1>1. Init => TypeOK /\ LockInv /\ NamesInv
  BY InitType, InitLock DEF Init, NamesInv, BegunInv
<1>2. TypeOK /\ LockInv /\ NamesInv /\ [Next]_vars => TypeOK' /\ LockInv' /\ NamesInv'
  BY TypeStep, LockStep, NamesStep
<1> QED
  BY <1>1, <1>2, PTL DEF Spec

\* No two files are told apart only behind the first blank of their names.
NamesDiffer == \A f, g \in File : FirstWord[f] = FirstWord[g] => f = g

\* A download that succeeds gets the metadata of the file it named, if no two names of
\* files agree up to their first blank: for every chain and set of calls, whatever nodes
\* die, hang, start again or are rewired.
THEOREM DownloadsNameTheirFile ==
    ASSUME NamesDiffer
    PROVE  Spec => []RecordOfItsFile
<1>1. TypeOK /\ NamesInv => RecordOfItsFile
  BY DEF TypeOK, NamesInv, RecordOf, Name, RecordOfItsFile, NamesDiffer
<1> QED
  BY <1>1, NamesAlways, PTL

-----------------------------------------------------------------------------
(* Reads in a chain of which only the tail may die: no node is held up     *)
(* between connect and send just when the tail goes, and dies with it.     *)

TailMayDie ==
    /\ Orderly
    /\ LateStart = {}
    /\ Crashable \subseteq {N} /\ SlowSend = {}

\* Where a PUT thread is while it works, and from when on its record has been stored.
Active  == {"recv", "stored", "forward", "waiting"}
Written == {"stored", "forward", "waiting", "ack"}

\* Every node runs, but for the tail, and PUTs are only ever passed on to the neighbour.
AliveInv ==
    /\ \A n \in Node : status[n] # "off" /\ (n < N => Up(n))
    /\ \A o \in PutOp, e, n \in Node :
          /\ callee[<<o, e, n>>] \in {NoPort, n + 1}
          /\ putPc[<<o, e, n>>] \in {"forward", "waiting"} => n < N
          /\ putPc[<<o, e, n>>] = "closed" => n = N

\* An upload has threads only from a node it has tried on.
EntryInv ==
    \A o \in PutOp, e, n \in Node : putPc[<<o, e, n>>] # "none" =>
        /\ e <= n /\ e <= cursor[o]
        /\ opState[o] # "idle"
        /\ e = cursor[o] => opState[o] # "trying"

\* A thread that has not passed its PUT on has nobody ahead of it ...
AheadInv ==
    \A o \in PutOp, e, n \in Node :
        e <= n /\ putPc[<<o, e, n>>] \in {"none", "recv", "stored", "forward"} =>
            \A m \in n + 1..N : putPc[<<o, e, m>>] = "none"

\* ... and behind one that works everybody waits, up to the client: no thread on a node
\* that is up works for an upload that has returned or gone on to another node.
BehindInv ==
    \A o \in PutOp, e, n \in Node : putPc[<<o, e, n>>] \in Active /\ Up(n) =>
        /\ opState[o] = "waiting" /\ cursor[o] = e
        /\ \A m \in e..n - 1 : putPc[<<o, e, m>>] = "waiting"

\* An ACK comes from every node behind that is up.
AckLineInv ==
    /\ \A o \in PutOp, e, n \in Node : putPc[<<o, e, n>>] = "ack" =>
          \A m \in n..N : Up(m) => putPc[<<o, e, m>>] = "ack"
    /\ \A o \in PutOp : opState[o] = "ok" => putPc[<<o, cursor[o], cursor[o]>>] = "ack"

\* A PUT is refused only for its name or because the tail is gone; so no upload with a
\* proper name is ever taken by the tail alone.
RefusalInv ==
    /\ \A o \in PutOp : cursor[o] > 1 => opFile[o] \in Unparsable \/ Gone(N)
    /\ \A o \in PutOp, e, n \in Node :
          /\ putPc[<<o, e, n>>] \in {"error", "closed"} => opFile[o] \in Unparsable \/ Gone(N)
          /\ putPc[<<o, e, n>>] \in Written => opFile[o] \notin Unparsable
          /\ e = N /\ N > 1 /\ putPc[<<o, e, n>>] # "none" => opFile[o] \in Unparsable

\* The calls a call came after have returned, and so have those they came after.
BeforeInv ==
    \A q \in Op :
        /\ opState[q] = "idle" => before[q] = {}
        /\ \A p \in before[q] : opState[p] \in Returned /\ before[p] \subseteq before[q]

\* Once an upload has written to a node, the node holds no record older than it.
OrderInv ==
    \A o \in PutOp, e, n \in Node : putPc[<<o, e, n>>] \in Written /\ Up(n) =>
        metadataStore[n][Name(o)] \notin before[o]

\* The uploads that were acknowledged before call r began have not been undone by record p.
Fresh(r, p) ==
    \A w \in PutOp : w \in before[r] /\ opState[w] = "ok" /\ Name(w) = Name(r) => p \notin before[w]

\* A GET is answered by the tail, or by its predecessor once the tail is gone, with a
\* fresh record.
ReadInv ==
    /\ \A r \in GetOp, n \in Node :
          /\ getPc[<<r, n>>] # "none" => opState[r] # "idle"
          /\ getPc[<<r, n>>] = "lookup" => n = N \/ (n + 1 = N /\ Gone(N))
          /\ getPc[<<r, n>>] = "found" => Fresh(r, answer[<<r, n>>])
    /\ \A r \in GetOp : opState[r] = "ok" => Fresh(r, result[r])

\* The inductive invariant behind the two theorems on reads.
ReadsInv ==
    /\ DurInv /\ LockInv
    /\ AliveInv /\ EntryInv /\ AheadInv /\ BehindInv /\ AckLineInv /\ RefusalInv
    /\ BeforeInv /\ OrderInv /\ ReadInv


\* In such a chain nothing is started, and no process that passed a PUT on is gone.
LEMMA NothingStarts ==
    ASSUME TailMayDie, AliveInv, NEW n \in Node
    PROVE  ~Start(n)
BY DEF TailMayDie, Orderly, AliveInv, Start

\* So no reply of a PUT thread breaks a pipe.
LEMMA CallersStay ==
    ASSUME TypeOK, AliveInv, NEW o \in PutOp, NEW e \in Node, NEW n \in Node
    PROVE  ~CallerGone(o, e, n)
<1> SUFFICES ASSUME NEW m \in Node, callee[<<o, e, m>>] = n
             PROVE  status[m] # "down" /\ putPc[<<o, e, m>>] # "closed"
  BY DEF CallerGone
<1>1. m < N
  BY DEF AliveInv
<1> QED
  BY <1>1 DEF AliveInv, Up

\* What a step of a PUT thread other than passing the PUT on does.
MovesTo(o, e, n, to) ==
    LET from == putPc[<<o, e, n>>] IN
    /\ putPc' = [putPc EXCEPT ![<<o, e, n>>] = to]
    /\ UNCHANGED <<callee, status, clientVars>>
    /\ to = "closed" => n = N /\ Gone(N)
    /\ \/ from = "recv" /\ to = "stored" /\ opFile[o] \notin Unparsable
       \/ from = "recv" /\ to \in {"error", "closed"} /\ opFile[o] \in Unparsable
       \/ from = "stored" /\ to = "forward" /\ n < N
       \/ from = "stored" /\ to = "ack" /\ Up(n) /\ (n < N => n + 1 = N /\ Gone(N))
       \/ from = "stored" /\ to = "closed"
       \/ from = "forward" /\ to = "error" /\ n < N /\ Gone(N)
       \/ from = "waiting" /\ to = "ack" /\ n < N /\ putPc[<<o, e, n + 1>>] = "ack"
       \/ from = "waiting" /\ to = "error" /\ n < N /\ Refused(o, e, n + 1)

\* And what passing it on does.
PassesOn(o, e, n) ==
    /\ n < N
    /\ putPc[<<o, e, n>>] = "forward"
    /\ putPc' = [putPc EXCEPT ![<<o, e, n>>] = "waiting", ![<<o, e, n + 1>>] = "recv"]
    /\ callee' = [callee EXCEPT ![<<o, e, n>>] = n + 1]
    /\ UNCHANGED <<status, clientVars>>

\* A reply changes nothing but the thread, and is lost only on the tail.
LEMMA ReplyMoves ==
    ASSUME TypeOK, AliveInv, NEW o \in PutOp, NEW e \in Node, NEW n \in Node, NEW r, PutReply(o, e, n, r)
    PROVE  /\ putPc' = [putPc EXCEPT ![<<o, e, n>>] = Reply(n, r)]
           /\ UNCHANGED <<callee, status, clientVars>>
           /\ \/ Reply(n, r) = r /\ Up(n)
              \/ Reply(n, r) = "closed" /\ n = N /\ Gone(N)
<1>1. ~CallerGone(o, e, n)
  BY CallersStay
<1>2. Up(n) \/ (n = N /\ Gone(N))
  BY DEF AliveInv, Up, Gone, TypeOK
<1> QED
  BY <1>1, <1>2 DEF PutReply, Reply, Up, Gone

\* A node that has no successor to connect to is the tail or stands before a dead one.
LEMMA NoneBehind ==
    ASSUME TypeOK, LinkInv, AliveInv, NEW n \in Node, n < N,
           \/ ~Forwards(n)
           \/ nextNodePort[n] = NoPort
           \/ nextNodePort[n] # NoPort /\ ~Up(nextNodePort[n])
    PROVE  n + 1 = N /\ Gone(N)
<1>1. n + 1 \in Node /\ nextNodePort[n] \in {n + 1, NoPort}
  BY DEF LinkInv
<1>2. Gone(n + 1)
  BY <1>1 DEF LinkInv, Forwards, Gone, Up, AliveInv, TypeOK
<1> QED
  BY <1>1, <1>2 DEF AliveInv, Gone, Up

\* Every step of a PUT thread is one of the two.
LEMMA ThreadMovesOrPasses ==
    ASSUME TypeOK, LinkInv, ThreadInv, AliveInv,
           NEW o \in PutOp, NEW e \in Node, NEW n \in Node, PutThreadStep(o, e, n)
    PROVE  (\E to \in PutPc : MovesTo(o, e, n, to)) \/ PassesOn(o, e, n)
<1> USE DEF PutPc
<1>1. CASE HandlePutBadArgs(o, e, n)
  <2>1. MovesTo(o, e, n, Reply(n, "error"))
    BY <1>1, ReplyMoves DEF HandlePutBadArgs, MovesTo
  <2> QED
    BY <2>1 DEF Reply
<1>2. CASE HandlePutStore(o, e, n)
  <2>1. MovesTo(o, e, n, "stored")
    BY <1>2 DEF HandlePutStore, MovesTo
  <2> QED
    BY <2>1
<1>3. CASE HandlePutDecide(o, e, n)
  <2>1. CASE Forwards(n)
    <3>1. n < N
      BY <2>1 DEF Forwards, LinkInv, TypeOK
    <3>2. MovesTo(o, e, n, "forward")
      BY <1>3, <2>1, <3>1 DEF HandlePutDecide, MovesTo
    <3> QED
      BY <3>2
  <2>2. CASE ~Forwards(n)
    <3>1. n < N => n + 1 = N /\ Gone(N)
      BY <2>2, NoneBehind
    <3>2. putPc[<<o, e, n>>] = "stored" /\ PutReply(o, e, n, "ack")
      BY <1>3, <2>2 DEF HandlePutDecide
    <3>3. MovesTo(o, e, n, Reply(n, "ack"))
      BY <3>1, <3>2, ReplyMoves DEF MovesTo
    <3> QED
      BY <3>3 DEF Reply
  <2> QED
    BY <2>1, <2>2
<1>4. CASE ForwardPut(o, e, n)
  <2>1. nextNodePort[n] = n + 1 /\ n < N
    BY <1>4 DEF ForwardPut, LinkInv, TypeOK
  <2> QED
    BY <1>4, <2>1 DEF ForwardPut, PassesOn
<1>5. CASE ForwardPutNoConnection(o, e, n)
  <2>1. putPc[<<o, e, n>>] = "forward" /\ n < N /\ PutReply(o, e, n, "error")
    BY <1>5 DEF ForwardPutNoConnection, ConnectFailed, AliveInv
  <2>2. n + 1 = N /\ Gone(N)
    BY <1>5, <2>1, NoneBehind DEF ForwardPutNoConnection
  <2>3. MovesTo(o, e, n, Reply(n, "error"))
    BY <2>1, <2>2, ReplyMoves DEF MovesTo
  <2> QED
    BY <2>3 DEF Reply
<1>6. CASE ForwardPutAcked(o, e, n)
  <2>1. putPc[<<o, e, n>>] = "waiting" /\ n < N /\ PutReply(o, e, n, "ack")
    BY <1>6 DEF ForwardPutAcked, AliveInv
  <2>2. putPc[<<o, e, n + 1>>] = "ack"
    BY <1>6, <2>1 DEF ForwardPutAcked, Acked, ThreadInv, ThreadOK
  <2>3. MovesTo(o, e, n, Reply(n, "ack"))
    BY <2>1, <2>2, ReplyMoves DEF MovesTo
  <2> QED
    BY <2>3 DEF Reply
<1>7. CASE ForwardPutRefused(o, e, n)
  <2>1. putPc[<<o, e, n>>] = "waiting" /\ n < N /\ PutReply(o, e, n, "error")
    BY <1>7 DEF ForwardPutRefused, AliveInv
  <2>2. Refused(o, e, n + 1)
    BY <1>7, <2>1 DEF ForwardPutRefused, ThreadInv, ThreadOK
  <2>3. MovesTo(o, e, n, Reply(n, "error"))
    BY <2>1, <2>2, ReplyMoves DEF MovesTo
  <2> QED
    BY <2>3 DEF Reply
<1> QED
  BY <1>1, <1>2, <1>3, <1>4, <1>5, <1>6, <1>7 DEF PutThreadStep

\* So PUT threads move in four ways.
LEMMA LineMoves ==
    ASSUME TailMayDie, TypeOK, LinkInv, ThreadInv, AliveInv, [Next]_vars
    PROVE  \/ UNCHANGED <<putPc, callee>>
           \/ \E o \in PutOp : PutMetadataToNode(o)
           \/ \E o \in PutOp, e, n \in Node, to \in PutPc : MovesTo(o, e, n, to)
           \/ \E o \in PutOp, e, n \in Node : PassesOn(o, e, n)
<1>1. ASSUME NEW o \in PutOp, NEW e \in Node, NEW n \in Node, PutThreadStep(o, e, n)
      PROVE  \/ \E p \in PutOp, d, m \in Node, to \in PutPc : MovesTo(p, d, m, to)
             \/ \E p \in PutOp, d, m \in Node : PassesOn(p, d, m)
  BY <1>1, ThreadMovesOrPasses
<1> QED
  BY <1>1, ThreadMoves, NothingStarts

\* Only failures touch the status of a node.
LEMMA StatusSteps ==
    ASSUME TailMayDie, TypeOK, QuietInv, LinkInv, ThreadInv, AliveInv, [Next]_vars
    PROVE  status' = status \/ \E n \in Node : StatusStep(n)
<1>1. ASSUME NEW o \in Op, Invoke(o) PROVE status' = status
  BY <1>1 DEF Invoke
<1>2. ASSUME NEW o \in PutOp, ClientPut(o) PROVE status' = status
  BY <1>2 DEF ClientPut, PutMetadataToNode, PutAcked, PutFailedHere
<1>3. ASSUME NEW o \in GetOp, ClientGet(o) PROVE status' = status
  BY <1>3 DEF ClientGet, GetMetadataFromNode, GetFound, GetFailedHere
<1>4. ASSUME NEW o \in PutOp, NEW e \in Node, NEW n \in Node, PutThreadStep(o, e, n)
      PROVE  status' = status
  BY <1>4, ThreadMovesOrPasses DEF MovesTo, PassesOn
<1>5. ASSUME NEW o \in GetOp, NEW n \in Node, HandleGetRole(o, n) \/ HandleGetLookup(o, n)
      PROVE  status' = status
  BY <1>5 DEF HandleGetRole, HandleGetLookup
<1>6. ASSUME NEW n \in Node, HealthThread(n) PROVE status' = status
  BY <1>6 DEF HealthThread, HealthCheck, SkipToNode, NotifyNextOfPredecessor, ClearNext, BecomeTail
<1>7. ASSUME NEW n \in Node, NEW p \in Port, ChainCommand(n, p) PROVE FALSE
  BY <1>7 DEF ChainCommand, HandleUpdatePrev, HandleUpdateNext, HandleSetSkip, QuietInv
<1>8. UNCHANGED vars => status' = status
  BY DEF vars
<1> QED
  BY <1>1, <1>2, <1>3, <1>4, <1>5, <1>6, <1>7, <1>8, NothingStarts DEF Next

\* The node that dies is the tail.
LEMMA OnlyTheTailDies ==
    ASSUME TailMayDie, AliveInv, NEW m \in Node, Die(m) \/ Crash(m)
    PROVE  m = N
<1>1. N \in Nat /\ m \in 1..N /\ Crashable \subseteq {N}
  BY DEF TailMayDie
<1>2. m < N => status[m] # "stopping"
  BY DEF AliveInv, Up
<1>3. status[m] = "stopping" \/ m \in Crashable
  BY DEF Die, Crash, MayDie
<1> QED
  BY <1>1, <1>2, <1>3

\* Nodes other than the tail live on, and PUTs go to neighbours only.
LEMMA AliveStep ==
    ASSUME TailMayDie, TypeOK, QuietInv, LinkInv, ThreadInv, AliveInv, [Next]_vars
    PROVE  AliveInv'
<1> USE DEF TypeOK
<1>1. ASSUME NEW n \in Node PROVE status'[n] # "off" /\ (n < N => Up(n)')
  <2>1. CASE status' = status
    BY <2>1 DEF AliveInv, Up
  <2>2. ASSUME NEW m \in Node, StatusStep(m) PROVE status'[n] # "off" /\ (n < N => Up(n)')
    <3>1. Die(m) \/ Crash(m) => m = N
      BY OnlyTheTailDies
    <3> QED
      <4>1. ~KilledSending(m)
        BY DEF KilledSending, TailMayDie
      <4>2. \/ m = N /\ \E s \in {"stopping", "down"} : status' = [status EXCEPT ![m] = s]
            \/ \E s \in {"up", "hung"} : status' = [status EXCEPT ![m] = s]
        BY <2>2, <3>1, <4>1 DEF StatusStep, Die, Crash, Hang, Resume
      <4> QED
        BY <4>2 DEF AliveInv, Up
  <2> QED
    BY <2>1, <2>2, StatusSteps
<1>2. ASSUME NEW o \in PutOp, NEW e \in Node, NEW n \in Node
      PROVE  /\ callee'[<<o, e, n>>] \in {NoPort, n + 1}
             /\ putPc'[<<o, e, n>>] \in {"forward", "waiting"} => n < N
             /\ putPc'[<<o, e, n>>] = "closed" => n = N
  <2>1. CASE UNCHANGED <<putPc, callee>>
    BY <2>1 DEF AliveInv
  <2>2. ASSUME NEW p \in PutOp, PutMetadataToNode(p)
        PROVE  callee' = callee /\ putPc'[<<o, e, n>>] \in {putPc[<<o, e, n>>], "recv"}
    BY <2>2 DEF PutMetadataToNode
  <2>3. ASSUME NEW p \in PutOp, NEW d \in Node, NEW m \in Node, NEW to \in PutPc, MovesTo(p, d, m, to)
        PROVE  /\ callee' = callee
               /\ \/ putPc'[<<o, e, n>>] = putPc[<<o, e, n>>]
                  \/ n = m /\ putPc'[<<o, e, n>>] = to /\ (to = "closed" => n = N)
                     /\ (to = "forward" => n < N) /\ to # "waiting"
    BY <2>3 DEF MovesTo
  <2>4. ASSUME NEW p \in PutOp, NEW d \in Node, NEW m \in Node, PassesOn(p, d, m)
        PROVE  /\ callee'[<<o, e, n>>] \in {callee[<<o, e, n>>], n + 1}
               /\ \/ putPc'[<<o, e, n>>] \in {putPc[<<o, e, n>>], "recv"}
                  \/ n = m /\ n < N /\ putPc'[<<o, e, n>>] = "waiting"
    BY <2>4 DEF PassesOn
  <2> QED
    BY <2>1, <2>2, <2>3, <2>4, LineMoves DEF AliveInv
<1> QED
  BY <1>1, <1>2 DEF AliveInv

\* A node that is not up is gone, and for good.
LEMMA GoneForGood ==
    ASSUME TailMayDie, TypeOK, TypeOK', AliveInv, AliveInv', [Next]_vars
    PROVE  /\ \A n \in Node : Up(n)' => Up(n)
           /\ \A n \in Node : ~Up(n) => n = N /\ Gone(n)
           /\ Gone(N) => Gone(N)'
           /\ Gone(N) => ~Up(N)
<1>1. \A n \in Node : Gone(n) => Gone(n)'
  BY NodesStayGone DEF TailMayDie, Orderly
<1> QED
  BY <1>1 DEF AliveInv, Up, Gone, TypeOK

\* What a step does to an upload's client.
LEMMA UploadMoves ==
    ASSUME TypeOK, [Next]_vars, NEW o \in PutOp
    PROVE  \/ opState'[o] = opState[o] /\ cursor'[o] = cursor[o]
           \/ /\ cursor'[o] = cursor[o]
              /\ \/ opState[o] = "idle" /\ opState'[o] = "trying"
                 \/ opState[o] = "trying" /\ opState'[o] = "waiting" /\ PutMetadataToNode(o)
                 \/ /\ opState[o] = "waiting" /\ opState'[o] = "ok"
                    /\ putPc[<<o, cursor[o], cursor[o]>>] = "ack" /\ UNCHANGED putPc
           \/ /\ UNCHANGED putPc
              /\ \/ opState[o] = "trying" /\ ~Up(cursor[o])
                 \/ opState[o] = "waiting" /\ Refused(o, cursor[o], cursor[o])
              /\ \/ opState'[o] = "failed" /\ cursor'[o] = cursor[o]
                 \/ opState'[o] = "trying" /\ cursor'[o] = cursor[o] + 1
<1> DEFINE Still == opState'[o] = opState[o] /\ cursor'[o] = cursor[o]
<1> USE DEF TypeOK, clientVars, threadVars
<1>1. ASSUME NEW p \in Op, Invoke(p)
      PROVE  Still \/ (opState[o] = "idle" /\ opState'[o] = "trying" /\ cursor'[o] = cursor[o])
  BY <1>1 DEF Invoke
<1>2. ASSUME NEW p \in GetOp, ClientGet(p) PROVE Still
  BY <1>2 DEF ClientGet, GetMetadataFromNode, GetFound, GetFailedHere, TryNextNode
<1>3. ASSUME NEW p \in PutOp, ClientPut(p), p # o PROVE Still
  BY <1>3 DEF ClientPut, PutMetadataToNode, PutAcked, PutFailedHere, TryNextNode
<1>4. CASE PutMetadataToNode(o)
  BY <1>4 DEF PutMetadataToNode
<1>5. CASE PutAcked(o)
  BY <1>5 DEF PutAcked
<1>6. CASE PutFailedHere(o)
  BY <1>6 DEF PutFailedHere, TryNextNode
<1> QED
  BY <1>1, <1>2, <1>3, <1>4, <1>5, <1>6, ClientMoves DEF ClientPut

\* Only the client and the thread before start a thread.
LEMMA ThreadBegins ==
    ASSUME TailMayDie, TypeOK, LinkInv, ThreadInv, AliveInv, [Next]_vars,
           NEW o \in PutOp, NEW e \in Node, NEW n \in Node,
           putPc[<<o, e, n>>] = "none", putPc'[<<o, e, n>>] # "none"
    PROVE  \/ PutMetadataToNode(o) /\ e = cursor[o] /\ n = cursor[o]
           \/ n - 1 \in Node /\ PassesOn(o, e, n - 1)
<1> USE DEF TypeOK
<1>1. ~UNCHANGED <<putPc, callee>>
  OBVIOUS
<1>2. ASSUME NEW p \in PutOp, PutMetadataToNode(p)
      PROVE  PutMetadataToNode(o) /\ e = cursor[o] /\ n = cursor[o]
  BY <1>2 DEF PutMetadataToNode
<1>3. ASSUME NEW p \in PutOp, NEW d \in Node, NEW m \in Node, NEW to \in PutPc, MovesTo(p, d, m, to)
      PROVE  FALSE
  BY <1>3 DEF MovesTo
<1>4. ASSUME NEW p \in PutOp, NEW d \in Node, NEW m \in Node, PassesOn(p, d, m)
      PROVE  n - 1 \in Node /\ PassesOn(o, e, n - 1)
  <2>1. m + 1 \in Node /\ putPc' = [putPc EXCEPT ![<<p, d, m>>] = "waiting", ![<<p, d, m + 1>>] = "recv"]
        /\ putPc[<<p, d, m>>] = "forward"
    BY <1>4 DEF PassesOn
  <2>2. <<o, e, n>> = <<p, d, m + 1>>
    BY <2>1
  <2>3. n - 1 = m
    BY <2>2
  <2> QED
    BY <1>4, <2>2, <2>3
<1> QED
  BY <1>1, <1>2, <1>3, <1>4, LineMoves

\* Threads are only ever those of nodes the upload has tried.
LEMMA EntryStep ==
    ASSUME TailMayDie, TypeOK, LinkInv, ThreadInv, AliveInv, EntryInv, [Next]_vars
    PROVE  EntryInv'
<1> SUFFICES ASSUME NEW o \in PutOp, NEW e \in Node, NEW n \in Node, putPc'[<<o, e, n>>] # "none"
             PROVE  /\ e <= n /\ e <= cursor'[o]
                    /\ opState'[o] # "idle"
                    /\ e = cursor'[o] => opState'[o] # "trying"
  BY DEF EntryInv
<1>c. cursor[o] \in Int
  BY DEF TypeOK
<1>1. CASE putPc[<<o, e, n>>] # "none"
  <2>1. /\ e <= n /\ e <= cursor[o]
        /\ opState[o] # "idle"
        /\ e = cursor[o] => opState[o] # "trying"
    BY <1>1 DEF EntryInv
  <2>2. \/ cursor'[o] = cursor[o] /\ opState'[o] # "idle" /\ (opState'[o] = "trying" => opState[o] = "trying")
        \/ cursor'[o] = cursor[o] + 1 /\ opState'[o] # "idle"
    BY <2>1, UploadMoves
  <2> QED
    BY <1>c, <2>1, <2>2
<1>2. CASE putPc[<<o, e, n>>] = "none"
  <2>1. CASE PutMetadataToNode(o) /\ e = cursor[o] /\ n = cursor[o]
    BY <1>c, <2>1 DEF PutMetadataToNode, TypeOK
  <2>2. CASE n - 1 \in Node /\ PassesOn(o, e, n - 1)
    <3>1. putPc[<<o, e, n - 1>>] # "none" /\ UNCHANGED <<opState, cursor>>
      BY <2>2 DEF PassesOn, clientVars
    <3> QED
      BY <2>2, <3>1 DEF EntryInv
  <2> QED
    BY <1>2, <2>1, <2>2, ThreadBegins
<1> QED
  BY <1>1, <1>2

\* Nobody is ahead of a thread that has not passed its PUT on.
LEMMA AheadStep ==
    ASSUME TailMayDie, TypeOK, LinkInv, ThreadInv, AliveInv, EntryInv, AheadInv, [Next]_vars
    PROVE  AheadInv'
<1> DEFINE Early == {"none", "recv", "stored", "forward"}
<1> SUFFICES ASSUME NEW o \in PutOp, NEW e \in Node, NEW n \in Node, e <= n,
                    putPc'[<<o, e, n>>] \in Early,
                    NEW m \in n + 1..N
             PROVE  putPc'[<<o, e, m>>] = "none"
  BY DEF AheadInv
<1>m. m \in Node /\ n < m
  OBVIOUS
<1>1. CASE putPc[<<o, e, n>>] \in Early
  <2>1. putPc[<<o, e, m>>] = "none"
    BY <1>1, <1>m DEF AheadInv
  <2>2. CASE PutMetadataToNode(o) /\ e = cursor[o] /\ m = cursor[o]
    BY <1>m, <2>2
  <2>3. CASE m - 1 \in Node /\ PassesOn(o, e, m - 1)
    <3>1. putPc[<<o, e, m - 1>>] = "forward" /\ putPc'[<<o, e, m - 1>>] = "waiting"
      BY <1>m, <2>3 DEF PassesOn, TypeOK
    <3>2. m - 1 # n /\ m - 1 \in n + 1..N
      BY <1>m, <2>3, <3>1
    <3> QED
      BY <1>1, <3>1, <3>2 DEF AheadInv
  <2> QED
    BY <1>m, <2>1, <2>2, <2>3, ThreadBegins
<1>2. CASE putPc[<<o, e, n>>] \notin Early
  <2>1. ~UNCHANGED <<putPc, callee>>
    BY <1>2
  <2>2. ASSUME NEW p \in PutOp, PutMetadataToNode(p) PROVE FALSE
    <3>1. p = o /\ e = cursor[o] /\ opState[o] = "trying"
      BY <1>2, <2>2 DEF PutMetadataToNode, TypeOK
    <3> QED
      BY <1>2, <3>1 DEF EntryInv
  <2>3. ASSUME NEW p \in PutOp, NEW d \in Node, NEW k \in Node, NEW to \in PutPc, MovesTo(p, d, k, to)
        PROVE  FALSE
    BY <1>2, <2>3 DEF MovesTo, TypeOK
  <2>4. ASSUME NEW p \in PutOp, NEW d \in Node, NEW k \in Node, PassesOn(p, d, k)
        PROVE  FALSE
    <3>1. k + 1 \in Node /\ putPc[<<p, d, k>>] = "forward"
      BY <2>4 DEF PassesOn
    <3>2. <<o, e, n>> = <<p, d, k + 1>>
      BY <1>2, <2>4, <3>1 DEF PassesOn, TypeOK
    <3>3. d <= k /\ putPc[<<p, d, k + 1>>] = "none"
      BY <3>1 DEF EntryInv, AheadInv
    <3> QED
      BY <1>2, <3>2, <3>3
  <2> QED
    BY <2>1, <2>2, <2>3, <2>4, LineMoves
<1> QED
  BY <1>1, <1>2

\* The invariant for one thread.
LEMMA EverybodyWaits ==
    ASSUME BehindInv, NEW o \in PutOp, NEW e \in Node, NEW n \in Node,
           putPc[<<o, e, n>>] \in Active, Up(n)
    PROVE  /\ opState[o] = "waiting" /\ cursor[o] = e
           /\ \A m \in e..n - 1 : putPc[<<o, e, m>>] = "waiting"
BY DEF BehindInv

\* While a thread on a node that is up works, neither the threads behind it nor its
\* client have an answer.
LEMMA NoAnswerYet ==
    ASSUME TypeOK, AliveInv, EntryInv, BehindInv,
           NEW o \in PutOp, NEW e \in Node, NEW n \in Node, putPc[<<o, e, n>>] \in Active, Up(n),
           NEW k \in e..n
    PROVE  putPc[<<o, e, k>>] # "ack" /\ ~Refused(o, e, k)
<1>1. k \in Node /\ Up(k)
  BY DEF AliveInv
<1>2. putPc[<<o, e, k>>] \in Active
  <2>1. CASE k = n
    BY <2>1
  <2>2. CASE k # n
    <3>1. k \in e..n - 1
      BY <2>2
    <3> QED
      BY <3>1 DEF BehindInv, Active
  <2> QED
    BY <2>1, <2>2
<1> QED
  BY <1>1, <1>2 DEF Refused, Active

\* What BehindInv says of one thread.
WaitBehind(o, e, n) ==
    /\ opState[o] = "waiting" /\ cursor[o] = e
    /\ \A m \in e..n - 1 : putPc[<<o, e, m>>] = "waiting"
LEMMA BehindOne ==
    ASSUME BehindInv, NEW o \in PutOp, NEW e \in Node, NEW n \in Node,
           putPc[<<o, e, n>>] \in Active, Up(n)
    PROVE  WaitBehind(o, e, n)
BY DEF BehindInv, WaitBehind

\* Behind a working thread everybody goes on waiting.
LEMMA BehindStep ==
    ASSUME TailMayDie, TypeOK, TypeOK', LinkInv, ThreadInv, AliveInv, AliveInv', EntryInv, BehindInv,
           [Next]_vars
    PROVE  BehindInv'
<1> SUFFICES ASSUME NEW o \in PutOp, NEW e \in Node, NEW n \in Node,
                    putPc'[<<o, e, n>>] \in Active, Up(n)'
             PROVE  /\ opState'[o] = "waiting" /\ cursor'[o] = e
                    /\ \A m \in e..n - 1 : putPc'[<<o, e, m>>] = "waiting"
  BY DEF BehindInv
<1>u. Up(n)
  BY GoneForGood
<1>1. CASE UNCHANGED <<putPc, callee>>
  <2>1. /\ opState[o] = "waiting" /\ cursor[o] = e /\ e <= n
        /\ \A m \in e..n - 1 : putPc[<<o, e, m>>] = "waiting"
    BY <1>1, <1>u DEF BehindInv, EntryInv, Active
  <2>2. putPc[<<o, e, e>>] # "ack" /\ ~Refused(o, e, e)
    <3>1. e \in e..n
      BY <2>1
    <3> QED
      BY <1>1, <1>u, <3>1, NoAnswerYet
  <2>3. opState'[o] = opState[o] /\ cursor'[o] = cursor[o]
    BY <2>1, <2>2, UploadMoves
  <2> QED
    BY <1>1, <2>1, <2>3
<1>2. ASSUME NEW p \in PutOp, PutMetadataToNode(p)
      PROVE  /\ opState'[o] = "waiting" /\ cursor'[o] = e
             /\ \A m \in e..n - 1 : putPc'[<<o, e, m>>] = "waiting"
  <2>1. PICK c \in Node : c = cursor[p]
    BY DEF TypeOK
  <2>2. /\ putPc' = [putPc EXCEPT ![<<p, c, c>>] = "recv"]
        /\ opState[p] = "trying"
        /\ opState' = [opState EXCEPT ![p] = "waiting"]
        /\ cursor' = cursor
    BY <1>2, <2>1 DEF PutMetadataToNode
  <2>3. CASE <<o, e, n>> = <<p, c, c>>
    <3>1. opState'[o] = "waiting" /\ cursor'[o] = e
      BY <2>1, <2>2, <2>3 DEF TypeOK
    <3>2. \A m \in e..n - 1 : FALSE
      <4>1. e = n /\ n \in 1..N
        BY <2>3
      <4> QED
        BY <4>1
    <3> QED
      BY <3>1, <3>2
  <2>4. CASE <<o, e, n>> # <<p, c, c>>
    <3>1. putPc[<<o, e, n>>] \in Active
      BY <2>2, <2>4 DEF TypeOK
    <3>w. WaitBehind(o, e, n)
      BY <1>u, <3>1, BehindOne
    <3>2. /\ opState[o] = "waiting" /\ cursor[o] = e
          /\ \A m \in e..n - 1 : putPc[<<o, e, m>>] = "waiting"
      BY <3>w, Zenon DEF WaitBehind
    <3>3. o # p
      BY <2>2, <3>2
    <3>4. \A m \in Node : putPc'[<<o, e, m>>] = putPc[<<o, e, m>>]
      BY <2>2, <3>3 DEF TypeOK
    <3> QED
      BY <2>2, <3>2, <3>3, <3>4 DEF TypeOK
  <2> QED
    BY <2>3, <2>4
<1>3. ASSUME NEW p \in PutOp, NEW d \in Node, NEW k \in Node, NEW to \in PutPc, MovesTo(p, d, k, to)
      PROVE  /\ opState'[o] = "waiting" /\ cursor'[o] = e
             /\ \A m \in e..n - 1 : putPc'[<<o, e, m>>] = "waiting"
  <2>1. /\ putPc' = [putPc EXCEPT ![<<p, d, k>>] = to]
        /\ UNCHANGED <<opState, cursor>>
        /\ to \in Active => putPc[<<p, d, k>>] \in Active
    BY <1>3 DEF MovesTo, clientVars, Active
  <2>2. putPc[<<o, e, n>>] \in Active
    BY <2>1 DEF TypeOK
  <2>3. /\ opState[o] = "waiting" /\ cursor[o] = e /\ e <= n
        /\ \A m \in e..n - 1 : putPc[<<o, e, m>>] = "waiting"
    BY <1>u, <2>2 DEF BehindInv, EntryInv, Active
  <2>4. ASSUME NEW m \in e..n - 1 PROVE putPc'[<<o, e, m>>] = "waiting"
    <3>1. m \in Node /\ m + 1 \in e..n /\ putPc[<<o, e, m>>] = "waiting"
      BY <2>3
    <3>2. putPc[<<o, e, m + 1>>] # "ack" /\ ~Refused(o, e, m + 1)
      BY <1>u, <2>2, <3>1, NoAnswerYet
    <3>3. <<o, e, m>> # <<p, d, k>>
      BY <1>3, <3>1, <3>2 DEF MovesTo
    <3> QED
      BY <2>1, <3>1, <3>3 DEF TypeOK
  <2> QED
    BY <2>1, <2>3, <2>4
<1>4. ASSUME NEW p \in PutOp, NEW d \in Node, NEW k \in Node, PassesOn(p, d, k)
      PROVE  /\ opState'[o] = "waiting" /\ cursor'[o] = e
             /\ \A m \in e..n - 1 : putPc'[<<o, e, m>>] = "waiting"
  <2>1. /\ k + 1 \in Node /\ k < N /\ Up(k)
        /\ putPc' = [putPc EXCEPT ![<<p, d, k>>] = "waiting", ![<<p, d, k + 1>>] = "recv"]
        /\ UNCHANGED <<opState, cursor>>
        /\ putPc[<<p, d, k>>] = "forward"
        /\ d <= k
    BY <1>4 DEF PassesOn, clientVars, AliveInv, EntryInv
  <2>2. CASE <<o, e, n>> = <<p, d, k + 1>>
    <3>1. /\ opState[o] = "waiting" /\ cursor[o] = e
          /\ \A m \in e..k - 1 : putPc[<<o, e, m>>] = "waiting"
      BY <2>1, <2>2 DEF BehindInv, Active
    <3>2. ASSUME NEW m \in e..n - 1 PROVE putPc'[<<o, e, m>>] = "waiting"
      <4>1. CASE m = k
        BY <2>1, <2>2, <4>1 DEF TypeOK
      <4>2. CASE m # k
        <5>1. m \in e..k - 1 /\ m \in Node
          BY <2>2, <4>2
        <5> QED
          BY <2>1, <2>2, <3>1, <5>1 DEF TypeOK
      <4> QED
        BY <4>1, <4>2
    <3> QED
      BY <2>1, <3>1, <3>2
  <2>3. CASE <<o, e, n>> # <<p, d, k + 1>>
    <3>1. putPc[<<o, e, n>>] \in Active
      <4>1. CASE <<o, e, n>> = <<p, d, k>>
        BY <2>1, <4>1 DEF Active
      <4>2. CASE <<o, e, n>> # <<p, d, k>>
        BY <2>1, <2>3, <4>2 DEF TypeOK
      <4> QED
        BY <4>1, <4>2
    <3>2. /\ opState[o] = "waiting" /\ cursor[o] = e
          /\ \A m \in e..n - 1 : putPc[<<o, e, m>>] = "waiting"
      BY <1>u, <3>1, EverybodyWaits
    <3>3. ASSUME NEW m \in e..n - 1 PROVE putPc'[<<o, e, m>>] = "waiting"
      <4>1. m \in Node /\ putPc[<<o, e, m>>] = "waiting"
        BY <3>2
      <4>2. <<o, e, m>> # <<p, d, k + 1>>
        <5> SUFFICES ASSUME <<o, e, m>> = <<p, d, k + 1>> PROVE FALSE
          OBVIOUS
        <5>1. k \in e..n - 1
          BY <2>1
        <5> QED
          BY <2>1, <3>2, <5>1
      <4> QED
        BY <2>1, <4>1, <4>2 DEF TypeOK
    <3> QED
      BY <2>1, <3>2, <3>3
  <2> QED
    BY <2>2, <2>3
<1> QED
  BY <1>1, <1>2, <1>3, <1>4, LineMoves

\* A thread that has replied is never run again.
LEMMA AckStays ==
    ASSUME TailMayDie, TypeOK, LinkInv, ThreadInv, AliveInv, EntryInv, AheadInv, [Next]_vars,
           NEW o \in PutOp, NEW e \in Node, NEW n \in Node, putPc[<<o, e, n>>] = "ack"
    PROVE  putPc'[<<o, e, n>>] = "ack"
<1> USE DEF TypeOK
<1>1. ASSUME NEW p \in PutOp, PutMetadataToNode(p) PROVE putPc'[<<o, e, n>>] = "ack"
  <2>1. PICK c \in Node : c = cursor[p]
    OBVIOUS
  <2>2. /\ putPc' = [putPc EXCEPT ![<<p, c, c>>] = "recv"]
        /\ opState[p] = "trying"
    BY <1>1, <2>1 DEF PutMetadataToNode
  <2>3. <<o, e, n>> # <<p, c, c>>
    BY <2>1, <2>2 DEF EntryInv
  <2> QED
    BY <2>2, <2>3
<1>2. ASSUME NEW p \in PutOp, NEW d \in Node, NEW k \in Node, NEW to \in PutPc, MovesTo(p, d, k, to)
      PROVE  putPc'[<<o, e, n>>] = "ack"
  BY <1>2 DEF MovesTo
<1>3. ASSUME NEW p \in PutOp, NEW d \in Node, NEW k \in Node, PassesOn(p, d, k)
      PROVE  putPc'[<<o, e, n>>] = "ack"
  <2>1. /\ k + 1 \in Node
        /\ putPc' = [putPc EXCEPT ![<<p, d, k>>] = "waiting", ![<<p, d, k + 1>>] = "recv"]
        /\ putPc[<<p, d, k>>] = "forward"
    BY <1>3 DEF PassesOn
  <2>2. putPc[<<p, d, k + 1>>] = "none"
    BY <2>1 DEF EntryInv, AheadInv
  <2>3. <<o, e, n>> # <<p, d, k>> /\ <<o, e, n>> # <<p, d, k + 1>>
    BY <2>1, <2>2, Zenon
  <2>4. putPc \in [PutThread -> PutPc] /\ <<o, e, n>> \in PutThread
    OBVIOUS
  <2> HIDE DEF TypeOK
  <2> QED
    BY <2>1, <2>3, <2>4
<1> QED
  BY <1>1, <1>2, <1>3, LineMoves

\* Every ACK comes from the whole line.
LEMMA AckLineStep ==
    ASSUME TailMayDie, TypeOK, TypeOK', LinkInv, ThreadInv, AliveInv, AliveInv', EntryInv, AheadInv,
           AckLineInv, [Next]_vars
    PROVE  AckLineInv'
<1>1. ASSUME NEW o \in PutOp, NEW e \in Node, NEW n \in Node, putPc'[<<o, e, n>>] = "ack",
             NEW m \in n..N, Up(m)'
      PROVE  putPc'[<<o, e, m>>] = "ack"
  <2>1. m \in Node /\ Up(m)
    BY <1>1, GoneForGood
  <2>2. CASE putPc[<<o, e, n>>] = "ack"
    <3>1. putPc[<<o, e, m>>] = "ack"
      BY <2>1, <2>2 DEF AckLineInv
    <3> QED
      BY <2>1, <3>1, AckStays
  <2>3. CASE putPc[<<o, e, n>>] # "ack"
    <3>1. ASSUME NEW p \in PutOp, PutMetadataToNode(p) PROVE FALSE
      BY <1>1, <2>3, <3>1 DEF PutMetadataToNode, TypeOK
    <3>2. ASSUME NEW p \in PutOp, NEW d \in Node, NEW k \in Node, PassesOn(p, d, k) PROVE FALSE
      BY <1>1, <2>3, <3>2 DEF PassesOn, TypeOK
    <3>3. ASSUME NEW p \in PutOp, NEW d \in Node, NEW k \in Node, NEW to \in PutPc, MovesTo(p, d, k, to)
          PROVE  putPc'[<<o, e, m>>] = "ack"
      <4>1. <<o, e, n>> = <<p, d, k>> /\ to = "ack"
        BY <1>1, <2>3, <3>3 DEF MovesTo, TypeOK
      <4>2. \/ n < N => n + 1 = N /\ Gone(N)
            \/ n < N /\ putPc[<<o, e, n + 1>>] = "ack"
        BY <3>3, <4>1 DEF MovesTo
      <4>3. CASE m = n
        BY <1>1, <4>3
      <4>4. CASE m # n
        <5>1. n < N /\ m \in n + 1..N /\ n + 1 \in Node
          BY <4>4
        <5>2. ~(n + 1 = N /\ Gone(N))
          BY <2>1, <5>1 DEF Up, Gone
        <5>3. putPc[<<o, e, m>>] = "ack"
          BY <2>1, <4>2, <5>1, <5>2 DEF AckLineInv
        <5> QED
          BY <2>1, <5>3, AckStays
      <4> QED
        BY <4>3, <4>4
    <3> QED
      BY <1>1, <2>3, <3>1, <3>2, <3>3, LineMoves
  <2> QED
    BY <2>2, <2>3
<1>2. ASSUME NEW o \in PutOp, opState'[o] = "ok"
      PROVE  putPc'[<<o, cursor'[o], cursor'[o]>>] = "ack"
  <2>1. PICK c \in Node : c = cursor[o]
    BY DEF TypeOK
  <2>2. cursor'[o] = c /\ putPc[<<o, c, c>>] = "ack"
    BY <1>2, <2>1, OkSteps DEF PutAcked, AckLineInv
  <2> QED
    BY <2>2, AckStays
<1> QED
  BY <1>1, <1>2 DEF AckLineInv

\* PUTs are refused for their names or because the tail is gone.
LEMMA RefusalStep ==
    ASSUME TailMayDie, TypeOK, TypeOK', LinkInv, ThreadInv, AliveInv, AliveInv', EntryInv,
           RefusalInv, [Next]_vars
    PROVE  RefusalInv'
<1>f. opFile' = opFile
  BY BegunStays
<1>g. /\ Gone(N) => Gone(N)'
      /\ Gone(N) => ~Up(N)
      /\ \A n \in Node : ~Up(n) => Gone(N)
  BY GoneForGood
<1>r. ASSUME NEW o \in PutOp, NEW e \in Node, NEW n \in Node, Refused(o, e, n)
      PROVE  opFile[o] \in Unparsable \/ Gone(N)
  BY <1>g, <1>r DEF Refused, RefusalInv
<1>1. ASSUME NEW o \in PutOp, cursor'[o] > 1 PROVE opFile[o] \in Unparsable \/ Gone(N)'
  <2>1. PICK c \in Node : c = cursor[o]
    BY DEF TypeOK
  <2>2. \/ cursor'[o] = c
        \/ ~Up(c)
        \/ Refused(o, c, c)
    BY <2>1, UploadMoves
  <2> QED
    BY <1>1, <1>g, <1>r, <2>1, <2>2 DEF RefusalInv
<1>2. ASSUME NEW o \in PutOp, NEW e \in Node, NEW n \in Node
      PROVE  /\ putPc'[<<o, e, n>>] \in {"error", "closed"} => opFile[o] \in Unparsable \/ Gone(N)'
             /\ putPc'[<<o, e, n>>] \in Written => opFile[o] \notin Unparsable
             /\ e = N /\ N > 1 /\ putPc'[<<o, e, n>>] # "none" => opFile[o] \in Unparsable
  <2>0. CASE putPc'[<<o, e, n>>] = putPc[<<o, e, n>>]
    BY <1>g, <2>0 DEF RefusalInv
  <2>1. ASSUME NEW p \in PutOp, PutMetadataToNode(p), putPc'[<<o, e, n>>] # putPc[<<o, e, n>>]
        PROVE  /\ putPc'[<<o, e, n>>] = "recv"
               /\ e = N /\ N > 1 => opFile[o] \in Unparsable
    <3>1. o = p /\ e = cursor[p] /\ putPc'[<<o, e, n>>] = "recv" /\ Up(e)
      BY <2>1 DEF PutMetadataToNode, TypeOK
    <3> QED
      BY <1>g, <3>1 DEF RefusalInv
  <2>2. ASSUME NEW p \in PutOp, NEW d \in Node, NEW k \in Node, NEW to \in PutPc, MovesTo(p, d, k, to),
               putPc'[<<o, e, n>>] # putPc[<<o, e, n>>]
        PROVE  /\ to \in {"error", "closed"} => opFile[o] \in Unparsable \/ Gone(N)
               /\ to \in Written => opFile[o] \notin Unparsable
               /\ putPc[<<o, e, n>>] # "none" /\ putPc'[<<o, e, n>>] = to
    <3>1. <<o, e, n>> = <<p, d, k>> /\ putPc'[<<o, e, n>>] = to
      BY <2>2 DEF MovesTo, TypeOK
    <3>2. putPc[<<o, e, n>>] # "none"
      BY <2>2, <3>1 DEF MovesTo
    <3>3. to \in Written => opFile[o] \notin Unparsable
      BY <2>2, <3>1 DEF MovesTo, Written, RefusalInv
    <3>4. to = "closed" => Gone(N)
      BY <2>2 DEF MovesTo
    <3>5. to = "error" => opFile[o] \in Unparsable \/ Gone(N) \/ (n + 1 \in Node /\ Refused(o, e, n + 1))
      BY <2>2, <3>1 DEF MovesTo
    <3> QED
      BY <1>r, <3>1, <3>2, <3>3, <3>4, <3>5
  <2>3. ASSUME NEW p \in PutOp, NEW d \in Node, NEW k \in Node, PassesOn(p, d, k),
               putPc'[<<o, e, n>>] # putPc[<<o, e, n>>]
        PROVE  /\ putPc'[<<o, e, n>>] \in {"waiting", "recv"}
               /\ opFile[o] \notin Unparsable
               /\ e = N /\ N > 1 => opFile[o] \in Unparsable
    <3>1. o = p /\ e = d /\ putPc'[<<o, e, n>>] \in {"waiting", "recv"} /\ putPc[<<p, d, k>>] = "forward"
      BY <2>3 DEF PassesOn, TypeOK
    <3> QED
      BY <3>1 DEF RefusalInv, Written
  <2> QED
    BY <1>g, <2>0, <2>1, <2>2, <2>3, LineMoves DEF RefusalInv, Written
<1> QED
  BY <1>f, <1>1, <1>2 DEF RefusalInv

\* A call that has returned has returned for good, and what it came after is known once
\* it has begun.
LEMMA ReturnedStays ==
    ASSUME TypeOK, [Next]_vars, NEW q \in Op
    PROVE  /\ opState[q] \in Returned => opState'[q] = opState[q]
           /\ opState[q] # "idle" => before'[q] = before[q]
           /\ opState'[q] = "idle" => opState[q] = "idle" /\ before'[q] = before[q]
<1> USE DEF TypeOK, clientVars, Returned
<1>1. CASE UNCHANGED clientVars
  BY <1>1
<1>2. ASSUME NEW o \in Op, Invoke(o)
      PROVE  /\ o # q => opState'[q] = opState[q] /\ before'[q] = before[q]
             /\ o = q => opState[q] = "idle" /\ opState'[q] = "trying"
  BY <1>2 DEF Invoke
<1>3. ASSUME NEW o \in PutOp, ClientPut(o)
      PROVE  /\ before' = before
             /\ o # q => opState'[q] = opState[q]
             /\ o = q => opState[q] \in {"trying", "waiting"} /\ opState'[q] # "idle"
  BY <1>3 DEF ClientPut, PutMetadataToNode, PutAcked, PutFailedHere, TryNextNode
<1>4. ASSUME NEW o \in GetOp, ClientGet(o)
      PROVE  /\ before' = before
             /\ o # q => opState'[q] = opState[q]
             /\ o = q => opState[q] \in {"trying", "waiting"} /\ opState'[q] # "idle"
  BY <1>4 DEF ClientGet, GetMetadataFromNode, GetFound, GetFailedHere, TryNextNode
<1> QED
  BY <1>1, <1>2, <1>3, <1>4, ClientMoves

\* The order of calls is one, and never changes.
LEMMA BeforeStep ==
    ASSUME TypeOK, BeforeInv, [Next]_vars
    PROVE  BeforeInv'
<1> SUFFICES ASSUME NEW q \in Op
             PROVE  /\ opState'[q] = "idle" => before'[q] = {}
                    /\ \A p \in before'[q] : opState'[p] \in Returned /\ before'[p] \subseteq before'[q]
  BY DEF BeforeInv
<1>1. opState'[q] = "idle" => before'[q] = {}
  BY ReturnedStays DEF BeforeInv
<1>2. ASSUME before'[q] = before[q], NEW p \in before'[q]
      PROVE  opState'[p] \in Returned /\ before'[p] \subseteq before'[q]
  <2>1. p \in Op /\ opState[p] \in Returned /\ before[p] \subseteq before[q]
    BY <1>2 DEF BeforeInv, TypeOK
  <2> QED
    BY <1>2, <2>1, ReturnedStays DEF Returned
<1>3. ASSUME before'[q] # before[q], NEW p \in before'[q]
      PROVE  opState'[p] \in Returned /\ before'[p] \subseteq before'[q]
  <2>1. Invoke(q)
    <3>1. ~UNCHANGED clientVars
      BY <1>3 DEF clientVars
    <3>2. ASSUME NEW o \in Op, Invoke(o) PROVE Invoke(q)
      BY <1>3, <3>2 DEF Invoke, TypeOK
    <3>3. ASSUME NEW o \in PutOp, ClientPut(o) PROVE FALSE
      BY <1>3, <3>3 DEF ClientPut, PutMetadataToNode, PutAcked, PutFailedHere
    <3>4. ASSUME NEW o \in GetOp, ClientGet(o) PROVE FALSE
      BY <1>3, <3>4 DEF ClientGet, GetMetadataFromNode, GetFound, GetFailedHere
    <3> QED
      BY <3>1, <3>2, <3>3, <3>4, ClientMoves
  <2>2. before'[q] = {w \in Op : opState[w] \in Returned}
    BY <2>1 DEF Invoke, TypeOK
  <2>3. p \in Op /\ opState[p] \in Returned
    BY <1>3, <2>2
  <2>4. opState'[p] = opState[p] /\ before'[p] = before[p]
    BY <2>3, ReturnedStays DEF Returned
  <2>5. before[p] \subseteq before'[q]
    BY <2>2, <2>3 DEF BeforeInv, TypeOK
  <2> QED
    BY <2>3, <2>4, <2>5
<1> QED
  BY <1>1, <1>2, <1>3

\* A thread writes by storing its record, and only for an upload that waits.
LEMMA WritesStore ==
    ASSUME TailMayDie, TypeOK, AliveInv, [Next]_vars,
           NEW o \in PutOp, NEW e \in Node, NEW n \in Node,
           putPc[<<o, e, n>>] \notin Written, putPc'[<<o, e, n>>] \in Written
    PROVE  HandlePutStore(o, e, n)
<1> USE DEF TypeOK, Written
<1>1. ~UNCHANGED <<putPc, callee>>
  OBVIOUS
<1>2. ASSUME NEW p \in PutOp, PutMetadataToNode(p) PROVE FALSE
  BY <1>2 DEF PutMetadataToNode
<1>3. ASSUME NEW p \in PutOp, NEW d \in Node, NEW m \in Node, PutThreadStep(p, d, m)
      PROVE  HandlePutStore(o, e, n)
  <2>1. CASE HandlePutStore(p, d, m)
    BY <2>1 DEF HandlePutStore
  <2>2. CASE HandlePutBadArgs(p, d, m)
    BY <2>2 DEF HandlePutBadArgs, PutReply, Reply
  <2>3. CASE HandlePutDecide(p, d, m)
    BY <2>3 DEF HandlePutDecide, PutReply, Reply
  <2>4. CASE ForwardPutNoConnection(p, d, m)
    BY <2>4 DEF ForwardPutNoConnection, ConnectFailed, PutReply, Reply
  <2>5. CASE ForwardPut(p, d, m)
    BY <2>5 DEF ForwardPut
  <2>6. CASE ForwardPutAcked(p, d, m)
    BY <2>6 DEF ForwardPutAcked, PutReply, Reply
  <2>7. CASE ForwardPutRefused(p, d, m)
    BY <2>7 DEF ForwardPutRefused, PutReply, Reply
  <2> QED
    BY <1>3, <2>1, <2>2, <2>3, <2>4, <2>5, <2>6, <2>7 DEF PutThreadStep
<1> QED
  BY <1>1, <1>2, <1>3, ThreadMoves, NothingStarts

\* What an upload has written is overwritten only by uploads that had not returned
\* when it began.
LEMMA OrderStep ==
    ASSUME TailMayDie, TypeOK, TypeOK', AliveInv, AliveInv', EntryInv, BehindInv, BeforeInv, OrderInv,
           [Next]_vars
    PROVE  OrderInv'
<1> SUFFICES ASSUME NEW o \in PutOp, NEW e \in Node, NEW n \in Node,
                    putPc'[<<o, e, n>>] \in Written, Up(n)'
             PROVE  (metadataStore[n][Name(o)] \notin before[o])'
  BY DEF OrderInv
<1>u. Up(n)
  BY GoneForGood
<1>o. putPc[<<o, e, n>>] # "none"
  BY WritesStore DEF HandlePutStore, Written
<1>b. before'[o] = before[o] /\ Name(o)' = Name(o) /\ Name(o) \in File
  BY <1>o, ReturnedStays, BegunStays DEF EntryInv, Name, TypeOK
<1>s. ASSUME NEW p \in PutOp, NEW d \in Node, HandlePutStore(p, d, n)
      PROVE  p \notin before[o]
  <2>1. putPc[<<p, d, n>>] = "recv"
    BY <1>s DEF HandlePutStore
  <2>2. opState[p] = "waiting"
    BY <1>u, <2>1 DEF BehindInv, Active
  <2> QED
    BY <2>2 DEF BeforeInv, Returned
<1>1. CASE metadataStore'[n][Name(o)] = metadataStore[n][Name(o)] /\ putPc[<<o, e, n>>] \in Written
  BY <1>1, <1>b, <1>u DEF OrderInv
<1>2. ASSUME NEW p \in PutOp, NEW d \in Node, HandlePutStore(p, d, n),
             Name(p) = Name(o)
      PROVE  (metadataStore[n][Name(o)] \notin before[o])'
  <2>1. metadataStore'[n][Name(o)] = p
    BY <1>2, <1>b DEF HandlePutStore, Assigned, TypeOK
  <2> QED
    BY <1>2, <1>b, <1>s, <2>1
<1>3. putPc[<<o, e, n>>] \notin Written => HandlePutStore(o, e, n)
  BY WritesStore
<1>4. ASSUME NEW p \in PutOp, NEW d \in Node, NEW m \in Node, HandlePutStore(p, d, m),
             ~(m = n /\ Name(p) = Name(o))
      PROVE  metadataStore'[n][Name(o)] = metadataStore[n][Name(o)]
  <2>1. metadataStore' = [metadataStore EXCEPT ![m] = [metadataStore[m] EXCEPT ![Name(p)] = p]]
    BY <1>4 DEF HandlePutStore, Assigned
  <2>2. Name(p) \in File
    BY DEF Name, TypeOK
  <2> QED
    BY <1>4, <1>b, <2>1, <2>2 DEF TypeOK
<1> QED
  BY <1>1, <1>2, <1>3, <1>4, StoreSteps, NothingStarts

\* A record that was fresh for a call that had begun stays fresh for it.
LEMMA FreshStays ==
    ASSUME TypeOK, BeforeInv, [Next]_vars, NEW r \in Op, NEW p, opState[r] # "idle", Fresh(r, p)
    PROVE  Fresh(r, p)'
<1> SUFFICES ASSUME NEW w \in PutOp, w \in before'[r], opState'[w] = "ok", Name(w)' = Name(r)'
             PROVE  p \notin before'[w]
  BY DEF Fresh
<1>1. before'[r] = before[r] /\ opFile' = opFile
  BY ReturnedStays, BegunStays
<1>2. opState[w] \in Returned
  BY <1>1 DEF BeforeInv
<1>3. opState[w] = "ok" /\ before'[w] = before[w]
  BY <1>2, ReturnedStays DEF Returned
<1>4. Name(w) = Name(r)
  BY <1>1 DEF Name
<1> QED
  BY <1>1, <1>3, <1>4 DEF Fresh

\* What a node that answers GETs holds is fresh: every acknowledged upload wrote to it.
LEMMA ServedIsFresh ==
    ASSUME TypeOK, AckLineInv, RefusalInv, OrderInv,
           NEW r \in GetOp, NEW n \in Node, Up(n), n = N \/ n + 1 = N
    PROVE  Fresh(r, metadataStore[n][Name(r)])
<1> SUFFICES ASSUME NEW w \in PutOp, w \in before[r], opState[w] = "ok", Name(w) = Name(r)
             PROVE  metadataStore[n][Name(w)] \notin before[w]
  BY DEF Fresh
<1>1. PICK c \in Node : c = cursor[w]
  BY DEF TypeOK
<1>2. putPc[<<w, c, c>>] = "ack"
  BY <1>1 DEF AckLineInv
<1>3. opFile[w] \notin Unparsable
  BY <1>2 DEF RefusalInv, Written
<1>4. c = N /\ N > 1 => FALSE
  BY <1>2, <1>3 DEF RefusalInv
<1>5. n \in c..N
  BY <1>4
<1>6. putPc[<<w, c, n>>] = "ack"
  BY <1>2, <1>5 DEF AckLineInv
<1> QED
  BY <1>6 DEF OrderInv, Written

\* Answers come from a node that every acknowledged upload wrote to, and stay fresh.
LEMMA ReadStep ==
    ASSUME TailMayDie, TypeOK, TypeOK', LinkInv, AliveInv, AliveInv', AckLineInv, RefusalInv,
           BeforeInv, OrderInv, ReadInv, [Next]_vars
    PROVE  ReadInv'
<1>1. ASSUME NEW r \in GetOp, NEW n \in Node
      PROVE  /\ getPc'[<<r, n>>] # "none" => opState'[r] # "idle"
             /\ getPc'[<<r, n>>] = "lookup" => n = N \/ (n + 1 = N /\ Gone(N)')
             /\ getPc'[<<r, n>>] = "found" => Fresh(r, answer[<<r, n>>])'
  <2>1. CASE getPc'[<<r, n>>] = getPc[<<r, n>>] /\ answer'[<<r, n>>] = answer[<<r, n>>]
    <3>1. getPc'[<<r, n>>] # "none" => opState'[r] # "idle"
      BY <2>1, BegunStays DEF ReadInv
    <3>2. getPc'[<<r, n>>] = "lookup" => n = N \/ (n + 1 = N /\ Gone(N)')
      BY <2>1, GoneForGood DEF ReadInv
    <3>3. ASSUME getPc'[<<r, n>>] = "found" PROVE Fresh(r, answer[<<r, n>>])'
      <4>1. PICK p : p = answer[<<r, n>>]
        OBVIOUS
      <4>2. opState[r] # "idle" /\ Fresh(r, p)
        BY <2>1, <3>3, <4>1 DEF ReadInv
      <4>3. Fresh(r, p)'
        BY <4>2, FreshStays
      <4> QED
        BY <2>1, <4>1, <4>3 DEF Fresh
    <3> QED
      BY <3>1, <3>2, <3>3
  <2>2. ASSUME NEW q \in GetOp, GetMetadataFromNode(q),
               ~(getPc'[<<r, n>>] = getPc[<<r, n>>] /\ answer'[<<r, n>>] = answer[<<r, n>>])
        PROVE  getPc'[<<r, n>>] = "recv" /\ opState'[r] # "idle"
    BY <2>2 DEF GetMetadataFromNode, TypeOK
  <2>3. ASSUME NEW q \in GetOp, NEW m \in Node, HandleGetRole(q, m),
               ~(getPc'[<<r, n>>] = getPc[<<r, n>>] /\ answer'[<<r, n>>] = answer[<<r, n>>])
        PROVE  /\ getPc'[<<r, n>>] # "found" /\ opState'[r] # "idle"
               /\ getPc'[<<r, n>>] = "lookup" => n = N \/ (n + 1 = N /\ Gone(N)')
    <3>1. /\ q = r /\ m = n /\ getPc[<<r, n>>] = "recv"
          /\ getPc'[<<r, n>>] = IF Serves(n) THEN "lookup" ELSE Reply(n, "redirect")
      BY <2>3 DEF HandleGetRole, TypeOK
    <3>2. getPc'[<<r, n>>] # "found"
      BY <3>1 DEF Reply
    <3>3. opState'[r] # "idle"
      BY <3>1, BegunStays DEF ReadInv
    <3>4. ASSUME getPc'[<<r, n>>] = "lookup", n < N PROVE n + 1 = N /\ Gone(N)'
      <4>1. role[n] \in Serving
        BY <3>1, <3>4 DEF Serves, Reply
      <4>2. n + 1 \in Node /\ Gone(n + 1)
        BY <3>4, <4>1 DEF LinkInv
      <4> QED
        BY <4>2, GoneForGood DEF Up, Gone
    <3>5. n < N \/ n = N
      OBVIOUS
    <3> QED
      BY <3>2, <3>3, <3>4, <3>5
  <2>4. ASSUME NEW q \in GetOp, NEW m \in Node, HandleGetLookup(q, m),
               ~(getPc'[<<r, n>>] = getPc[<<r, n>>] /\ answer'[<<r, n>>] = answer[<<r, n>>])
        PROVE  /\ getPc'[<<r, n>>] # "lookup" /\ opState'[r] # "idle"
               /\ getPc'[<<r, n>>] = "found" => Fresh(r, answer[<<r, n>>])'
    <3>1. q = r /\ m = n
      BY <2>4 DEF HandleGetLookup, TypeOK
    <3>2. /\ getPc[<<r, n>>] = "lookup"
          /\ answer'[<<r, n>>] = metadataStore[n][Name(r)]
          /\ getPc'[<<r, n>>] = Reply(n, IF metadataStore[n][Name(r)] = NoMeta THEN "notfound" ELSE "found")
      BY <2>4, <3>1 DEF HandleGetLookup, TypeOK
    <3>3. opState[r] # "idle" /\ opState'[r] # "idle" /\ getPc'[<<r, n>>] # "lookup"
      BY <3>2, BegunStays DEF ReadInv, Reply
    <3>4. ASSUME getPc'[<<r, n>>] = "found" PROVE Fresh(r, answer[<<r, n>>])'
      <4>1. PICK p : p = metadataStore[n][Name(r)]
        OBVIOUS
      <4>2. Up(n) /\ (n = N \/ n + 1 = N)
        BY <3>2, <3>4 DEF ReadInv, Reply
      <4>3. Fresh(r, p)
        BY <4>1, <4>2, ServedIsFresh
      <4>4. Fresh(r, p)'
        BY <3>3, <4>3, FreshStays
      <4> QED
        BY <3>2, <4>1, <4>4 DEF Fresh
    <3> QED
      BY <3>3, <3>4
  <2> QED
    BY <2>1, <2>2, <2>3, <2>4, GetMoves, NothingStarts
<1>2. ASSUME NEW r \in GetOp, opState'[r] = "ok" PROVE Fresh(r, result[r])'
  <2>1. CASE opState[r] = "ok" /\ result'[r] = result[r]
    <3>1. PICK p : p = result[r]
      OBVIOUS
    <3>2. Fresh(r, p)'
      BY <2>1, <3>1, FreshStays DEF ReadInv
    <3> QED
      BY <2>1, <3>1, <3>2 DEF Fresh
  <2>2. CASE GetFound(r)
    <3>1. PICK c \in Node : c = cursor[r]
      BY DEF TypeOK
    <3>2. PICK p : p = answer[<<r, c>>]
      OBVIOUS
    <3>3. getPc[<<r, c>>] = "found" /\ result'[r] = p /\ opState[r] = "waiting"
      BY <2>2, <3>1, <3>2 DEF GetFound, TypeOK
    <3>4. Fresh(r, p)'
      BY <3>2, <3>3, FreshStays DEF ReadInv
    <3> QED
      BY <3>3, <3>4 DEF Fresh
  <2> QED
    BY <1>2, <2>1, <2>2, GetOkSteps
<1> QED
  BY <1>1, <1>2 DEF ReadInv

\* The invariant holds of the chain as it is configured.
LEMMA InitReads == TailMayDie /\ Init => ReadsInv
<1> SUFFICES ASSUME TailMayDie, Init PROVE ReadsInv
  OBVIOUS
<1>1. DurInv /\ LockInv
  BY InitDurable, InitLock DEF TailMayDie
<1>2. AliveInv
  BY DEF Init, AliveInv, TailMayDie, Up
<1>3. EntryInv /\ AheadInv /\ BehindInv
  BY DEF Init, EntryInv, AheadInv, BehindInv, Active
<1>4. AckLineInv
  BY DEF Init, AckLineInv
<1>5. RefusalInv
  BY DEF Init, RefusalInv, Written
<1>6. BeforeInv /\ OrderInv /\ ReadInv
  BY DEF Init, BeforeInv, OrderInv, ReadInv, Written
<1> QED
  BY <1>1, <1>2, <1>3, <1>4, <1>5, <1>6 DEF ReadsInv

\* It is an invariant of a chain of which only the tail may die.
LEMMA ReadsAlways ==
    ASSUME TailMayDie
    PROVE  Spec => []ReadsInv
<1>1. ASSUME ReadsInv, [Next]_vars PROVE ReadsInv'
  <2> USE <1>1
  <2>0. Orderly /\ Restartable = {}
    BY DEF TailMayDie, Orderly
  <2>1. /\ TypeOK /\ StartInv /\ QuietInv /\ LinkInv /\ ThreadInv /\ AckedInv /\ LockInv
        /\ AliveInv /\ EntryInv /\ AheadInv /\ BehindInv /\ AckLineInv /\ RefusalInv
        /\ BeforeInv /\ OrderInv /\ ReadInv
    BY DEF ReadsInv, DurInv
  <2>2. DurInv' /\ LockInv'
    BY <2>0, <2>1, TypeStep, LockStep, StartStep, QuietStep, LinkStep, ThreadStep, AckedStep DEF DurInv
  <2>3. TypeOK'
    BY <2>2 DEF DurInv
  <2>4. AliveInv'
    BY <2>1, AliveStep
  <2>5. EntryInv' /\ AheadInv'
    BY <2>1, EntryStep, AheadStep
  <2>6. BehindInv'
    BY <2>1, <2>3, <2>4, BehindStep
  <2>7. AckLineInv' /\ RefusalInv'
    BY <2>1, <2>3, <2>4, AckLineStep, RefusalStep
  <2>8. BeforeInv' /\ OrderInv'
    BY <2>1, <2>3, <2>4, BeforeStep, OrderStep
  <2>9. ReadInv'
    BY <2>1, <2>3, <2>4, ReadStep
  <2> QED
    BY <2>2, <2>4, <2>5, <2>6, <2>7, <2>8, <2>9 DEF ReadsInv
<1> QED
  BY <1>1, InitReads, PTL DEF Spec

\* A download that began after an upload of its file was acknowledged never returns a
\* record that this upload had replaced: for every length of the chain, any number of
\* concurrent clients, any names and nodes that hang, and whenever the tail dies.
THEOREM ReadsAreFresh ==
    ASSUME TailMayDie
    PROVE  Spec => []ReadsSeeAckedWrites
<1>1. ReadsInv => ReadsSeeAckedWrites
  <2> SUFFICES ASSUME ReadsInv, NEW r \in GetOp, NEW w \in PutOp, opState[r] = "ok", opState[w] = "ok",
                      opFile[r] = opFile[w], w \in before[r]
               PROVE  result[r] \notin before[w]
    BY DEF ReadsSeeAckedWrites
  <2>1. Fresh(r, result[r])
    BY DEF ReadsInv, ReadInv
  <2> QED
    BY <2>1 DEF Fresh, Name
<1> QED
  BY <1>1, ReadsAlways, PTL

-----------------------------------------------------------------------------
(* Reads agree when one client object uploads.                             *)

OneUploader == \A p, q \in PutOp : Session[p] = Session[q]

\* Of two uploads that have begun one came after the other.
SerialInv ==
    \A p, q \in PutOp :
        p # q /\ opState[p] # "idle" /\ opState[q] # "idle" => p \in before[q] \/ q \in before[p]

\* A Client object runs one call at a time.
LEMMA SerialStep ==
    ASSUME OneUploader, TypeOK, SerialInv, [Next]_vars
    PROVE  SerialInv'
<1> SUFFICES ASSUME NEW p \in PutOp, NEW q \in PutOp, p # q, opState'[p] # "idle", opState'[q] # "idle"
             PROVE  p \in before'[q] \/ q \in before'[p]
  BY DEF SerialInv
<1>1. ASSUME NEW a \in PutOp, NEW b \in PutOp, a # b, opState'[a] # "idle", opState[b] = "idle",
             opState'[b] # "idle"
      PROVE  a \in before'[b]
  <2> USE DEF TypeOK, clientVars
  <2>1. ASSUME NEW o \in PutOp, ClientPut(o) PROVE opState'[b] = opState[b]
    BY <1>1, <2>1 DEF ClientPut, PutMetadataToNode, PutAcked, PutFailedHere, TryNextNode
  <2>2. ASSUME NEW o \in GetOp, ClientGet(o) PROVE opState'[b] = opState[b]
    BY <1>1, <2>2 DEF ClientGet, GetMetadataFromNode, GetFound, GetFailedHere, TryNextNode
  <2>3. ASSUME NEW o \in Op, Invoke(o) PROVE Invoke(b)
    BY <1>1, <2>3 DEF Invoke
  <2>4. Invoke(b)
    BY <1>1, <2>1, <2>2, <2>3, ClientMoves
  <2>5. opState[a] \in {"idle"} \cup Returned /\ opState[a] = opState'[a]
    BY <1>1, <2>4 DEF Invoke, OneUploader
  <2> QED
    BY <1>1, <2>4, <2>5 DEF Invoke
<1>2. CASE opState[p] = "idle"
  BY <1>1, <1>2
<1>3. CASE opState[q] = "idle"
  BY <1>1, <1>3
<1>4. CASE opState[p] # "idle" /\ opState[q] # "idle"
  BY <1>4, ReturnedStays DEF SerialInv
<1> QED
  BY <1>2, <1>3, <1>4

\* Two downloads of a file, one after the other, return the same record once every upload
\* of it has been acknowledged, also when the tail dies between them: for every length of
\* the chain, if one client object makes the uploads and no two names of files agree up
\* to their first blank.
THEOREM ReadsAreStable ==
    ASSUME TailMayDie, OneUploader, NamesDiffer
    PROVE  Spec => []ReadsAgree
<1>1. Init => SerialInv
  BY DEF Init, SerialInv
<1>2. TypeOK /\ SerialInv /\ [Next]_vars => SerialInv'
  BY SerialStep
<1>3. ReadsInv /\ NamesInv /\ SerialInv => ReadsAgree
  <2> SUFFICES ASSUME ReadsInv, NamesInv, SerialInv, NEW r \in GetOp, NEW s \in GetOp,
                      opState[r] = "ok", opState[s] = "ok", opFile[r] = opFile[s], r \in before[s],
                      \A w \in PutOp : opFile[w] = opFile[r] /\ opState[w] # "idle" =>
                          w \in before[r] /\ opState[w] = "ok"
               PROVE  result[r] = result[s]
    BY DEF ReadsAgree
  <2>1. TypeOK /\ BeforeInv
    BY DEF ReadsInv, DurInv
  <2>2. Name(r) = Name(s)
    BY DEF Name
  <2>3. ASSUME NEW t \in {r, s}
        PROVE  /\ result[t] \in PutOp /\ Name(result[t]) = Name(r)
               /\ result[t] \in before[r] /\ opState[result[t]] = "ok"
               /\ Fresh(t, result[t])
    <3>1. RecordOf(result[t], Name(t)) /\ Fresh(t, result[t]) /\ opState[t] = "ok"
      BY <2>3 DEF NamesInv, ReadsInv, ReadInv
    <3>2. opFile[result[t]] = opFile[r]
      BY <2>1, <2>3, <3>1 DEF RecordOf, Name, NamesDiffer, TypeOK
    <3> QED
      BY <2>2, <3>1, <3>2 DEF RecordOf
  <2>4. before[r] \subseteq before[s]
    BY <2>1 DEF BeforeInv
  <2>5. result[r] \notin before[result[s]]
    BY <2>2, <2>3 DEF Fresh
  <2>6. result[s] \notin before[result[r]]
    BY <2>2, <2>3, <2>4 DEF Fresh
  <2> QED
    BY <2>3, <2>5, <2>6 DEF SerialInv
<1> QED
  BY <1>1, <1>2, <1>3, ReadsAlways, NamesAlways, PTL DEF Spec
=============================================================================
