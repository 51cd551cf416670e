--------------------------- MODULE FileStoreProofs ---------------------------
(***************************************************************************)
(* Theorems about FileStore, for any storage nodes, files, chunks, calls   *)
(* and placement of replicas.                                              *)
(***************************************************************************)
EXTENDS FileStore, FiniteSetTheorems, SequenceTheorems, TLAPS

USE StoreAssumption

\* A replica has the chunk, unless it has failed since the system started.
Safe(h, n) == n \in failed \/ h \in storage[n]
ChunkStored(h) == \A j \in DOMAIN Replicas[h] : Safe(h, Replicas[h][j])
AllStored(u) == \A i \in DOMAIN ChunksOf[u] : ChunkStored(ChunksOf[u][i])

\* A node that is down has failed; one that is up may have, too.
NodeInv == \A n \in StorageNode : status[n] = "down" => n \in failed

\* What an upload has behind it: all replicas of the chunks before its chunk, the
\* replicas before its replica, and that one too when the node has sent ACK.
Progress(u) ==
    /\ \A i \in 1..(up[u].chunk - 1) : ChunkStored(ChunksOf[u][i])
    /\ \A j \in 1..(up[u].node - 1) : Safe(UpHash(u), Replicas[UpHash(u)][j])
    /\ up[u].conn = "done" => Safe(UpHash(u), UpNode(u))
    /\ up[u].conn \in {"broken", "reset"} => UpNode(u) \in failed

\* What an upload has stored, by its state.
UpOK(u) ==
    /\ up[u].state = "idle" => up[u].chunk = 1 /\ up[u].node = 1 /\ up[u].conn = "none"
    /\ up[u].state = "chunks" => Progress(u)
    /\ up[u].state \in {"metadata", "gaveup"} => AllStored(u)
UpInv == \A u \in Upload : UpOK(u)

\* A record that can be read is that of an upload of the file, with all chunks stored.
MetaInv ==
    \A f \in File : \A u \in meta[f] : FileOf[u] = f /\ RecordOf[u] # <<>> /\ AllStored(u)

\* What a download has so far is the beginning of a record of its file, and there is a
\* replica to ask for the next chunk.
DownOK(d) ==
    /\ down[d].state = "idle" => down[d].got = <<>> /\ down[d].node = 1 /\ down[d].conn = "none"
    /\ down[d].state \in {"chunks", "ok"} =>
          /\ down[d].rec \in meta[FileOf[d]]
          /\ \A i \in 1..Len(down[d].got) : down[d].got[i] = RecordOf[down[d].rec][i]
    /\ down[d].state = "chunks" => /\ Len(down[d].got) < Len(RecordOf[down[d].rec])
                                   /\ down[d].node \in DOMAIN Replicas[DownHash(d)]
    /\ down[d].state = "ok" => Len(down[d].got) = Len(RecordOf[down[d].rec])
DownInv == \A d \in Download : DownOK(d)

\* The inductive invariant of uploads, records and downloads.
StoreInv == TypeOK /\ NodeInv /\ UpInv /\ MetaInv /\ DownInv

\* Nodes, failures and uploads at the start.
LEMMA InitStore == Init => StoreInv
<1> SUFFICES ASSUME Init PROVE StoreInv
  OBVIOUS
<1>1. ASSUME NEW u \in Upload
      PROVE  /\ [i \in DOMAIN ChunksOf[u] |-> 0] \in Seq(Nat)
             /\ Len([i \in DOMAIN ChunksOf[u] |-> 0]) = Len(ChunksOf[u])
  <2>1. Len(ChunksOf[u]) \in Nat /\ DOMAIN ChunksOf[u] = 1..Len(ChunksOf[u])
    OBVIOUS
  <2>2. ASSUME NEW k \in Nat PROVE [i \in 1..k |-> 0] \in Seq(Nat) /\ Len([i \in 1..k |-> 0]) = k
    OBVIOUS
  <2> QED
    BY <2>1, <2>2
<1>2. TypeOK
  BY <1>1 DEF Init, TypeOK, UpState, DownState, Conn
<1> QED
  BY <1>2 DEF Init, StoreInv, NodeInv, UpInv, UpOK, MetaInv, DownInv, DownOK

\* Only a node's failure takes chunks from it, and failures are not forgotten.
LEMMA SafeStays ==
    ASSUME TypeOK, [Next]_vars
    PROVE  /\ failed \subseteq failed'
           /\ \A h \in Chunk, n \in StorageNode : Safe(h, n) => Safe(h, n)'
<1> USE DEF TypeOK, Safe, failVars
<1> DEFINE Goal == /\ failed \subseteq failed'
                   /\ \A h \in Chunk, n \in StorageNode : Safe(h, n) => Safe(h, n)'
<1>1. ASSUME NEW u \in Upload, BeginUpload(u) \/ UploadAction(u) \/ PutMetadata(u) PROVE Goal
  <2>1. CASE HandleStoreData(u)
    BY <2>1 DEF HandleStoreData, StoreChunk
  <2>2. CASE UNCHANGED <<storage, failed>>
    BY <2>2
  <2> QED
    BY <1>1, <2>1, <2>2 DEF BeginUpload, UploadAction, PutMetadata, SendStore, HandleStore,
       SendChunk, ChunkAcked, ChunkFailed, ClientKilled, UploadReturns
<1>2. ASSUME NEW d \in Download, GetMetadata(d) \/ DownloadAction(d) PROVE Goal
  BY <1>2 DEF GetMetadata, DownloadAction, DownloadStep, SendGet, HandleGet, ChunkReceived,
     ChunkUnavailable
<1>3. ASSUME NEW n \in StorageNode, Crash(n) \/ Disconnect(n) \/ Restart(n) PROVE Goal
  BY <1>3 DEF Crash, Disconnect, Fail, Restart
<1>4. CASE UNCHANGED vars
  BY <1>4 DEF vars
<1> QED
  BY <1>1, <1>2, <1>3, <1>4 DEF Next

\* What is stored stays stored.
LEMMA StoredStays ==
    ASSUME TypeOK, [Next]_vars
    PROVE  /\ \A h \in Chunk : ChunkStored(h) => ChunkStored(h)'
           /\ \A u \in Upload : AllStored(u) => AllStored(u)'
<1>1. ASSUME NEW h \in Chunk, ChunkStored(h) PROVE ChunkStored(h)'
  <2>1. \A j \in DOMAIN Replicas[h] : Replicas[h][j] \in StorageNode
    OBVIOUS
  <2> QED
    BY <1>1, <2>1, SafeStays DEF ChunkStored
<1>2. \A u \in Upload : \A i \in DOMAIN ChunksOf[u] : ChunksOf[u][i] \in Chunk
  OBVIOUS
<1> QED
  BY <1>1, <1>2 DEF AllStored

\* An upload that a step does not concern keeps its progress.
LEMMA UploadStays ==
    ASSUME TypeOK, [Next]_vars, NEW u \in Upload, UpOK(u), up'[u] = up[u]
    PROVE  UpOK(u)'
<1>1. CASE up[u].state = "chunks"
  <2>1. up[u].chunk \in DOMAIN ChunksOf[u] /\ up[u].node \in DOMAIN Replicas[UpHash(u)]
    BY <1>1 DEF TypeOK, UpHash
  <2>2. UpHash(u) \in Chunk /\ \A j \in DOMAIN Replicas[UpHash(u)] : Replicas[UpHash(u)][j] \in StorageNode
    BY <2>1 DEF UpHash
  <2>3. UpHash(u)' = UpHash(u) /\ UpNode(u)' = UpNode(u)
    BY DEF UpHash, UpNode
  <2>4. \A i \in 1..(up[u].chunk - 1) : ChunksOf[u][i] \in Chunk
    BY <2>1
  <2>5. \A j \in 1..(up[u].node - 1) : Replicas[UpHash(u)][j] \in StorageNode
    BY <2>1, <2>2
  <2>6. UpNode(u) \in StorageNode
    BY <2>1, <2>2 DEF UpNode
  <2>7. Progress(u)
    BY <1>1 DEF UpOK
  <2>8. Progress(u)'
    BY <2>2, <2>3, <2>4, <2>5, <2>6, <2>7, SafeStays, StoredStays DEF Progress
  <2> QED
    BY <1>1, <2>8 DEF UpOK
<1>2. CASE up[u].state # "chunks"
  BY <1>2, StoredStays DEF UpOK
<1> QED
  BY <1>1, <1>2

\* What UploadNext does: the next replica, the next chunk, the metadata, or the end.
LEMMA UploadNextMoves ==
    ASSUME TypeOK, NEW u \in Upload, up[u].state = "chunks", NEW success \in {0, 1},
           UploadNext(u, success)
    PROVE  /\ up' \in [Upload -> [state : UpState, chunk : Nat, node : Nat, conn : Conn, copies : Seq(Nat)]]
           /\ \A v \in Upload : Len(up'[v].copies) = Len(ChunksOf[v])
           /\ \A v \in Upload \ {u} : up'[v] = up[v]
           /\ up'[u].conn = "none"
           /\ \/ /\ ~LastReplica(u)
                 /\ up'[u].state = "chunks"
                 /\ up'[u].chunk = up[u].chunk
                 /\ up'[u].node = up[u].node + 1
              \/ up'[u].state = "failed"
              \/ /\ LastReplica(u)
                 /\ up[u].chunk = Len(ChunksOf[u])
                 /\ up'[u].state = "metadata"
              \/ /\ LastReplica(u)
                 /\ up[u].chunk # Len(ChunksOf[u])
                 /\ up'[u].state = "chunks"
                 /\ up'[u].chunk = up[u].chunk + 1
                 /\ up'[u].node = 1
<1> DEFINE copies == up[u].copies[up[u].chunk] + success
           next   == [up[u] EXCEPT !.copies[up[u].chunk] = copies, !.conn = "none"]
           rest   == IF ~LastReplica(u) THEN [next EXCEPT !.node = @ + 1]
                     ELSE IF copies = 0 THEN [next EXCEPT !.state = "failed"]
                     ELSE [next EXCEPT !.chunk = @ + 1, !.node = 1,
                              !.state = IF up[u].chunk = Len(ChunksOf[u]) THEN "metadata" ELSE "chunks"]
<1>1. /\ up[u] \in [state : UpState, chunk : Nat, node : Nat, conn : Conn, copies : Seq(Nat)]
      /\ Len(up[u].copies) = Len(ChunksOf[u]) /\ up[u].chunk \in 1..Len(ChunksOf[u])
  BY DEF TypeOK
<1>2. copies \in Nat
  BY <1>1
<1>3. /\ [up[u].copies EXCEPT ![up[u].chunk] = copies] \in Seq(Nat)
      /\ Len([up[u].copies EXCEPT ![up[u].chunk] = copies]) = Len(ChunksOf[u])
  BY <1>1, <1>2
<1>4. next = [up[u] EXCEPT !.copies = [up[u].copies EXCEPT ![up[u].chunk] = copies], !.conn = "none"]
  BY <1>1
<1>5. /\ next \in [state : UpState, chunk : Nat, node : Nat, conn : Conn, copies : Seq(Nat)]
      /\ Len(next.copies) = Len(ChunksOf[u]) /\ next.conn = "none" /\ next.state = "chunks"
      /\ next.chunk = up[u].chunk /\ next.node = up[u].node
  BY <1>1, <1>3, <1>4 DEF Conn
<1> HIDE DEF next, copies
<1>6. up' = [up EXCEPT ![u] = rest]
  BY DEF UploadNext, next, copies
<1>7. /\ rest \in [state : UpState, chunk : Nat, node : Nat, conn : Conn, copies : Seq(Nat)]
      /\ Len(rest.copies) = Len(ChunksOf[u]) /\ rest.conn = "none"
  <2>1. CASE ~LastReplica(u)
    <3>1. rest = [next EXCEPT !.node = next.node + 1]
      BY <2>1
    <3>2. next.node + 1 \in Nat
      BY <1>5
    <3> HIDE DEF rest
    <3>3. /\ rest = [state |-> next.state, chunk |-> next.chunk, node |-> next.node + 1,
                     conn |-> next.conn, copies |-> next.copies]
          /\ next.state \in UpState /\ next.chunk \in Nat /\ next.conn \in Conn /\ next.copies \in Seq(Nat)
      BY <1>5, <3>1
    <3> QED
      BY <1>5, <3>2, <3>3
  <2>2. CASE LastReplica(u) /\ copies = 0
    BY <1>5, <2>2 DEF UpState
  <2>3. CASE LastReplica(u) /\ copies # 0
    <3>1. rest = [next EXCEPT !.chunk = next.chunk + 1, !.node = 1,
                     !.state = IF up[u].chunk = Len(ChunksOf[u]) THEN "metadata" ELSE "chunks"]
      BY <2>3
    <3> DEFINE st == IF up[u].chunk = Len(ChunksOf[u]) THEN "metadata" ELSE "chunks"
    <3>2. st \in UpState
      BY DEF UpState
    <3>3. rest = [next EXCEPT !.chunk = next.chunk + 1, !.node = 1, !.state = st]
      BY <3>1
    <3> HIDE DEF rest, st
    <3>4. /\ next = [state |-> next.state, chunk |-> next.chunk, node |-> next.node,
                     conn |-> next.conn, copies |-> next.copies]
          /\ next.chunk + 1 \in Nat /\ next.conn \in Conn /\ next.copies \in Seq(Nat)
      BY <1>5
    <3>5. rest = [state |-> st, chunk |-> next.chunk + 1, node |-> 1,
                  conn |-> next.conn, copies |-> next.copies]
      BY <3>3, <3>4
    <3> QED
      BY <1>5, <3>2, <3>4, <3>5
  <2> QED
    BY <2>1, <2>2, <2>3
<1>8. up'[u] = rest /\ \A v \in Upload \ {u} : up'[v] = up[v]
  BY <1>6 DEF TypeOK
<1> DEFINE Rec == [state : UpState, chunk : Nat, node : Nat, conn : Conn, copies : Seq(Nat)]
<1>9. up' \in [Upload -> Rec]
  <2> HIDE DEF rest, Rec
  <2>1. up \in [Upload -> Rec] /\ rest \in Rec
    BY <1>7 DEF TypeOK, Rec
  <2> QED
    BY <1>6, <2>1
<1>10. \A v \in Upload : Len(up'[v].copies) = Len(ChunksOf[v])
  BY <1>7, <1>8 DEF TypeOK
<1>11. CASE ~LastReplica(u)
  BY <1>5, <1>7, <1>8, <1>9, <1>10, <1>11
<1>12. CASE LastReplica(u) /\ copies = 0
  BY <1>5, <1>7, <1>8, <1>9, <1>10, <1>12
<1>13. CASE LastReplica(u) /\ copies # 0
  BY <1>5, <1>7, <1>8, <1>9, <1>10, <1>13
<1> QED
  BY <1>11, <1>12, <1>13

\* An index that is not the last has a successor.
LEMMA NextIndex ==
    \A k \in Nat : \A i \in 1..k : (i + 1) - 1 = i /\ (i # k => i + 1 \in 1..k)
OBVIOUS

\* A replica is done with: what was stored is behind the upload (ChunkAcked, ChunkFailed).
LEMMA ReplicaDone ==
    ASSUME StoreInv, [Next]_vars, NEW u \in Upload, up[u].state = "chunks",
           Safe(UpHash(u), UpNode(u)), NEW success \in {0, 1}, UploadNext(u, success)
    PROVE  /\ UpOK(u)'
           /\ up'[u].state = "chunks" => /\ up'[u].chunk \in DOMAIN ChunksOf[u]
                                         /\ up'[u].node \in DOMAIN Replicas[ChunksOf[u][up'[u].chunk]]
<1> USE DEF StoreInv
<1>1. /\ up[u].chunk \in 1..Len(ChunksOf[u]) /\ DOMAIN ChunksOf[u] = 1..Len(ChunksOf[u])
      /\ UpHash(u) \in Chunk
      /\ DOMAIN Replicas[UpHash(u)] = 1..Len(Replicas[UpHash(u)])
      /\ up[u].node \in 1..Len(Replicas[UpHash(u)])
      /\ \A i \in DOMAIN ChunksOf[u] : /\ ChunksOf[u][i] \in Chunk
                                        /\ 1 \in DOMAIN Replicas[ChunksOf[u][i]]
      /\ \A j \in 1..Len(Replicas[UpHash(u)]) : Replicas[UpHash(u)][j] \in StorageNode
  BY DEF TypeOK, UpHash
<1>2. \A i \in 1..(up[u].chunk - 1) : ChunkStored(ChunksOf[u][i])'
  <2>1. Progress(u)
    BY DEF UpInv, UpOK
  <2>2. ASSUME NEW i \in 1..(up[u].chunk - 1) PROVE ChunkStored(ChunksOf[u][i])'
    <3>1. i \in DOMAIN ChunksOf[u]
      BY <1>1
    <3>2. ChunksOf[u][i] \in Chunk /\ ChunkStored(ChunksOf[u][i])
      BY <1>1, <2>1, <3>1 DEF Progress
    <3> QED
      BY <3>2, StoredStays
  <2> QED
    BY <2>2
<1> PICK h \in Chunk : h = UpHash(u)
  BY <1>1
<1>3. \A j \in 1..up[u].node : Safe(h, Replicas[h][j])'
  <2>1. Progress(u)
    BY DEF UpInv, UpOK
  <2>2. ASSUME NEW j \in 1..up[u].node PROVE Safe(h, Replicas[h][j])'
    <3>1. (j \in 1..(up[u].node - 1) \/ j = up[u].node) /\ j \in 1..Len(Replicas[h])
      BY <1>1
    <3>2. Safe(h, Replicas[h][j])
      BY <2>1, <3>1 DEF Progress, UpNode
    <3>3. Replicas[h][j] \in StorageNode
      BY <1>1, <3>1
    <3> QED
      BY <3>2, <3>3, SafeStays
  <2> QED
    BY <2>2
<1>4. CASE ~LastReplica(u) /\ up'[u].state = "chunks" /\ up'[u].chunk = up[u].chunk
           /\ up'[u].node = up[u].node + 1 /\ up'[u].conn = "none"
  <2>1. UpHash(u)' = h
    BY <1>4 DEF UpHash
  <2>2. up'[u].node - 1 = up[u].node /\ up'[u].node \in 1..Len(Replicas[h])
    <3>1. Len(Replicas[h]) \in Nat /\ up[u].node \in 1..Len(Replicas[h]) /\ up[u].node # Len(Replicas[h])
      <4>1. up[u].node # Len(Replicas[h])
        BY <1>4 DEF LastReplica
      <4> QED
        BY <1>1, <4>1
    <3>2. up[u].node + 1 - 1 = up[u].node /\ up[u].node + 1 \in 1..Len(Replicas[h])
      BY <3>1, NextIndex
    <3>3. up'[u].node = up[u].node + 1
      BY <1>4
    <3>4. up'[u].node - 1 = up[u].node
      <4>1. up[u].node \in Nat
        BY <3>1
      <4> QED
        BY <3>3, <4>1
    <3>5. up'[u].node \in 1..Len(Replicas[h])
      BY <3>2, <3>3
    <3> QED
      BY <3>4, <3>5
  <2>3. Progress(u)'
    <3>1. \A i \in 1..(up'[u].chunk - 1) : ChunkStored(ChunksOf[u][i])'
      BY <1>2, <1>4
    <3>2. \A j \in 1..(up'[u].node - 1) : Safe(h, Replicas[h][j])'
      BY <1>3, <2>2
    <3>3. up'[u].conn \notin {"done", "broken", "reset"}
      BY <1>4
    <3> QED
      BY <2>1, <3>1, <3>2, <3>3 DEF Progress, Safe
  <2> QED
    BY <1>1, <1>4, <2>2, <2>3 DEF UpOK, UpHash
<1>5. CASE up'[u].state = "failed"
  BY <1>5 DEF UpOK
<1>6. LastReplica(u) => ChunkStored(h)'
  BY <1>1, <1>3 DEF LastReplica, ChunkStored
<1>7. LastReplica(u) => \A i \in 1..up[u].chunk : ChunkStored(ChunksOf[u][i])'
  <2>1. \A i \in 1..up[u].chunk : i \in 1..(up[u].chunk - 1) \/ i = up[u].chunk
    BY <1>1
  <2>2. ChunksOf[u][up[u].chunk] = h
    BY DEF UpHash
  <2> SUFFICES ASSUME LastReplica(u), NEW i \in 1..up[u].chunk PROVE ChunkStored(ChunksOf[u][i])'
    OBVIOUS
  <2>3. CASE i \in 1..(up[u].chunk - 1)
    BY <1>2, <2>3
  <2>4. CASE i = up[u].chunk
    <3>1. ChunksOf[u][i] = h
      BY <2>2, <2>4
    <3> QED
      BY <1>6, <3>1
  <2> QED
    BY <2>1, <2>3, <2>4
<1>8. CASE LastReplica(u) /\ up[u].chunk = Len(ChunksOf[u]) /\ up'[u].state = "metadata"
  BY <1>1, <1>7, <1>8 DEF UpOK, AllStored
<1>9. CASE LastReplica(u) /\ up[u].chunk # Len(ChunksOf[u]) /\ up'[u].state = "chunks"
           /\ up'[u].chunk = up[u].chunk + 1 /\ up'[u].node = 1 /\ up'[u].conn = "none"
  <2>1. up'[u].chunk \in DOMAIN ChunksOf[u] /\ up'[u].chunk - 1 = up[u].chunk
    <3>1. Len(ChunksOf[u]) \in Nat /\ up[u].chunk \in 1..Len(ChunksOf[u]) /\ up[u].chunk # Len(ChunksOf[u])
      BY <1>1, <1>9
    <3>2. up[u].chunk + 1 - 1 = up[u].chunk /\ up[u].chunk + 1 \in 1..Len(ChunksOf[u])
      BY <3>1, NextIndex
    <3> QED
      BY <1>1, <1>9, <3>2
  <2>2. Progress(u)'
    <3>1. \A i \in 1..(up'[u].chunk - 1) : ChunkStored(ChunksOf[u][i])'
      BY <1>7, <1>9, <2>1
    <3>2. 1..(up'[u].node - 1) = {} /\ up'[u].conn \notin {"done", "broken", "reset"}
      BY <1>9
    <3> QED
      BY <3>1, <3>2 DEF Progress
  <2> QED
    BY <1>1, <1>9, <2>1, <2>2 DEF UpOK
<1> QED
  BY <1>4, <1>5, <1>8, <1>9, UploadNextMoves

UpRec == [state : UpState, chunk : Nat, node : Nat, conn : Conn, copies : Seq(Nat)]
HasPlace(r, u) == r.state = "chunks" => /\ r.chunk \in DOMAIN ChunksOf[u]
                                        /\ r.node \in DOMAIN Replicas[ChunksOf[u][r.chunk]]
UpTyped ==
    /\ up \in [Upload -> UpRec]
    /\ \A u \in Upload : Len(up[u].copies) = Len(ChunksOf[u]) /\ HasPlace(up[u], u)

\* A step that changes the state and the connection of one upload only.
LEMMA UploadMoves ==
    ASSUME UpTyped, NEW u \in Upload, NEW s \in UpState, NEW c \in Conn,
           up' = [up EXCEPT ![u] = [up[u] EXCEPT !.state = s, !.conn = c]],
           s = "chunks" => HasPlace([up[u] EXCEPT !.state = "chunks"], u)
    PROVE  /\ UpTyped'
           /\ \A v \in Upload \ {u} : up'[v] = up[v]
           /\ up'[u].state = s /\ up'[u].conn = c
           /\ up'[u].chunk = up[u].chunk /\ up'[u].node = up[u].node
<1> DEFINE r == [up[u] EXCEPT !.state = s, !.conn = c]
<1>1. up \in [Upload -> UpRec] /\ up[u] \in UpRec
  BY DEF UpTyped
<1>2. /\ r.state = s /\ r.conn = c /\ r.chunk = up[u].chunk /\ r.node = up[u].node
      /\ r.copies = up[u].copies
  BY <1>1 DEF UpRec
<1>3. r \in UpRec
  <2>1. ASSUME NEW x \in UpRec PROVE [x EXCEPT !.state = s, !.conn = c] \in UpRec
    BY DEF UpRec
  <2> QED
    BY <1>1, <2>1
<1>4. HasPlace(r, u)
  <2>1. CASE s = "chunks"
    <3>1. /\ [up[u] EXCEPT !.state = "chunks"].state = "chunks"
          /\ [up[u] EXCEPT !.state = "chunks"].chunk = up[u].chunk
          /\ [up[u] EXCEPT !.state = "chunks"].node = up[u].node
      BY <1>1 DEF UpRec
    <3> QED
      BY <1>2, <2>1, <3>1 DEF HasPlace
  <2> QED
    BY <1>2, <2>1 DEF HasPlace
<1> HIDE DEF r
<1>5. up' = [up EXCEPT ![u] = r]
  BY DEF r
<1>6. up'[u] = r /\ \A v \in Upload \ {u} : up'[v] = up[v]
  BY <1>1, <1>5
<1>7. up' \in [Upload -> UpRec]
  BY <1>1, <1>3, <1>5
<1>8. \A v \in Upload : Len(up'[v].copies) = Len(ChunksOf[v]) /\ HasPlace(up'[v], v)
  <2>1. Len(r.copies) = Len(ChunksOf[u])
    BY <1>2 DEF UpTyped
  <2> QED
    BY <1>4, <1>6, <2>1 DEF UpTyped
<1>9. UpTyped'
  BY <1>7, <1>8 DEF UpTyped, HasPlace, UpRec
<1> QED
  BY <1>2, <1>6, <1>9

\* The same for the actions, in which one of the two is changed.
LEMMA ConnMoves ==
    ASSUME UpTyped, NEW u \in Upload, NEW from \in Conn, NEW to \in Conn, UploadStep(u, from, to)
    PROVE  /\ UpTyped'
           /\ \A v \in Upload \ {u} : up'[v] = up[v]
           /\ up'[u].state = "chunks" /\ up'[u].conn = to
           /\ up'[u].chunk = up[u].chunk /\ up'[u].node = up[u].node
<1>1. up[u] \in UpRec /\ up[u].state = "chunks" /\ up' = [up EXCEPT ![u] = [up[u] EXCEPT !.conn = to]]
  BY DEF UploadStep, UpTyped
<1>2. /\ [up[u] EXCEPT !.conn = to] = [up[u] EXCEPT !.state = "chunks", !.conn = to]
      /\ [up[u] EXCEPT !.state = "chunks"] = up[u]
  BY <1>1 DEF UpRec
<1>3. up' = [up EXCEPT ![u] = [up[u] EXCEPT !.state = "chunks", !.conn = to]]
  BY <1>1, <1>2
<1>4. HasPlace([up[u] EXCEPT !.state = "chunks"], u) /\ "chunks" \in UpState
  BY <1>2 DEF UpTyped, UpState
<1> QED
  BY <1>3, <1>4, UploadMoves

\* An upload goes on to another state where it is.
LEMMA StateMoves ==
    ASSUME UpTyped, NEW u \in Upload, NEW s \in UpState, up' = [up EXCEPT ![u].state = s],
           s = "chunks" => HasPlace([up[u] EXCEPT !.state = "chunks"], u)
    PROVE  /\ UpTyped'
           /\ \A v \in Upload \ {u} : up'[v] = up[v]
           /\ up'[u].state = s /\ up'[u].conn = up[u].conn
           /\ up'[u].chunk = up[u].chunk /\ up'[u].node = up[u].node
<1>1. up[u] \in UpRec /\ up[u].conn \in Conn
  BY DEF UpTyped, UpRec
<1>2. [up[u] EXCEPT !.state = s] = [up[u] EXCEPT !.state = s, !.conn = up[u].conn]
  BY <1>1 DEF UpRec
<1>3. up' = [up EXCEPT ![u] = [up[u] EXCEPT !.state = s, !.conn = up[u].conn]]
  BY <1>2
<1> QED
  BY <1>1, <1>3, UploadMoves

\* An upload that stays at its chunk and replica.
LEMMA PlaceKept ==
    ASSUME TypeOK, [Next]_vars, NEW u \in Upload, UpOK(u), up[u].state = "chunks",
           up'[u].state = "chunks", up'[u].chunk = up[u].chunk, up'[u].node = up[u].node,
           NEW h, NEW n, h = UpHash(u), n = UpNode(u),
           up'[u].conn = "done" => Safe(h, n)',
           up'[u].conn \in {"broken", "reset"} => n \in failed'
    PROVE  UpOK(u)'
<1>1. up[u].chunk \in DOMAIN ChunksOf[u] /\ up[u].node \in DOMAIN Replicas[h]
  BY DEF TypeOK, UpHash
<1>2. h \in Chunk /\ \A j \in DOMAIN Replicas[h] : Replicas[h][j] \in StorageNode
  BY <1>1 DEF UpHash
<1>3. UpHash(u)' = h /\ UpNode(u)' = n
  BY DEF UpHash, UpNode
<1>4. Progress(u)
  BY DEF UpOK
<1>5. \A i \in 1..(up[u].chunk - 1) : ChunkStored(ChunksOf[u][i])'
  <2>1. \A i \in 1..(up[u].chunk - 1) : ChunksOf[u][i] \in Chunk
    BY <1>1
  <2> QED
    BY <1>4, <2>1, StoredStays DEF Progress
<1>6. \A j \in 1..(up[u].node - 1) : Safe(h, Replicas[h][j])'
  <2>1. \A j \in 1..(up[u].node - 1) : Replicas[h][j] \in StorageNode
    BY <1>1, <1>2
  <2>2. \A j \in 1..(up[u].node - 1) : Safe(h, Replicas[h][j])
    BY <1>4 DEF Progress
  <2> QED
    BY <1>2, <2>1, <2>2, SafeStays
<1>7. Progress(u)'
  BY <1>3, <1>5, <1>6 DEF Progress
<1> QED
  BY <1>7 DEF UpOK

\* What a step of an upload does to that upload and to the others.
LEMMA UploadKeeps ==
    ASSUME StoreInv, NEW u \in Upload, BeginUpload(u) \/ UploadAction(u) \/ PutMetadata(u)
    PROVE  /\ UpTyped' /\ UpOK(u)'
           /\ \A v \in Upload \ {u} : up'[v] = up[v]
<1> DEFINE Goal == /\ UpTyped' /\ UpOK(u)'
                   /\ \A v \in Upload \ {u} : up'[v] = up[v]
<1>1. [Next]_vars /\ TypeOK /\ UpTyped /\ UpOK(u)
  BY DEF Next, StoreInv, TypeOK, UpTyped, HasPlace, UpRec, UpInv
<1>2. CASE BeginUpload(u)
  <2> DEFINE s == IF ChunksOf[u] = <<>> THEN "failed" ELSE "chunks"
  <2>1. up[u].state = "idle" /\ up' = [up EXCEPT ![u].state = s] /\ s \in UpState
    BY <1>2 DEF BeginUpload, UpState
  <2>2. up[u].chunk = 1 /\ up[u].node = 1 /\ up[u].conn = "none" /\ up[u] \in UpRec
    BY <1>1, <2>1 DEF UpOK, UpTyped
  <2>3. s = "chunks" => 1 \in DOMAIN ChunksOf[u] /\ 1 \in DOMAIN Replicas[ChunksOf[u][1]]
    <3>1. ASSUME ChunksOf[u] # <<>> PROVE 1 \in DOMAIN ChunksOf[u]
      BY <3>1
    <3>2. ASSUME 1 \in DOMAIN ChunksOf[u] PROVE 1 \in DOMAIN Replicas[ChunksOf[u][1]]
      BY <3>2
    <3> QED
      BY <3>1, <3>2
  <2>4. s = "chunks" => HasPlace([up[u] EXCEPT !.state = "chunks"], u)
    BY <2>2, <2>3 DEF HasPlace, UpRec
  <2>5. s \in {"failed", "chunks"}
    OBVIOUS
  <2> HIDE DEF s
  <2>6. /\ UpTyped'
        /\ \A v \in Upload \ {u} : up'[v] = up[v]
        /\ up'[u].state = s /\ up'[u].conn = "none"
        /\ up'[u].chunk = 1 /\ up'[u].node = 1
    BY <1>1, <2>1, <2>2, <2>4, StateMoves
  <2>7. Progress(u)'
    BY <2>6 DEF Progress
  <2>8. UpOK(u)'
    BY <2>5, <2>6, <2>7 DEF UpOK
  <2> QED
    BY <2>6, <2>8
<1>3. ASSUME NEW from \in Conn, NEW to \in Conn \ {"done", "broken", "reset"}, UploadStep(u, from, to)
      PROVE  Goal
  <2>1. /\ UpTyped' /\ \A v \in Upload \ {u} : up'[v] = up[v]
        /\ up'[u].state = "chunks" /\ up'[u].conn = to
        /\ up'[u].chunk = up[u].chunk /\ up'[u].node = up[u].node
    BY <1>1, <1>3, ConnMoves
  <2>2. up[u].state = "chunks"
    BY <1>3 DEF UploadStep
  <2>3. UpOK(u)'
    BY <1>1, <2>1, <2>2, PlaceKept
  <2> QED
    BY <2>1, <2>3
<1>4. CASE SendStore(u) \/ HandleStore(u) \/ SendChunk(u)
  BY <1>3, <1>4 DEF SendStore, HandleStore, SendChunk, Conn
<1>5. CASE HandleStoreData(u)
  <2>1. "data" \in Conn /\ "done" \in Conn /\ UploadStep(u, "data", "done") /\ up[u].state = "chunks"
    BY <1>5 DEF HandleStoreData, Conn, UploadStep
  <2>2. /\ UpTyped' /\ \A v \in Upload \ {u} : up'[v] = up[v]
        /\ up'[u].state = "chunks" /\ up'[u].conn = "done"
        /\ up'[u].chunk = up[u].chunk /\ up'[u].node = up[u].node
    BY <1>1, <2>1, ConnMoves
  <2>3. PICK h \in Chunk, n \in StorageNode : h = UpHash(u) /\ n = UpNode(u)
    BY <1>1, <2>1 DEF TypeOK, UpHash, UpNode
  <2>4. Safe(h, n)'
    <3>1. storage' = [storage EXCEPT ![n] = storage[n] \cup {h}]
      BY <1>5, <2>3 DEF HandleStoreData, StoreChunk
    <3> QED
      BY <1>1, <3>1 DEF Safe, TypeOK
  <2>5. UpOK(u)'
    BY <1>1, <2>1, <2>2, <2>3, <2>4, PlaceKept
  <2> QED
    BY <2>2, <2>5
<1>6. ASSUME NEW success \in {0, 1}, UploadNext(u, success), up[u].state = "chunks",
             Safe(UpHash(u), UpNode(u))
      PROVE  Goal
  <2>1. /\ UpOK(u)'
        /\ up'[u].state = "chunks" => /\ up'[u].chunk \in DOMAIN ChunksOf[u]
                                      /\ up'[u].node \in DOMAIN Replicas[ChunksOf[u][up'[u].chunk]]
    BY <1>1, <1>6, ReplicaDone
  <2>2. /\ up' \in [Upload -> [state : UpState, chunk : Nat, node : Nat, conn : Conn, copies : Seq(Nat)]]
        /\ \A v \in Upload : Len(up'[v].copies) = Len(ChunksOf[v])
        /\ \A v \in Upload \ {u} : up'[v] = up[v]
    BY <1>1, <1>6, UploadNextMoves
  <2>3. UpTyped'
    <3>1. HasPlace(up'[u], u) /\ \A v \in Upload \ {u} : HasPlace(up'[v], v)
      BY <1>1, <2>1, <2>2 DEF HasPlace, UpTyped
    <3> QED
      BY <2>2, <3>1 DEF UpTyped, UpRec, HasPlace
  <2> QED
    BY <2>1, <2>2, <2>3
<1>7. CASE ChunkAcked(u)
  <2>1. up[u].state = "chunks" /\ up[u].conn = "done" /\ UploadNext(u, 1)
    BY <1>7 DEF ChunkAcked
  <2>2. Safe(UpHash(u), UpNode(u))
    BY <1>1, <2>1 DEF UpOK, Progress
  <2> QED
    BY <1>6, <2>1, <2>2
<1>8. CASE ChunkFailed(u)
  <2>1. up[u].state = "chunks" /\ ExchangeFailed(u) /\ UploadNext(u, 0)
    BY <1>8 DEF ChunkFailed
  <2>2. UpNode(u) \in StorageNode
    BY <1>1, <2>1 DEF TypeOK, UpHash, UpNode
  <2>3. Safe(UpHash(u), UpNode(u))
    BY <1>1, <2>1, <2>2 DEF UpOK, Progress, ExchangeFailed, Safe, StoreInv, NodeInv
  <2> QED
    BY <1>6, <2>1, <2>3
<1>9. CASE ClientKilled(u)
  <2>1. up' = [up EXCEPT ![u] = [up[u] EXCEPT !.state = "killed", !.conn = "none"]]
    BY <1>1, <1>9 DEF ClientKilled, UpTyped, UpRec
  <2>2. "killed" \in UpState /\ "none" \in Conn
    BY DEF UpState, Conn
  <2>3. UpTyped' /\ (\A v \in Upload \ {u} : up'[v] = up[v]) /\ up'[u].state = "killed"
    BY <1>1, <2>1, <2>2, UploadMoves
  <2> QED
    BY <2>3 DEF UpOK
<1>10. ASSUME NEW s \in UpState, up' = [up EXCEPT ![u].state = s], s \notin {"idle", "chunks"},
              s = "gaveup" => up[u].state = "metadata", s # "metadata"
       PROVE  Goal
  <2>1. UpTyped' /\ (\A v \in Upload \ {u} : up'[v] = up[v]) /\ up'[u].state = s
    BY <1>1, <1>10, StateMoves
  <2>2. s = "gaveup" => AllStored(u)'
    BY <1>1, <1>10, StoredStays DEF UpOK
  <2> QED
    BY <1>10, <2>1, <2>2 DEF UpOK
<1>11. CASE PutMetadata(u)
  <2> DEFINE s == IF up[u].state = "metadata" THEN "published" ELSE "failed"
  <2>1. up' = [up EXCEPT ![u].state = s]
    BY <1>1, <1>11 DEF PutMetadata, UpTyped
  <2>2. s \in {"published", "failed"} /\ s \in UpState
    BY DEF UpState
  <2> HIDE DEF s
  <2> QED
    BY <1>10, <2>1, <2>2
<1>12. CASE UploadReturns(u)
  <2>1. "ok" \in UpState /\ "failed" \in UpState /\ "gaveup" \in UpState
    BY DEF UpState
  <2> QED
    BY <1>10, <1>12, <2>1 DEF UploadReturns
<1> QED
  BY <1>2, <1>4, <1>5, <1>7, <1>8, <1>9, <1>11, <1>12 DEF UploadAction

DownConn == Conn \cup {"notfound"}
DownRec == [state : DownState, rec : Upload \cup {NoMeta}, got : Seq(Chunk), node : Nat, conn : DownConn]

\* A step of one download.
LEMMA DownloadMoves ==
    ASSUME down \in [Download -> DownRec], NEW d \in Download, NEW r \in DownRec,
           down' = [down EXCEPT ![d] = r]
    PROVE  /\ down' \in [Download -> DownRec]
           /\ down'[d] = r
           /\ \A e \in Download \ {d} : down'[e] = down[e]
OBVIOUS

\* The chunk and the replica that a download is at.
LEMMA DownloadPlace ==
    ASSUME StoreInv, NEW d \in Download, down[d].state = "chunks"
    PROVE  /\ down[d] \in DownRec /\ down[d].rec \in Upload /\ down[d].rec \in meta[FileOf[d]]
           /\ Len(down[d].got) + 1 \in DOMAIN RecordOf[down[d].rec]
           /\ DownHash(d) \in Chunk /\ DownNode(d) \in StorageNode
           /\ down[d].node \in 1..Len(Replicas[DownHash(d)])
<1>1. down[d] \in DownRec /\ DownOK(d)
  BY DEF StoreInv, DownInv, TypeOK, DownRec, DownConn
<1>2. down[d].rec \in Upload /\ down[d].rec \in meta[FileOf[d]]
  BY <1>1 DEF DownOK, StoreInv, TypeOK
<1>3. Len(down[d].got) \in Nat /\ Len(RecordOf[down[d].rec]) \in Nat
  BY <1>1, <1>2 DEF DownRec
<1>4. Len(down[d].got) + 1 \in DOMAIN RecordOf[down[d].rec]
  BY <1>1, <1>2, <1>3 DEF DownOK
<1>5. DownHash(d) \in Chunk
  BY <1>2, <1>4 DEF DownHash
<1>6. down[d].node \in DOMAIN Replicas[DownHash(d)]
  BY <1>1 DEF DownOK
<1> QED
  BY <1>1, <1>2, <1>4, <1>5, <1>6 DEF DownNode

\* A step that leaves a download alone, or only changes its connection.
LEMMA DownloadStays ==
    ASSUME StoreInv, NEW d \in Download, \A f \in File : meta[f] \subseteq meta'[f],
           down'[d].state = down[d].state, down'[d].rec = down[d].rec,
           down'[d].got = down[d].got, down'[d].node = down[d].node,
           down'[d].conn = down[d].conn \/ down[d].state = "chunks"
    PROVE  DownOK(d)'
<1>1. DownOK(d) /\ FileOf[d] \in File
  BY DEF StoreInv, DownInv
<1>2. DownHash(d)' = DownHash(d)
  BY DEF DownHash
<1> QED
  BY <1>1, <1>2 DEF DownOK

\* A step of a download keeps what is known of it and touches no other.
LEMMA DownloadKeeps ==
    ASSUME StoreInv, NEW d \in Download, GetMetadata(d) \/ DownloadAction(d)
    PROVE  /\ down' \in [Download -> DownRec] /\ DownOK(d)'
           /\ \A e \in Download \ {d} : down'[e] = down[e]
<1> DEFINE Goal == /\ down' \in [Download -> DownRec] /\ DownOK(d)'
                   /\ \A e \in Download \ {d} : down'[e] = down[e]
<1>1. /\ down \in [Download -> DownRec] /\ down[d] \in DownRec /\ DownOK(d)
      /\ FileOf[d] \in File /\ meta[FileOf[d]] \subseteq Upload
  BY DEF StoreInv, DownInv, TypeOK, DownRec, DownConn
<1>2. /\ down[d] = [state |-> down[d].state, rec |-> down[d].rec, got |-> down[d].got,
                    node |-> down[d].node, conn |-> down[d].conn]
      /\ down[d].state \in DownState /\ down[d].rec \in Upload \cup {NoMeta}
      /\ down[d].got \in Seq(Chunk) /\ down[d].node \in Nat /\ down[d].conn \in DownConn
  BY <1>1 DEF DownRec
<1>3. CASE GetMetadata(d)
  <2>1. PICK m \in meta[FileOf[d]] \cup {NoMeta} :
           down' = [down EXCEPT ![d].state = IF m = NoMeta THEN "nofile" ELSE "chunks", ![d].rec = m]
    BY <1>3 DEF GetMetadata
  <2> DEFINE s == IF m = NoMeta THEN "nofile" ELSE "chunks"
  <2>2. s \in DownState /\ s \in {"nofile", "chunks"} /\ (s = "chunks" <=> m # NoMeta)
    BY DEF DownState
  <2>3. down[d].state = "idle" /\ down[d].got = <<>> /\ down[d].node = 1 /\ down[d].conn = "none" /\ meta' = meta
    BY <1>1, <1>3 DEF GetMetadata, DownOK
  <2>4. down' = [down EXCEPT ![d].state = s, ![d].rec = m]
    BY <2>1
  <2> HIDE DEF s
  <2> DEFINE r == [down[d] EXCEPT !.state = s, !.rec = m]
  <2>5. m \in Upload \cup {NoMeta}
    BY <1>1
  <2>6. /\ r \in DownRec /\ r.state = s /\ r.rec = m /\ r.got = <<>> /\ r.node = 1 /\ r.conn = "none"
    <3>1. ASSUME NEW x \in DownRec
          PROVE  /\ [x EXCEPT !.state = s, !.rec = m] \in DownRec
                 /\ [x EXCEPT !.state = s, !.rec = m].state = s
                 /\ [x EXCEPT !.state = s, !.rec = m].rec = m
                 /\ [x EXCEPT !.state = s, !.rec = m].got = x.got
                 /\ [x EXCEPT !.state = s, !.rec = m].node = x.node
                 /\ [x EXCEPT !.state = s, !.rec = m].conn = x.conn
      BY <2>2, <2>5 DEF DownRec
    <3> QED
      BY <1>1, <2>3, <3>1
  <2>7. /\ down' \in [Download -> DownRec]
        /\ \A e \in Download \ {d} : down'[e] = down[e]
        /\ down'[d].state = s /\ down'[d].rec = m /\ down'[d].got = <<>>
        /\ down'[d].node = 1 /\ down'[d].conn = "none"
    <3>1. down' = [down EXCEPT ![d] = r]
      BY <1>1, <2>4
    <3> HIDE DEF r
    <3> QED
      BY <1>1, <2>6, <3>1, DownloadMoves
  <2>8. ASSUME s = "chunks"
        PROVE  m \in meta'[FileOf[d]] /\ Len(RecordOf[m]) > 0 /\ 1 \in DOMAIN Replicas[RecordOf[m][1]]
    <3>1. m \in meta[FileOf[d]] /\ m \in Upload
      BY <1>1, <2>2, <2>8
    <3>2. RecordOf[m] # <<>> /\ RecordOf[m] \in Seq(Chunk)
      BY <1>1, <3>1 DEF StoreInv, MetaInv
    <3>3. Len(RecordOf[m]) > 0 /\ RecordOf[m][1] \in Chunk
      BY <3>2
    <3>4. 1 \in DOMAIN Replicas[RecordOf[m][1]]
      BY <3>3
    <3> QED
      BY <2>3, <3>1, <3>3, <3>4
  <2>9. DownHash(d)' = RecordOf[m][1] /\ Len(down'[d].got) = 0
    BY <2>7 DEF DownHash
  <2>10. DownOK(d)'
    BY <2>2, <2>7, <2>8, <2>9 DEF DownOK
  <2> QED
    BY <2>7, <2>10
<1>4. ASSUME NEW from, NEW to \in DownConn, DownloadStep(d, from, to) PROVE Goal
  <2>1. down[d].state = "chunks" /\ down' = [down EXCEPT ![d] = [down[d] EXCEPT !.conn = to]] /\ meta' = meta
    BY <1>1, <1>4 DEF DownloadStep
  <2> DEFINE r == [down[d] EXCEPT !.conn = to]
  <2>2. /\ r \in DownRec /\ r.state = down[d].state /\ r.rec = down[d].rec
        /\ r.got = down[d].got /\ r.node = down[d].node
    BY <1>1 DEF DownRec
  <2>3. down' = [down EXCEPT ![d] = r]
    BY <2>1
  <2> HIDE DEF r
  <2>4. /\ down' \in [Download -> DownRec]
        /\ \A e \in Download \ {d} : down'[e] = down[e]
        /\ down'[d].state = down[d].state /\ down'[d].rec = down[d].rec
        /\ down'[d].got = down[d].got /\ down'[d].node = down[d].node
    BY <1>1, <2>2, <2>3, DownloadMoves
  <2>5. DownOK(d)'
    BY <2>1, <2>4, DownloadStays
  <2> QED
    BY <2>4, <2>5
<1>5. CASE SendGet(d) \/ HandleGet(d)
  <2> DEFINE answer == IF DownHash(d) \in storage[DownNode(d)] THEN "data" ELSE "notfound"
  <2>1. "request" \in DownConn /\ answer \in DownConn
    BY DEF DownConn, Conn
  <2>2. DownloadStep(d, "none", "request") \/ DownloadStep(d, "request", answer)
    BY <1>5 DEF SendGet, HandleGet
  <2> HIDE DEF answer
  <2> QED
    BY <1>4, <2>1, <2>2
<1>6. CASE ChunkReceived(d)
  <2> DEFINE g == Append(down[d].got, DownHash(d))
             s == IF AllReceived(d, g) THEN "ok" ELSE "chunks"
  <2>1. down[d].state = "chunks" /\ meta' = meta
    BY <1>6 DEF ChunkReceived
  <2>2. /\ down[d].rec \in Upload /\ down[d].rec \in meta[FileOf[d]]
        /\ Len(down[d].got) + 1 \in DOMAIN RecordOf[down[d].rec] /\ DownHash(d) \in Chunk
    BY <2>1, DownloadPlace
  <2>3. /\ g \in Seq(Chunk) /\ Len(g) = Len(down[d].got) + 1
        /\ \A i \in 1..Len(down[d].got) : g[i] = down[d].got[i]
        /\ g[Len(down[d].got) + 1] = DownHash(d)
    BY <1>2, <2>2
  <2>4. s \in DownState /\ s \in {"ok", "chunks"} /\ (s = "ok" <=> Len(g) = Len(RecordOf[down[d].rec]))
    BY DEF DownState, AllReceived
  <2>5. down' = [down EXCEPT ![d] = [down[d] EXCEPT !.got = g, !.node = 1, !.conn = "none", !.state = s]]
    BY <1>1, <1>6, <2>1 DEF ChunkReceived
  <2> HIDE DEF g, s
  <2> DEFINE r == [down[d] EXCEPT !.got = g, !.node = 1, !.conn = "none", !.state = s]
  <2>6. "none" \in DownConn
    BY DEF DownConn, Conn
  <2>7. r \in DownRec /\ r.state = s /\ r.rec = down[d].rec /\ r.got = g /\ r.node = 1
    BY <1>1, <2>3, <2>4, <2>6 DEF DownRec
  <2> HIDE DEF r
  <2>8. /\ down' \in [Download -> DownRec]
        /\ \A e \in Download \ {d} : down'[e] = down[e]
        /\ down'[d].state = s /\ down'[d].rec = down[d].rec /\ down'[d].got = g /\ down'[d].node = 1
    <3>1. down' = [down EXCEPT ![d] = r]
      BY <2>5 DEF r
    <3> QED
      BY <1>1, <2>7, <3>1, DownloadMoves
  <2>9. \A i \in 1..Len(g) : g[i] = RecordOf[down[d].rec][i]
    <3>1. \A i \in 1..Len(g) : i \in 1..Len(down[d].got) \/ i = Len(down[d].got) + 1
      BY <1>2, <2>3
    <3>2. \A i \in 1..Len(down[d].got) : down[d].got[i] = RecordOf[down[d].rec][i]
      BY <1>1, <2>1 DEF DownOK
    <3>3. DownHash(d) = RecordOf[down[d].rec][Len(down[d].got) + 1]
      BY DEF DownHash
    <3> QED
      BY <2>3, <3>1, <3>2, <3>3
  <2>10. ASSUME s = "chunks"
         PROVE  Len(g) < Len(RecordOf[down[d].rec]) /\ DownHash(d)' \in Chunk
    <3>1. Len(down[d].got) \in Nat /\ Len(RecordOf[down[d].rec]) \in Nat
      BY <1>2, <2>2
    <3>2. Len(g) < Len(RecordOf[down[d].rec])
      BY <2>2, <2>3, <2>4, <2>10, <3>1
    <3>3. Len(g) + 1 \in DOMAIN RecordOf[down[d].rec]
      BY <2>2, <2>3, <3>1, <3>2
    <3>4. RecordOf[down[d].rec][Len(g) + 1] \in Chunk
      BY <2>2, <3>3
    <3> QED
      BY <2>8, <3>2, <3>4 DEF DownHash
  <2>11. DownHash(d)' \in Chunk => 1 \in DOMAIN Replicas[DownHash(d)']
    <3>1. \A h \in Chunk : 1 \in DOMAIN Replicas[h]
      OBVIOUS
    <3> QED
      BY <3>1
  <2>12. DownOK(d)'
    BY <2>1, <2>2, <2>4, <2>8, <2>9, <2>10, <2>11 DEF DownOK
  <2> QED
    BY <2>8, <2>12
<1>7. CASE ChunkUnavailable(d)
  <2>1. down[d].state = "chunks" /\ meta' = meta
    BY <1>7 DEF ChunkUnavailable
  <2>2. DownHash(d) \in Chunk /\ down[d].node \in 1..Len(Replicas[DownHash(d)])
    BY <2>1, DownloadPlace
  <2>3. "none" \in DownConn /\ "lost" \in DownState /\ down[d].node + 1 \in Nat
    BY <1>2 DEF DownConn, Conn, DownState
  <2>4. CASE MoreReplicas(d)
    <3> DEFINE r == [down[d] EXCEPT !.node = down[d].node + 1, !.conn = "none"]
    <3>1. /\ r \in DownRec /\ r.state = down[d].state /\ r.rec = down[d].rec
          /\ r.got = down[d].got /\ r.node = down[d].node + 1
      BY <1>1, <2>3 DEF DownRec
    <3>2. down' = [down EXCEPT ![d] = r]
      BY <1>7, <2>4 DEF ChunkUnavailable
    <3> HIDE DEF r
    <3>4. /\ down' \in [Download -> DownRec]
          /\ \A e \in Download \ {d} : down'[e] = down[e]
          /\ down'[d].state = down[d].state /\ down'[d].rec = down[d].rec
          /\ down'[d].got = down[d].got /\ down'[d].node = down[d].node + 1
      BY <1>1, <3>1, <3>2, DownloadMoves
    <3>5. down[d].node + 1 \in DOMAIN Replicas[DownHash(d)]
      BY <2>2, <2>4 DEF MoreReplicas
    <3>6. DownHash(d)' = DownHash(d)
      BY <3>4 DEF DownHash
    <3>7. DownOK(d)'
      BY <1>1, <2>1, <3>4, <3>5, <3>6 DEF DownOK
    <3> QED
      BY <3>4, <3>7
  <2>5. CASE ~MoreReplicas(d)
    <3> DEFINE r == [down[d] EXCEPT !.state = "lost", !.conn = "none"]
    <3>1. r \in DownRec /\ r.state = "lost"
      BY <1>1, <2>3 DEF DownRec
    <3>2. down' = [down EXCEPT ![d] = r]
      BY <1>1, <1>7, <2>5 DEF ChunkUnavailable
    <3> HIDE DEF r
    <3>4. /\ down' \in [Download -> DownRec] /\ down'[d].state = "lost"
          /\ \A e \in Download \ {d} : down'[e] = down[e]
      BY <1>1, <3>1, <3>2, DownloadMoves
    <3> QED
      BY <3>4 DEF DownOK
  <2> QED
    BY <2>4, <2>5
<1> QED
  BY <1>3, <1>5, <1>6, <1>7 DEF DownloadAction

\* The inductive step: uploads, downloads, failures.
LEMMA StoreStep ==
    ASSUME StoreInv, [Next]_vars
    PROVE  StoreInv'
<1> DEFINE Nodes == /\ status \in [StorageNode -> {"up", "down"}]
                    /\ storage \in [StorageNode -> SUBSET Chunk]
                    /\ failed \subseteq StorageNode /\ crashes \in 0..MaxCrashes
           Metas == meta \in [File -> SUBSET Upload]
           Downs == down \in [Download -> DownRec]
<1>1. TypeOK /\ NodeInv /\ UpInv /\ MetaInv /\ DownInv /\ Nodes /\ Metas /\ UpTyped /\ Downs
  BY DEF StoreInv, TypeOK, UpTyped, HasPlace, UpRec, DownRec, DownConn
<1>2. ASSUME Nodes', Metas', UpTyped', Downs' PROVE TypeOK'
  BY <1>2 DEF TypeOK, UpTyped, HasPlace, UpRec, DownRec, DownConn
<1>3. ASSUME meta' = meta PROVE MetaInv'
  <2>1. \A f \in File : \A u \in meta[f] : u \in Upload
    BY <1>1
  <2> QED
    BY <1>1, <1>3, <2>1, StoredStays DEF MetaInv
<1>4. ASSUME NEW u \in Upload, BeginUpload(u) \/ UploadAction(u) \/ PutMetadata(u)
      PROVE  StoreInv'
  <2>1. UpTyped' /\ UpOK(u)' /\ \A v \in Upload \ {u} : up'[v] = up[v]
    BY <1>4, UploadKeeps
  <2>2. UpInv'
    <3>1. ASSUME NEW v \in Upload \ {u} PROVE UpOK(v)'
      BY <1>1, <2>1, UploadStays DEF UpInv
    <3> QED
      BY <2>1, <3>1 DEF UpInv
  <2>3. UNCHANGED <<status, failed, crashes, down>>
    BY <1>4 DEF BeginUpload, UploadAction, PutMetadata, SendStore, HandleStore, HandleStoreData,
       SendChunk, ChunkAcked, ChunkFailed, ClientKilled, UploadReturns, failVars
  <2>4. storage' \in [StorageNode -> SUBSET Chunk]
    <3>1. CASE HandleStoreData(u)
      <4>1. up[u].state = "chunks"
        BY <3>1 DEF HandleStoreData, UploadStep
      <4>2. UpHash(u) \in Chunk
        BY <1>1, <4>1 DEF TypeOK, UpHash
      <4>3. storage' = [storage EXCEPT ![UpNode(u)] = @ \cup {UpHash(u)}]
        BY <3>1 DEF HandleStoreData, StoreChunk
      <4> QED
        BY <1>1, <4>2, <4>3
    <3>2. CASE storage' = storage
      BY <1>1, <3>2
    <3> QED
      BY <1>4, <3>1, <3>2 DEF BeginUpload, UploadAction, PutMetadata, SendStore, HandleStore,
         SendChunk, ChunkAcked, ChunkFailed, ClientKilled, UploadReturns
  <2>5. Metas' /\ MetaInv' /\ \A f \in File : meta[f] \subseteq meta'[f]
    <3>1. CASE PutMetadata(u)
      <4>1. /\ up[u].state \in {"metadata", "gaveup"} /\ RecordOf[u] # <<>>
            /\ meta' = [meta EXCEPT ![FileOf[u]] = meta[FileOf[u]] \cup {u}] /\ FileOf[u] \in File
        BY <3>1 DEF PutMetadata
      <4>2. AllStored(u)'
        BY <1>1, <4>1, StoredStays DEF UpInv, UpOK
      <4>3. ASSUME NEW f \in File, NEW v \in meta'[f]
            PROVE  FileOf[v] = f /\ RecordOf[v] # <<>> /\ AllStored(v)'
        <5>1. CASE v \in meta[f]
          BY <1>1, <5>1, StoredStays DEF MetaInv
        <5>2. CASE v \notin meta[f]
          <6>1. f = FileOf[u] /\ v = u
            BY <1>1, <4>1, <5>2
          <6> QED
            BY <4>1, <4>2, <6>1
        <5> QED
          BY <5>1, <5>2
      <4>4. MetaInv'
        BY <4>3 DEF MetaInv
      <4>5. Metas' /\ \A f \in File : meta[f] \subseteq meta'[f]
        BY <1>1, <4>1
      <4> QED
        BY <4>4, <4>5
    <3>2. CASE meta' = meta
      BY <1>1, <1>3, <3>2
    <3> QED
      BY <1>4, <3>1, <3>2 DEF BeginUpload, UploadAction, SendStore, HandleStore, HandleStoreData,
         SendChunk, ChunkAcked, ChunkFailed, ClientKilled, UploadReturns
  <2>6. DownInv'
    BY <2>3, <2>5, DownloadStays DEF DownInv
  <2>7. NodeInv' /\ Nodes' /\ Downs'
    BY <1>1, <2>3, <2>4 DEF NodeInv
  <2>8. TypeOK'
    BY <1>2, <2>1, <2>5, <2>7
  <2> QED
    BY <2>2, <2>5, <2>6, <2>7, <2>8 DEF StoreInv
<1>5. ASSUME NEW d \in Download, GetMetadata(d) \/ DownloadAction(d) PROVE StoreInv'
  <2>1. Downs' /\ DownOK(d)' /\ \A e \in Download \ {d} : down'[e] = down[e]
    BY <1>5, DownloadKeeps
  <2>2. UNCHANGED <<status, storage, failed, crashes, meta, up>>
    BY <1>5 DEF GetMetadata, DownloadAction, DownloadStep, SendGet, HandleGet, ChunkReceived,
       ChunkUnavailable, failVars
  <2>3. DownInv'
    <3>1. ASSUME NEW e \in Download \ {d} PROVE DownOK(e)'
      BY <2>1, <2>2, DownloadStays
    <3> QED
      BY <2>1, <3>1 DEF DownInv
  <2>4. UpTyped' /\ Nodes' /\ Metas'
    BY <1>1, <2>2 DEF UpTyped, HasPlace, UpRec
  <2>5. UpInv'
    BY <1>1, <2>2, UploadStays DEF UpInv
  <2>6. NodeInv'
    BY <1>1, <2>2 DEF NodeInv
  <2>7. TypeOK'
    BY <1>2, <2>1, <2>4
  <2> QED
    BY <1>3, <2>2, <2>3, <2>5, <2>6, <2>7 DEF StoreInv
<1>6. ASSUME NEW n \in StorageNode, NEW us \in SUBSET UploadsAt(n), NEW ds \in SUBSET DownloadsAt(n),
             Fail(n, us, ds), Nodes', NodeInv'
      PROVE  StoreInv'
  <2>1. Nodes' /\ NodeInv' /\ failed' = failed \cup {n} /\ meta' = meta
    BY <1>6 DEF Fail
  <2>2. ASSUME NEW u \in Upload
        PROVE  /\ up'[u] \in UpRec /\ up'[u].state = up[u].state /\ up'[u].chunk = up[u].chunk
               /\ up'[u].node = up[u].node /\ up'[u].copies = up[u].copies
               /\ up'[u] = up[u] \/ (up[u].state = "chunks" /\ UpNode(u) = n /\ up'[u].conn \in {"broken", "reset"})
    <3> DEFINE c == IF up[u].conn \in {"ready", "reset"} THEN "reset" ELSE "broken"
    <3>1. up[u] \in UpRec
      BY <1>1 DEF UpTyped
    <3>2. c \in {"broken", "reset"} /\ c \in Conn
      BY DEF Conn
    <3>3. CASE u \in us
      <4>0. up[u].state = "chunks" /\ UpNode(u) = n
        BY <3>3 DEF UploadsAt
      <4>1. up'[u] = [up[u] EXCEPT !.conn = c]
        BY <1>6, <3>3 DEF Fail
      <4> HIDE DEF c
      <4>2. /\ up'[u] \in UpRec /\ up'[u].conn = c /\ up'[u].state = up[u].state
            /\ up'[u].chunk = up[u].chunk /\ up'[u].node = up[u].node /\ up'[u].copies = up[u].copies
        BY <3>1, <3>2, <4>1 DEF UpRec
      <4> QED
        BY <3>2, <4>0, <4>2
    <3>4. CASE u \notin us
      <4>1. up'[u] = up[u]
        BY <1>6, <3>4 DEF Fail
      <4> QED
        BY <3>1, <4>1
    <3> QED
      BY <3>3, <3>4
  <2>3. UpTyped'
    <3>1. DOMAIN up' = Upload /\ up' = [u \in Upload |-> up'[u]]
      BY <1>6 DEF Fail
    <3>2. up' \in [Upload -> UpRec]
      BY <2>2, <3>1
    <3>3. \A u \in Upload : Len(up'[u].copies) = Len(ChunksOf[u]) /\ HasPlace(up'[u], u)
      BY <1>1, <2>2 DEF UpTyped, HasPlace
    <3> QED
      BY <3>2, <3>3 DEF UpTyped, HasPlace, UpRec
  <2>4. UpInv'
    <3>1. ASSUME NEW u \in Upload PROVE UpOK(u)'
      <4>1. CASE up'[u] = up[u]
        BY <1>1, <4>1, UploadStays DEF UpInv
      <4>2. CASE up[u].state = "chunks" /\ UpNode(u) = n /\ up'[u].conn \in {"broken", "reset"}
        <5>1. n \in failed' /\ up'[u].conn # "done"
          BY <2>1, <4>2
        <5> QED
          BY <1>1, <2>2, <4>2, <5>1, PlaceKept DEF UpInv
      <4> QED
        BY <2>2, <4>1, <4>2
    <3> QED
      BY <3>1 DEF UpInv
  <2>5. ASSUME NEW d \in Download
        PROVE  /\ down'[d] \in DownRec /\ down'[d].state = down[d].state /\ down'[d].rec = down[d].rec
               /\ down'[d].got = down[d].got /\ down'[d].node = down[d].node
               /\ down'[d].conn = down[d].conn \/ down[d].state = "chunks"
    <3>1. down[d] \in DownRec /\ "broken" \in DownConn
      BY <1>1 DEF DownConn, Conn
    <3>2. \/ down'[d] = down[d]
          \/ down[d].state = "chunks" /\ down'[d] = [down[d] EXCEPT !.conn = "broken"]
      BY <1>6 DEF Fail, DownloadsAt
    <3> QED
      BY <3>1, <3>2 DEF DownRec
  <2>6. Downs'
    <3>1. down' = [d \in Download |-> down'[d]]
      BY <1>6 DEF Fail
    <3> QED
      BY <2>5, <3>1
  <2>7. DownInv'
    BY <2>1, <2>5, DownloadStays DEF DownInv
  <2>8. TypeOK'
    BY <1>1, <1>2, <2>1, <2>3, <2>6
  <2> QED
    BY <1>3, <2>1, <2>4, <2>7, <2>8 DEF StoreInv
<1>7. ASSUME NEW n \in StorageNode, Restart(n) PROVE StoreInv'
  <2>1. UNCHANGED <<storage, failed, crashes, meta, up, down>>
    BY <1>7 DEF Restart, failVars
  <2>2. Nodes' /\ NodeInv'
    BY <1>1, <1>7, <2>1 DEF Restart, NodeInv
  <2>3. UpTyped' /\ Metas' /\ Downs'
    BY <1>1, <2>1 DEF UpTyped, HasPlace, UpRec
  <2>4. UpInv' /\ DownInv'
    BY <1>1, <2>1, UploadStays, DownloadStays DEF UpInv, DownInv
  <2>5. TypeOK'
    BY <1>2, <2>2, <2>3
  <2> QED
    BY <1>3, <2>1, <2>2, <2>4, <2>5 DEF StoreInv
<1>8. CASE UNCHANGED vars
  <2>1. UNCHANGED <<status, storage, failed, crashes, meta, up, down>>
    BY <1>8 DEF vars, failVars
  <2>2. Nodes' /\ NodeInv' /\ UpTyped' /\ Metas' /\ Downs'
    BY <1>1, <2>1 DEF NodeInv, UpTyped, HasPlace, UpRec
  <2>3. UpInv' /\ DownInv'
    BY <1>1, <2>1, UploadStays, DownloadStays DEF UpInv, DownInv
  <2> QED
    BY <1>2, <1>3, <2>1, <2>2, <2>3 DEF StoreInv
<1>9. ASSUME NEW n \in StorageNode, Crash(n) PROVE StoreInv'
  <2>1. Nodes' /\ NodeInv'
    BY <1>1, <1>9 DEF Crash, Fail, NodeInv
  <2> DEFINE us == {u \in UploadsAt(n) : up[u].conn # "none"}
             ds == {d \in DownloadsAt(n) : down[d].conn # "none"}
  <2>2. us \in SUBSET UploadsAt(n) /\ ds \in SUBSET DownloadsAt(n) /\ Fail(n, us, ds)
    BY <1>9 DEF Crash
  <2> HIDE DEF us, ds
  <2> QED
    BY <1>6, <2>1, <2>2
<1>10. ASSUME NEW n \in StorageNode, Disconnect(n) PROVE StoreInv'
  <2>1. PICK us \in SUBSET UploadsAt(n), ds \in SUBSET DownloadsAt(n) : Fail(n, us, ds)
    BY <1>10 DEF Disconnect
  <2>2. Nodes' /\ NodeInv'
    BY <1>1, <1>10, <2>1 DEF Disconnect, Fail, NodeInv
  <2> QED
    BY <1>6, <2>1, <2>2
<1> QED
  BY <1>4, <1>5, <1>7, <1>8, <1>9, <1>10 DEF Next

\* Uploads, downloads and failures keep the types of all state: an upload in its loops
\* always has a chunk and a replica of it to go to (uploadFile).
THEOREM StoreTypeCorrect == Spec => []TypeOK
<1>1. Init => StoreInv
  BY InitStore
<1>2. StoreInv /\ [Next]_vars => StoreInv'
  BY StoreStep
<1>3. StoreInv => TypeOK
  BY DEF StoreInv
<1> QED
  BY <1>1, <1>2, <1>3, PTL DEF Spec

-----------------------------------------------------------------------------
(* What the metadata and the downloads are worth.  A download that finds a *)
(* record reads in it the hashes the uploader sent, see FileCodec: so it   *)
(* is for names without blanks, and it is not otherwise (MCFileStoreBlank- *)
(* Stored and -Asked).                                                     *)
FaithfulRecords == \A u \in Upload : RecordOf[u] \in {<<>>, ChunksOf[u]}

\* Whoever can read a record can read its chunks: every replica that has not failed since
\* the start holds them, because uploadFile sends metadata only after the last chunk, and
\* each node stores before it acknowledges (handleStore).
THEOREM RecordsComeLast ==
    ASSUME FaithfulRecords
    PROVE  Spec => []RecordsHaveChunks
<1>1. StoreInv => RecordsHaveChunks
  <2> SUFFICES ASSUME StoreInv, NEW u \in Upload, Published(u), NEW h \in Range(RecordOf[u]),
                      NEW n \in StorageNode, n \in Range(Replicas[h]), n \notin failed
               PROVE  h \in storage[n]
    BY DEF RecordsHaveChunks
  <2>1. AllStored(u) /\ RecordOf[u] = ChunksOf[u]
    BY DEF Published, StoreInv, MetaInv, FaithfulRecords
  <2>2. PICK i \in DOMAIN ChunksOf[u] : h = ChunksOf[u][i]
    BY <2>1 DEF Range
  <2>3. PICK j \in DOMAIN Replicas[h] : n = Replicas[h][j]
    BY DEF Range
  <2> QED
    BY <2>1, <2>2, <2>3 DEF AllStored, ChunkStored, Safe
<1> QED
  BY <1>1, InitStore, StoreStep, PTL DEF Spec

\* A download that succeeds wrote exactly the chunks of one upload of the file, in order
\* (downloadFile), whatever other uploads of that name and node failures went on meanwhile.
THEOREM DownloadsAreUploads ==
    ASSUME FaithfulRecords
    PROVE  Spec => []DownloadIntact
<1>1. StoreInv => DownloadIntact
  <2> SUFFICES ASSUME StoreInv, NEW d \in Download, down[d].state = "ok"
               PROVE  \E u \in Upload : FileOf[u] = FileOf[d] /\ down[d].got = ChunksOf[u]
    BY DEF DownloadIntact
  <2>1. DownOK(d) /\ FileOf[d] \in File /\ meta[FileOf[d]] \subseteq Upload /\ down[d].got \in Seq(Chunk)
    BY DEF StoreInv, DownInv, TypeOK
  <2> DEFINE u == down[d].rec
  <2>2. u \in Upload /\ u \in meta[FileOf[d]]
    BY <2>1 DEF DownOK
  <2>3. FileOf[u] = FileOf[d] /\ RecordOf[u] = ChunksOf[u]
    BY <2>1, <2>2 DEF StoreInv, MetaInv, FaithfulRecords
  <2>4. /\ Len(down[d].got) = Len(ChunksOf[u])
        /\ \A i \in 1..Len(down[d].got) : down[d].got[i] = ChunksOf[u][i]
    BY <2>1, <2>3 DEF DownOK
  <2>5. down[d].got = ChunksOf[u]
    <3>1. ChunksOf[u] \in Seq(Chunk)
      BY <2>2
    <3> QED
      BY <2>1, <2>4, <3>1, SeqEqual
  <2> QED
    BY <2>2, <2>3, <2>5
<1> QED
  BY <1>1, InitStore, StoreStep, PTL DEF Spec

\* Where a download stands: the replicas it has behind it have failed.
LossOK(d) ==
    /\ down[d].state # "lost"
    /\ down[d].state = "chunks" =>
          /\ \A j \in 1..(down[d].node - 1) : Replicas[DownHash(d)][j] \in failed
          /\ down[d].conn \in {"notfound", "broken"} => DownNode(d) \in failed
FailInv == IsFiniteSet(failed) /\ Cardinality(failed) <= crashes
LossInv == FailInv /\ \A d \in Download : LossOK(d)

\* There are more replicas of every chunk than failures.
EnoughReplicas == \A h \in Chunk : Cardinality(Range(Replicas[h])) > MaxCrashes

\* No more nodes have failed than there were failures.
LEMMA FailuresCounted ==
    ASSUME TypeOK, FailInv, [Next]_vars
    PROVE  FailInv'
<1>1. ASSUME NEW n \in StorageNode, Crash(n) \/ Disconnect(n) PROVE FailInv'
  <2>1. failed' = failed \cup {n} /\ crashes' = crashes + 1 /\ crashes \in Nat
    BY <1>1 DEF Crash, Disconnect, Fail, TypeOK
  <2>2. /\ IsFiniteSet(failed \cup {n})
        /\ Cardinality(failed \cup {n}) \in {Cardinality(failed), Cardinality(failed) + 1}
        /\ Cardinality(failed) \in Nat
    BY FS_AddElement, FS_CardinalityType DEF FailInv
  <2>3. Cardinality(failed \cup {n}) <= crashes + 1
    BY <2>1, <2>2 DEF FailInv
  <2> QED
    BY <2>1, <2>2, <2>3 DEF FailInv
<1>2. CASE UNCHANGED <<failed, crashes>>
  BY <1>2 DEF FailInv
<1> QED
  BY <1>1, <1>2 DEF Next, vars, failVars, BeginUpload, UploadAction, PutMetadata, SendStore, HandleStore,
     HandleStoreData, SendChunk, ChunkAcked, ChunkFailed, ClientKilled, UploadReturns, GetMetadata,
     DownloadAction, DownloadStep, SendGet, HandleGet, ChunkReceived, ChunkUnavailable, Restart

\* A download whose place a step does not change; its node may have failed since.
LEMMA LossStays ==
    ASSUME StoreInv, [Next]_vars, NEW d \in Download, LossOK(d),
           down'[d].state = down[d].state, down'[d].rec = down[d].rec,
           down'[d].got = down[d].got, down'[d].node = down[d].node,
           NEW n, n = DownNode(d), down[d].state = "chunks" =>
              (down'[d].conn \in {"notfound", "broken"} => n \in failed')
    PROVE  LossOK(d)'
<1>1. DownHash(d)' = DownHash(d) /\ DownNode(d)' = n
  BY DEF DownHash, DownNode
<1>2. failed \subseteq failed'
  BY SafeStays DEF StoreInv
<1> QED
  BY <1>1, <1>2 DEF LossOK

\* All replicas of a chunk cannot have failed.
LEMMA OneReplicaLeft ==
    ASSUME EnoughReplicas, TypeOK, FailInv, NEW h \in Chunk,
           \A j \in DOMAIN Replicas[h] : Replicas[h][j] \in failed
    PROVE  FALSE
<1>1. Range(Replicas[h]) \subseteq failed
  BY DEF Range
<1>2. Cardinality(Range(Replicas[h])) <= Cardinality(failed) /\ Cardinality(failed) \in Nat
  BY <1>1, FS_Subset, FS_CardinalityType DEF FailInv
<1>3. IsFiniteSet(Range(Replicas[h])) /\ Cardinality(Range(Replicas[h])) \in Nat
  BY <1>1, FS_Subset, FS_CardinalityType DEF FailInv
<1>4. Cardinality(failed) <= MaxCrashes /\ Cardinality(Range(Replicas[h])) > MaxCrashes
  BY <1>2 DEF FailInv, TypeOK, EnoughReplicas
<1> QED
  BY <1>2, <1>3, <1>4

\* A replica is passed over only if it has failed, so not all of them are.
LEMMA LossStep ==
    ASSUME FaithfulRecords, EnoughReplicas, StoreInv, LossInv, [Next]_vars
    PROVE  LossInv'
<1> SUFFICES ASSUME NEW d \in Download PROVE LossOK(d)'
  <2>1. FailInv'
    BY FailuresCounted DEF LossInv, StoreInv
  <2> QED
    BY <2>1 DEF LossInv
<1>1. TypeOK /\ LossOK(d) /\ FailInv /\ down \in [Download -> DownRec] /\ down[d] \in DownRec
  BY DEF StoreInv, LossInv, TypeOK, DownRec, DownConn
<1>2. failed \subseteq failed'
  BY <1>1, SafeStays
<1>3. CASE down'[d] = down[d]
  BY <1>1, <1>2, <1>3, LossStays DEF LossOK
<1>4. CASE GetMetadata(d)
  <2>1. down[d].state = "idle" /\ down[d].node = 1 /\ down[d].conn = "none"
    BY <1>4 DEF GetMetadata, StoreInv, DownInv, DownOK
  <2>2. PICK m : down' = [down EXCEPT ![d].state = IF m = NoMeta THEN "nofile" ELSE "chunks", ![d].rec = m]
    BY <1>4 DEF GetMetadata
  <2> DEFINE s == IF m = NoMeta THEN "nofile" ELSE "chunks"
  <2>3. s # "lost" /\ down' = [down EXCEPT ![d].state = s, ![d].rec = m]
    BY <2>2
  <2> HIDE DEF s
  <2>4. down'[d].state = s /\ down'[d].node = down[d].node /\ down'[d].conn = down[d].conn
    BY <1>1, <2>3 DEF DownRec
  <2>5. down'[d].state # "lost" /\ 1..(down'[d].node - 1) = {} /\ down'[d].conn = "none"
    <3>1. down'[d].state # "lost" /\ down'[d].conn = "none" /\ down'[d].node = 1
      BY <2>1, <2>3, <2>4
    <3> QED
      BY <3>1
  <2> QED
    BY <2>5 DEF LossOK
<1>5. ASSUME NEW to, down[d].state = "chunks", down' = [down EXCEPT ![d].conn = to],
             to = "notfound" => DownNode(d) \in failed, to # "broken"
      PROVE  LossOK(d)'
  <2>1. /\ down'[d].state = down[d].state /\ down'[d].rec = down[d].rec /\ down'[d].got = down[d].got
        /\ down'[d].node = down[d].node /\ down'[d].conn = to
    BY <1>1, <1>5 DEF DownRec
  <2>2. PICK n : n = DownNode(d)
    OBVIOUS
  <2>3. to \in {"notfound", "broken"} => n \in failed'
    BY <1>2, <1>5, <2>2
  <2> QED
    BY <1>1, <2>1, <2>2, <2>3, LossStays
<1>6. CASE SendGet(d)
  <2>1. PICK to : to = "request"
    OBVIOUS
  <2>2. down[d].state = "chunks" /\ down' = [down EXCEPT ![d].conn = to]
    BY <1>6, <2>1 DEF SendGet, DownloadStep
  <2>3. to # "notfound" /\ to # "broken"
    BY <2>1
  <2> QED
    BY <1>5, <2>2, <2>3
<1>7. CASE HandleGet(d)
  <2> DEFINE to == IF DownHash(d) \in storage[DownNode(d)] THEN "data" ELSE "notfound"
  <2>1. down[d].state = "chunks" /\ down' = [down EXCEPT ![d].conn = to]
    BY <1>7 DEF HandleGet, DownloadStep
  <2>2. to # "broken" /\ (to = "notfound" => DownHash(d) \notin storage[DownNode(d)])
    OBVIOUS
  <2>3. Safe(DownHash(d), DownNode(d))
    <3>1. /\ down[d].rec \in Upload /\ down[d].rec \in meta[FileOf[d]] /\ FileOf[d] \in File
          /\ Len(down[d].got) + 1 \in DOMAIN RecordOf[down[d].rec]
          /\ down[d].node \in DOMAIN Replicas[DownHash(d)]
      BY <2>1, DownloadPlace
    <3>2. AllStored(down[d].rec) /\ RecordOf[down[d].rec] = ChunksOf[down[d].rec]
      BY <3>1 DEF StoreInv, MetaInv, FaithfulRecords
    <3>3. ChunkStored(DownHash(d))
      BY <3>1, <3>2 DEF AllStored, DownHash
    <3> QED
      BY <3>1, <3>3 DEF ChunkStored, DownNode
  <2> HIDE DEF to
  <2>4. to = "notfound" => DownNode(d) \in failed
    BY <2>2, <2>3 DEF Safe
  <2> QED
    BY <1>5, <2>1, <2>2, <2>4
<1>8. CASE ChunkReceived(d)
  <2> DEFINE g == Append(down[d].got, DownHash(d))
             s == IF AllReceived(d, g) THEN "ok" ELSE "chunks"
  <2>1. down[d].state = "chunks"
    BY <1>8 DEF ChunkReceived
  <2>2. down' = [down EXCEPT ![d] = [down[d] EXCEPT !.got = g, !.node = 1, !.conn = "none", !.state = s]]
    BY <1>1, <1>8, <2>1 DEF ChunkReceived
  <2>3. s # "lost"
    OBVIOUS
  <2> HIDE DEF g, s
  <2>4. down'[d].state = s /\ down'[d].node = 1 /\ down'[d].conn = "none"
    BY <1>1, <2>2 DEF DownRec
  <2>5. 1..(down'[d].node - 1) = {} /\ down'[d].conn \notin {"notfound", "broken"} /\ down'[d].state # "lost"
    BY <2>3, <2>4
  <2> QED
    BY <2>5 DEF LossOK
<1>9. CASE ChunkUnavailable(d)
  <2>1. down[d].state = "chunks"
    BY <1>9 DEF ChunkUnavailable
  <2>2. PICK h \in Chunk : h = DownHash(d)
    BY <2>1, DownloadPlace
  <2>3. /\ down[d].node \in 1..Len(Replicas[h]) /\ DownNode(d) \in StorageNode
        /\ DownNode(d) = Replicas[h][down[d].node] /\ Len(Replicas[h]) \in Nat
    BY <2>1, <2>2, DownloadPlace DEF DownNode
  <2>4. DownNode(d) \in failed
    BY <1>1, <1>9, <2>1, <2>3 DEF ChunkUnavailable, LossOK, StoreInv, NodeInv
  <2>5. \A j \in 1..down[d].node : Replicas[h][j] \in failed
    <3>1. \A j \in 1..down[d].node : j \in 1..(down[d].node - 1) \/ j = down[d].node
      BY <2>3
    <3>2. \A j \in 1..(down[d].node - 1) : Replicas[h][j] \in failed
      BY <1>1, <2>1, <2>2 DEF LossOK
    <3> QED
      BY <2>3, <2>4, <3>1, <3>2
  <2>6. CASE MoreReplicas(d)
    <3> DEFINE r == [down[d] EXCEPT !.node = down[d].node + 1, !.conn = "none"]
    <3>1. down' = [down EXCEPT ![d] = r]
      BY <1>9, <2>6 DEF ChunkUnavailable
    <3>2. /\ r.state = down[d].state /\ r.rec = down[d].rec /\ r.got = down[d].got
          /\ r.node = down[d].node + 1 /\ r.conn = "none"
      BY <1>1 DEF DownRec
    <3> HIDE DEF r
    <3>3. down'[d] = r
      BY <1>1, <3>1
    <3>4. down'[d].node - 1 = down[d].node
      <4>1. down[d].node \in Nat /\ down'[d].node = down[d].node + 1
        BY <2>3, <3>2, <3>3
      <4> QED
        BY <4>1
    <3>5. DownHash(d)' = h
      BY <2>2, <3>2, <3>3 DEF DownHash
    <3>6. \A j \in 1..(down'[d].node - 1) : Replicas[h][j] \in failed'
      BY <1>2, <2>5, <3>4
    <3>7. down'[d].state = "chunks" /\ down'[d].conn = "none"
      BY <2>1, <3>2, <3>3
    <3> QED
      BY <3>5, <3>6, <3>7 DEF LossOK
  <2>7. CASE ~MoreReplicas(d)
    <3>1. down[d].node = Len(Replicas[h]) /\ DOMAIN Replicas[h] = 1..Len(Replicas[h])
      BY <2>2, <2>3, <2>7 DEF MoreReplicas
    <3> QED
      BY <1>1, <2>5, <3>1, OneReplicaLeft
  <2> QED
    BY <2>6, <2>7
<1>10. ASSUME NEW n \in StorageNode, Crash(n) \/ Disconnect(n) PROVE LossOK(d)'
  <2>1. failed' = failed \cup {n}
    BY <1>10 DEF Crash, Disconnect, Fail
  <2>2. \/ down'[d] = down[d]
        \/ down[d].state = "chunks" /\ DownNode(d) = n /\ down'[d] = [down[d] EXCEPT !.conn = "broken"]
    BY <1>10 DEF Crash, Disconnect, Fail, DownloadsAt
  <2>3. CASE down[d].state = "chunks" /\ DownNode(d) = n /\ down'[d] = [down[d] EXCEPT !.conn = "broken"]
    <3>1. /\ down'[d].state = down[d].state /\ down'[d].rec = down[d].rec /\ down'[d].got = down[d].got
          /\ down'[d].node = down[d].node
      BY <1>1, <2>3 DEF DownRec
    <3> QED
      BY <1>1, <2>1, <2>3, <3>1, LossStays
  <2> QED
    BY <1>3, <2>2, <2>3
<1>11. ASSUME NEW e \in Download, e # d, GetMetadata(e) \/ DownloadAction(e) PROVE down'[d] = down[d]
  BY <1>11, DownloadKeeps
<1>12. ASSUME NEW u \in Upload, BeginUpload(u) \/ UploadAction(u) \/ PutMetadata(u) PROVE down' = down
  BY <1>12 DEF BeginUpload, UploadAction, PutMetadata, SendStore, HandleStore, HandleStoreData,
     SendChunk, ChunkAcked, ChunkFailed, ClientKilled, UploadReturns
<1>13. ASSUME NEW n \in StorageNode, Restart(n) PROVE down' = down
  BY <1>13 DEF Restart
<1>14. CASE UNCHANGED vars
  BY <1>3, <1>14 DEF vars
<1> QED
  BY <1>3, <1>4, <1>6, <1>7, <1>8, <1>9, <1>10, <1>11, <1>12, <1>13, <1>14 DEF Next, DownloadAction

\* With more replicas than failures, of nodes or of connections, no download ever misses a chunk (downloadFile goes
\* through the replicas, downloadChunkFromNode tells a missing chunk from a dead node):
\* the k-1 failures that k-fold replication promises to survive, wherever they strike
\* an upload or a download, for any number of nodes and calls.
THEOREM FailuresLoseNoChunk ==
    ASSUME FaithfulRecords, EnoughReplicas
    PROVE  Spec => []NoChunkLost
<1>1. Init => LossInv
  BY FS_EmptySet DEF Init, LossInv, FailInv, LossOK
<1>2. StoreInv /\ LossInv /\ [Next]_vars => LossInv'
  BY LossStep
<1>3. LossInv => NoChunkLost
  BY DEF LossInv, LossOK, NoChunkLost
<1> QED
  BY <1>1, <1>2, <1>3, InitStore, StoreStep, PTL DEF Spec
=============================================================================
