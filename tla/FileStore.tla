------------------------------ MODULE FileStore ------------------------------
(***************************************************************************)
(* Whole uploads and downloads: Client::uploadFile and downloadFile, and   *)
(* the storage nodes they exchange chunks with.  The metadata layer, whose *)
(* inside is MetadataChain, is taken at its weakest: once the record of an *)
(* upload is on some node, a GET may return it, or an older one, or fail.  *)
(*                                                                         *)
(* A chunk is named by its hash: content and hash are one, since only      *)
(* clients that hashed a chunk store it.  A storage node that fails, by    *)
(* DIE or by a crash, loses its chunks; the process may be started again.  *)
(***************************************************************************)
EXTENDS Integers, Sequences, FiniteSets, SequencesExt

CONSTANTS
    StorageNode,
    File,
    Upload, Download,  \* calls of uploadFile and downloadFile
    FileOf,            \* the name a call's commands carry, as the nodes read it
    ChunksOf,          \* the hashes of the chunks an upload splits its file into
    RecordOf,          \* the hashes a download reads in an upload's record, see FileCodec;
                       \* none if the nodes refuse the record
    Chunk,             \* all hashes of chunks
    Replicas,          \* getNodesForKey(hash, 2), see HashRing
    MaxCrashes,        \* failures of storage nodes and of connections to them (bound)
    MaxDown,           \* how many nodes may be down at a time
    NoMeta             \* no metadata for a file

ASSUME StoreAssumption ==
    /\ FileOf \in [Upload \cup Download -> File]
    /\ ChunksOf \in [Upload -> Seq(Chunk)]
    /\ RecordOf \in [Upload -> Seq(Chunk)]
    /\ Replicas \in [Chunk -> Seq(StorageNode) \ {<<>>}]
    /\ MaxCrashes \in Nat /\ MaxDown \in Nat
    /\ NoMeta \notin Upload

VARIABLES
    status,    \* "up" or "down" for every storage node
    storage,   \* storage_ of every node: the hashes it holds
    failed,    \* history: the nodes that have failed at some time, or a connection to them
    crashes,   \* how many failures there were
    meta,      \* the metadata layer: the uploads of a file whose record some node has
    up,        \* for every upload: where it is, which chunk and replica, and
               \* successCount for every chunk
    down       \* for every download: where it is, the record, the chunks got

failVars == <<failed, crashes>>
vars == <<status, storage, failVars, meta, up, down>>

\* Connections: the request is on its way, the node answered, the data is on its way,
\* the node is done; or the connection broke, with the client to read next ("broken") or
\* to write next ("reset").
Conn == {"none", "request", "ready", "data", "done", "broken", "reset"}

UpState == {"idle", "chunks", "metadata", "published", "ok", "gaveup", "failed", "killed"}
DownState == {"idle", "chunks", "ok", "nofile", "lost"}

\* The types of all state; an upload in its loops has a chunk and a replica of it to go to.
TypeOK ==
    /\ status \in [StorageNode -> {"up", "down"}]
    /\ storage \in [StorageNode -> SUBSET Chunk]
    /\ failed \subseteq StorageNode /\ crashes \in 0..MaxCrashes
    /\ meta \in [File -> SUBSET Upload]
    /\ up \in [Upload -> [state : UpState, chunk : Nat, node : Nat, conn : Conn, copies : Seq(Nat)]]
    /\ \A u \in Upload :
          /\ Len(up[u].copies) = Len(ChunksOf[u])
          /\ up[u].state = "chunks" => /\ up[u].chunk \in DOMAIN ChunksOf[u]
                                       /\ up[u].node \in DOMAIN Replicas[ChunksOf[u][up[u].chunk]]
    /\ down \in [Download -> [state : DownState, rec : Upload \cup {NoMeta}, got : Seq(Chunk),
                              node : Nat, conn : Conn \cup {"notfound"}]]

Init ==
    /\ status = [n \in StorageNode |-> "up"]
    /\ storage = [n \in StorageNode |-> {}]
    /\ failed = {} /\ crashes = 0
    /\ meta = [f \in File |-> {}]
    /\ up = [u \in Upload |-> [state |-> "idle", chunk |-> 1, node |-> 1, conn |-> "none",
                            copies |-> [i \in DOMAIN ChunksOf[u] |-> 0]]]
    /\ down = [d \in Download |-> [state |-> "idle", rec |-> NoMeta, got |-> <<>>, node |-> 1, conn |-> "none"]]

-----------------------------------------------------------------------------
(* Uploads: uploadFile, uploadChunkToNode and the node's STORE handler.    *)

UpHash(u) == ChunksOf[u][up[u].chunk]
UpNode(u) == Replicas[UpHash(u)][up[u].node]

\* The file is split and hashed; an empty or missing one is not uploaded.
BeginUpload(u) ==
    /\ up[u].state = "idle"
    /\ up' = [up EXCEPT ![u].state = IF ChunksOf[u] = <<>> THEN "failed" ELSE "chunks"]
    /\ UNCHANGED <<status, storage, failVars, meta, down>>

\* Faulty variant of LastReplica: the walk over the replicas goes one too far.
PastLastReplica(u) == up[u].node > Len(Replicas[UpHash(u)])

LastReplica(u) == up[u].node = Len(Replicas[UpHash(u)])

\* One replica is done with: on to the next replica, the next chunk or the metadata.  A
\* chunk with successCount 0 ends the upload.
UploadNext(u, success) ==
    LET lastChunk == up[u].chunk = Len(ChunksOf[u])
        copies    == up[u].copies[up[u].chunk] + success
        next      == [up[u] EXCEPT !.copies[up[u].chunk] = copies, !.conn = "none"]
    IN  up' = [up EXCEPT ![u] =
            IF ~LastReplica(u) THEN [next EXCEPT !.node = @ + 1]
            ELSE IF copies = 0 THEN [next EXCEPT !.state = "failed"]
            ELSE [next EXCEPT !.chunk = @ + 1, !.node = 1,
                              !.state = IF lastChunk THEN "metadata" ELSE "chunks"]]

UploadStep(u, from, to) ==
    /\ up[u].state = "chunks"
    /\ up[u].conn = from
    /\ up' = [up EXCEPT ![u].conn = to]

\* The client connects and sends STORE.
SendStore(u) ==
    /\ UploadStep(u, "none", "request")
    /\ status[UpNode(u)] = "up"
    /\ UNCHANGED <<status, storage, failVars, meta, down>>

HandleStore(u) ==
    /\ UploadStep(u, "request", "ready")
    /\ UNCHANGED <<status, storage, failVars, meta, down>>

SendChunk(u) ==
    /\ UploadStep(u, "ready", "data")
    /\ UNCHANGED <<status, storage, failVars, meta, down>>

\* Faulty variant of StoreChunk: ACK before the data is in the map.
AckOnly(u) == UNCHANGED storage

\* storage_[hash] = std::move(data)
StoreChunk(u) == storage' = [storage EXCEPT ![UpNode(u)] = @ \cup {UpHash(u)}]

\* The data is in the map before ACK goes out.
HandleStoreData(u) ==
    /\ UploadStep(u, "data", "done")
    /\ StoreChunk(u)
    /\ UNCHANGED <<status, failVars, meta, down>>

ChunkAcked(u) ==
    /\ up[u].state = "chunks" /\ up[u].conn = "done"
    /\ UploadNext(u, 1)
    /\ UNCHANGED <<status, storage, failVars, meta, down>>

\* Faulty variant of ExchangeFailed: a connection that breaks goes unnoticed.
NotConnected(u) == up[u].conn = "none" /\ status[UpNode(u)] = "down"

\* uploadChunkToNode returns false: no connection, or it broke.
ExchangeFailed(u) ==
    \/ up[u].conn = "none" /\ status[UpNode(u)] = "down"
    \/ up[u].conn \in {"broken", "reset"}

ChunkFailed(u) ==
    /\ up[u].state = "chunks" /\ ExchangeFailed(u)
    /\ UploadNext(u, 0)
    /\ UNCHANGED <<status, storage, failVars, meta, down>>

\* send() on a connection the node has closed: SIGPIPE, which nothing ignores, ends the
\* client's process if the second send() of sendData finds the reset.
ClientKilled(u) ==
    /\ up[u].state = "chunks" /\ up[u].conn = "reset"
    /\ up' = [up EXCEPT ![u].state = "killed", ![u].conn = "none"]
    /\ UNCHANGED <<status, storage, failVars, meta, down>>

\* The PUT reaches a node's map; that of an upload that gave up on it may do so later.
\* One whose words handlePut cannot read never does: every node answers ERROR_ARGS.
PutMetadata(u) ==
    /\ up[u].state \in {"metadata", "gaveup"}
    /\ RecordOf[u] # <<>>
    /\ meta' = [meta EXCEPT ![FileOf[u]] = @ \cup {u}]
    /\ up' = [up EXCEPT ![u].state = IF @ = "metadata" THEN "published" ELSE "failed"]
    /\ UNCHANGED <<status, storage, failVars, down>>

\* Every metadata node failed the upload: its PUT may have had an effect, or have one later.
UploadReturns(u) ==
    /\ \/ up[u].state = "published" /\ \E s \in {"ok", "failed"} : up' = [up EXCEPT ![u].state = s]
       \/ up[u].state = "metadata" /\ up' = [up EXCEPT ![u].state = "gaveup"]
    /\ UNCHANGED <<status, storage, failVars, meta, down>>

-----------------------------------------------------------------------------
(* Downloads: downloadFile, downloadChunkFromNode and the GET handler.     *)

DownHash(d) == RecordOf[down[d].rec][Len(down[d].got) + 1]
DownNode(d) == Replicas[DownHash(d)][down[d].node]

\* A record, or nothing: there is none yet, or no metadata node has it or answers.
GetMetadata(d) ==
    /\ down[d].state = "idle"
    /\ \E m \in meta[FileOf[d]] \cup {NoMeta} :
          down' = [down EXCEPT ![d].state = IF m = NoMeta THEN "nofile" ELSE "chunks",
                               ![d].rec = m]
    /\ UNCHANGED <<status, storage, failVars, meta, up>>

DownloadStep(d, from, to) ==
    /\ down[d].state = "chunks"
    /\ down[d].conn = from
    /\ down' = [down EXCEPT ![d].conn = to]
    /\ UNCHANGED <<status, storage, failVars, meta, up>>

SendGet(d) ==
    /\ DownloadStep(d, "none", "request")
    /\ status[DownNode(d)] = "up"

HandleGet(d) ==
    DownloadStep(d, "request", IF DownHash(d) \in storage[DownNode(d)] THEN "data" ELSE "notfound")

\* Faulty variant of AllReceived: the loop over the hashes ends one short.
AllButOneReceived(d, got) == Len(got) + 1 >= Len(RecordOf[down[d].rec])

AllReceived(d, got) == Len(got) = Len(RecordOf[down[d].rec])

\* The chunk is appended; after the last one reconstructFile writes the output.
ChunkReceived(d) ==
    LET got == Append(down[d].got, DownHash(d)) IN
    /\ down[d].state = "chunks" /\ down[d].conn = "data"
    /\ down' = [down EXCEPT ![d].got = got, ![d].node = 1, ![d].conn = "none",
                            ![d].state = IF AllReceived(d, got) THEN "ok" ELSE @]
    /\ UNCHANGED <<status, storage, failVars, meta, up>>

\* Faulty variant of MoreReplicas: only the primary is asked.
PrimaryOnly(d) == FALSE

MoreReplicas(d) == down[d].node < Len(Replicas[DownHash(d)])

\* On to the other replica; without one the download is given up.
ChunkUnavailable(d) ==
    /\ down[d].state = "chunks"
    /\ \/ down[d].conn = "none" /\ status[DownNode(d)] = "down"
       \/ down[d].conn \in {"notfound", "broken"}
    /\ down' = [down EXCEPT ![d] =
            IF MoreReplicas(d) THEN [down[d] EXCEPT !.node = @ + 1, !.conn = "none"]
            ELSE [down[d] EXCEPT !.state = "lost", !.conn = "none"]]
    /\ UNCHANGED <<status, storage, failVars, meta, up>>

-----------------------------------------------------------------------------
(* Failures.                                                               *)

\* The calls that are at node n, connected to it or about to be.
UploadsAt(n) == {u \in Upload : up[u].state = "chunks" /\ UpNode(u) = n}
DownloadsAt(n) == {d \in Download : down[d].state = "chunks" /\ DownNode(d) = n}

\* A failure of n for some of the calls that are at it.  (An answer that was sent and still
\* arrives is an answer that arrived before: it changes nothing but the client.  Data that
\* was sent and is stored later only adds to what n holds.)
Fail(n, us, ds) ==
    /\ crashes < MaxCrashes
    /\ failed' = failed \cup {n}
    /\ crashes' = crashes + 1
    /\ up' = [u \in Upload |->
                 IF u \in us
                 THEN [up[u] EXCEPT !.conn = IF @ \in {"ready", "reset"} THEN "reset" ELSE "broken"]
                 ELSE up[u]]
    /\ down' = [d \in Download |->
                 IF d \in ds THEN [down[d] EXCEPT !.conn = "broken"] ELSE down[d]]
    /\ UNCHANGED meta

\* A node fails and every open connection to it breaks.
Crash(n) ==
    /\ status[n] = "up"
    /\ Cardinality({m \in StorageNode : status[m] = "down"}) < MaxDown
    /\ status' = [status EXCEPT ![n] = "down"]
    /\ storage' = [storage EXCEPT ![n] = {}]
    /\ Fail(n, {u \in UploadsAt(n) : up[u].conn # "none"}, {d \in DownloadsAt(n) : down[d].conn # "none"})

\* A node that is up and keeps its chunks is out of reach for some calls: connect fails, or
\* the connection breaks at any step of the exchange.
Disconnect(n) ==
    /\ status[n] = "up"
    /\ \E us \in SUBSET UploadsAt(n), ds \in SUBSET DownloadsAt(n) :
          /\ us # {} \/ ds # {}
          /\ Fail(n, us, ds)
    /\ UNCHANGED <<status, storage>>

\* The process is started again: storage_ is empty.
Restart(n) ==
    /\ status[n] = "down"
    /\ status' = [status EXCEPT ![n] = "up"]
    /\ UNCHANGED <<storage, failVars, meta, up, down>>

-----------------------------------------------------------------------------
UploadAction(u) ==
    \/ SendStore(u)
    \/ HandleStore(u)
    \/ SendChunk(u)
    \/ HandleStoreData(u)
    \/ ChunkAcked(u)
    \/ ChunkFailed(u)
    \/ ClientKilled(u)
    \/ UploadReturns(u)

DownloadAction(d) ==
    \/ SendGet(d)
    \/ HandleGet(d)
    \/ ChunkReceived(d)
    \/ ChunkUnavailable(d)

Next ==
    \/ \E u \in Upload : BeginUpload(u) \/ UploadAction(u) \/ PutMetadata(u)
    \/ \E d \in Download : GetMetadata(d) \/ DownloadAction(d)
    \/ \E n \in StorageNode : Crash(n) \/ Disconnect(n) \/ Restart(n)

Spec == Init /\ [][Next]_vars

\* Clients and handler threads that are not blocked run; nothing makes a user call, a
\* node fail or an operator restart one.
FairSpec ==
    /\ Spec
    /\ \A u \in Upload : WF_vars(UploadAction(u))
    /\ \A d \in Download : WF_vars(DownloadAction(d))

-----------------------------------------------------------------------------
(* Properties.                                                             *)

\* A GET may return the upload's record.
Published(u) == u \in meta[FileOf[u]]

\* Chunks come before metadata (uploadFile): when a record can be read, every chunk it
\* names is in the storage of every one of its replicas that has not failed, and to which
\* no connection has failed, since the system started.  In particular an uploader that SIGPIPE kills between two chunks leaves
\* no record behind, and no record names a chunk that nobody ever stored.
RecordsHaveChunks ==
    \A u \in Upload : Published(u) =>
        \A h \in Range(RecordOf[u]), n \in StorageNode :
            (n \in Range(Replicas[h]) /\ n \notin failed) => h \in storage[n]

\* What a download writes is exactly what one upload of that file read (downloadFile,
\* reconstructFile): never a mixture of versions, a prefix or chunks out of order,
\* whatever uploads and failures happen meanwhile.
DownloadIntact ==
    \A d \in Download : down[d].state = "ok" =>
        \E u \in Upload : FileOf[u] = FileOf[d] /\ down[d].got = ChunksOf[u]

\* A file whose metadata is found can be read (README: data remains accessible even if a
\* storage node fails): no download misses a chunk, be the one failure a node's or that of
\* a connection, in the middle of an upload or of a download.
NoChunkLost == \A d \in Download : down[d].state # "lost"

\* Every call comes to an end (uploadFile, downloadFile): no exchange with a node waits
\* for ever, whichever step of it the node or the connection fails at.
CallsReturn ==
    /\ \A u \in Upload : up[u].state = "chunks" ~> up[u].state \in {"ok", "gaveup", "failed", "killed"}
    /\ \A d \in Download : down[d].state = "chunks" ~> down[d].state \in {"ok", "lost"}

\* A storage node that fails does not end the client: the failed copy is reported and the
\* next replica tried (uploadChunkToNode returns false when sendData does).
UploadSurvivesNode == \A u \in Upload : up[u].state # "killed"
=============================================================================
