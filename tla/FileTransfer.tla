----------------------------- MODULE FileTransfer -----------------------------
(***************************************************************************)
(* A client from end to end: FileStore with the chunks, the records and    *)
(* the replicas that FileCodec and ConsistentHash compute from the paths,  *)
(* the contents of the files and the list of storage nodes.                *)
(***************************************************************************)
EXTENDS FileStore, FileCodec, ConsistentHash, Sha256Blocks

CONSTANTS
    PathOf,       \* the path a call is made with: a sequence of components
    ContentOf,    \* what the file of an upload holds
    StorageList,  \* the storageNodes the Client is constructed with
    RingHash,     \* the hash function of the ring
    DiskRoom,     \* the bytes a download can write to its output path, or CannotCreate
    Contents,     \* the contents of files considered for the codec
    Names,        \* the names considered for the codec
    MaxHashed     \* the longest message considered for the hash (bound)

-----------------------------------------------------------------------------
(* The constants of FileStore.                                             *)

\* splitFileIntoChunks and hashAllChunks in uploadFile.
UploadChunks == [u \in Upload |-> HashAllChunks(SplitFileIntoChunks(ContentOf[u]))]

UploadRecord == [u \in Upload |-> RecordRead(PathOf[u], ContentOf[u])]

CallName ==
    [o \in Upload \cup Download |-> IF o \in Upload THEN NamePut(PathOf[o]) ELSE NameAsked(PathOf[o])]

\* dht_.getNodesForKey(hash, 2), dht_ as the constructor of Client fills it.
ChunkReplicas ==
    [h \in Chunk |-> GetNodesForKey(RingHash, RingOf(RingHash, StorageList), h, 2)]

ASSUME TransferAssumption ==
    /\ ChunksOf = UploadChunks
    /\ RecordOf = UploadRecord
    /\ FileOf = CallName
    /\ Replicas = ChunkReplicas
    /\ Range(StorageList) = StorageNode
    /\ Upload \cap Download = {}

-----------------------------------------------------------------------------
(* The output of a download.                                               *)

\* What a chunk holds.
DataOf(h) ==
    LET datas == UNION {{c.data : c \in Range(SplitFileIntoChunks(ContentOf[u]))} : u \in Upload}
    IN  CHOOSE s \in datas : Sha256(s) = h

\* The chunks vector of downloadFile, handed to reconstructFile.
Output(d) ==
    ReconstructFile([i \in DOMAIN down[d].got |-> [index |-> i - 1, data |-> DataOf(down[d].got[i])]],
                    DiskRoom[d])

-----------------------------------------------------------------------------
(* Properties.                                                             *)

\* End to end (uploadFile, downloadFile; README: verifies file integrity upon download):
\* when a download says that the file is reconstructed, the output is byte for byte the
\* content of one upload of a file of that very name, directories aside, whatever uploads
\* and failures of storage nodes happen meanwhile.
OutputIntact ==
    \A d \in Download : (down[d].state = "ok" /\ Output(d).ok) =>
        \E u \in Upload :
            /\ PathOf[d] = <<FileName(PathOf[u])>>
            /\ Output(d).out = ContentOf[u]

(* The codec is pure: what is said of it holds of every state if it holds  *)
(* of the initial ones, and is evaluated there.                            *)

\* Splitting and reconstructing (splitFileIntoChunks, reconstructFile): chunks are never
\* empty, in whatever order they come they give the content back, and a gap between them
\* or an output that cannot be created is noticed.
SplitRoundTrip ==
    Init => \A content \in Contents :
        LET chunks == SplitFileIntoChunks(content)
            n == Len(chunks)
        IN  /\ \A i \in 1..n : Len(chunks[i].data) \in 1..ChunkSize
            /\ \A p \in Bijection(1..n, 1..n) :
                  LET shuffled == [i \in 1..n |-> chunks[p[i]]]
                  IN  content # <<>> =>
                        ReconstructFile(shuffled, Len(content)) = [ok |-> TRUE, out |-> content]
            /\ \A i \in 1..(n - 1) : ~ReconstructFile(RemoveAt(chunks, i), Len(content)).ok
            /\ ~ReconstructFile(chunks, CannotCreate).ok

\* A record survives the wire or is refused (putMetadataToNode, handlePut, handleGet,
\* getMetadataFromNode): whatever blanks a name has, as long as no number follows the
\* first of them, a download never reads hashes other than those that were uploaded; and
\* a name without a blank is not refused.
RecordSurvivesWire ==
    Init => \A content \in Contents \ {<<>>}, name \in Names :
        LET read == RecordRead(<<name>>, content)
        IN  /\ read \in {<<>>, HashAllChunks(SplitFileIntoChunks(content))}
            /\ Len(name) = 1 => read # <<>>

\* verify_files says VERIFIED of two files exactly if they hold the same and are not empty
\* (computeCID): no two contents, split differently, share a root hash.
VerifiedMeansEqual ==
    Init => \A a, b \in Contents : Verified(a, b) <=> (a = b /\ a # <<>>)

\* The hash of a message is the standard one and a function of the message (sha256): at
\* every length, around a block's end too, the blocks fed to the transform are those of the
\* padded message, whatever the uninitialised buffer held.
HashesPaddedMessage ==
    Init => \A n \in 0..MaxHashed, garbage \in {0, 255} :
        LET data == [i \in 1..n |-> 1 + (i % 100)]
        IN  FlattenSeq(Blocks(data, [i \in 1..BlockLen |-> garbage])) = Padded(data)

=============================================================================
