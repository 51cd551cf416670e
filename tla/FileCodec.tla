------------------------------ MODULE FileCodec ------------------------------
(***************************************************************************)
(* What happens to a file and to its metadata record on their way: the     *)
(* split into chunks, their hashes, the PUT and FOUND messages, and the    *)
(* file put together again.  All of it is pure, so it is operators.        *)
(*                                                                         *)
(* Messages are sequences of words, as operator>> reads them.  A word is a *)
(* number or a text; a text is the sequence of its parts between commas.   *)
(* A name with blanks is therefore several words.  A digest is one part:   *)
(* it is the symbolic Sha256 of what was hashed, and the concatenation of  *)
(* digests, all of one length, is the sequence of them.                    *)
(***************************************************************************)
EXTENDS Integers, Sequences, SequencesExt

CONSTANTS
    ChunkSize,   \* CHUNK_SIZE
    Sha256(_)    \* computeSHA256 (external to this module: Sha256Blocks)

ASSUME CodecAssumption == ChunkSize \in Nat \ {0}

-----------------------------------------------------------------------------
(* Chunks and hashes.                                                      *)

\* while (file.read(...) || file.gcount() > 0): the last read may be short, never empty.
NumChunks(content) == (Len(content) + ChunkSize - 1) \div ChunkSize

SplitFileIntoChunks(content) ==
    [i \in 1..NumChunks(content) |->
        [index |-> i - 1,
         data  |-> SubSeq(content, (i - 1) * ChunkSize + 1, Min({i * ChunkSize, Len(content)}))]]

\* hashAllChunks, and the hashes vector of uploadFile and computeCID.
HashAllChunks(chunks) == [i \in DOMAIN chunks |-> Sha256(chunks[i].data)]

\* Faulty variant of ComputeRootHash: combined = h for combined += h.
RootOfLastHash(hashes) == Sha256(<<Last(hashes)>>)

ComputeRootHash(hashes) == Sha256(hashes)

\* computeCID of verify_files: "" for an empty file.
NoCID == <<>>
ComputeCID(content) ==
    LET chunks == SplitFileIntoChunks(content)
    IN  IF chunks = <<>> THEN NoCID ELSE ComputeRootHash(HashAllChunks(chunks))

\* verify_files prints VERIFIED.
Verified(original, reconstructed) ==
    LET a == ComputeCID(original)
        b == ComputeCID(reconstructed)
    IN  a # NoCID /\ b # NoCID /\ a = b

\* Faulty variant of ByIndex: the chunks are written in the order they are given.
AsGiven(chunks) == chunks

\* std::sort by index.
ByIndex(chunks) ==
    LET order == CHOOSE p \in Bijection(DOMAIN chunks, DOMAIN chunks) :
                    \A i, j \in DOMAIN chunks : i < j => chunks[p[i]].index <= chunks[p[j]].index
    IN  [i \in DOMAIN chunks |-> chunks[order[i]]]

\* The room of an output path that cannot be opened for writing.
CannotCreate == -1

\* reconstructFile on a disk with room for so many bytes.  out.write is not checked: what
\* does not fit is missing from the file, and the result is true all the same.
ReconstructFile(chunks, room) ==
    LET sorted == ByIndex(chunks)
        bytes  == FlattenSeq([i \in DOMAIN sorted |-> sorted[i].data])
    IN  IF \/ chunks = <<>>
           \/ \E i \in DOMAIN sorted : sorted[i].index # i - 1
           \/ room = CannotCreate
        THEN [ok |-> FALSE, out |-> <<>>]
        ELSE [ok |-> TRUE, out |-> SubSeq(bytes, 1, Min({room, Len(bytes)}))]

-----------------------------------------------------------------------------
(* The record on the wire.                                                 *)

Text(parts) == [kind |-> "text", parts |-> parts]
Num(n)      == [kind |-> "num", parts |-> <<n>>]

\* find_last_of("/\\"): a path is the sequence of its components, a component its words.
FileName(path) == Last(path)

\* putMetadataToNode
PutCommand(path, content) ==
    LET chunks == SplitFileIntoChunks(content)
        hashes == HashAllChunks(chunks)
    IN  <<Text(<<"PUT">>)>> \o FileName(path)
        \o <<Num(Len(content)), Num(ChunkSize), Num(Len(chunks)),
             Text(<<ComputeRootHash(hashes)>>), Text(hashes)>>

\* std::getline(hs, h, ',') over a word, empty parts dropped.
HashList(word) == word.parts

\* Faulty variant of IsNumber: operator>> on a number that is none goes unnoticed.
IsWord(word) == TRUE

\* operator>> into an int: it fails on a word that is no number, and with it the rest.
IsNumber(word) == word.kind = "num"

\* struct FileMetadata, and the empty one.
Record(name, fileSize, chunkSize, totalChunks, rootHash, hashes) ==
    [filename |-> name, fileSize |-> fileSize, chunkSize |-> chunkSize,
     totalChunks |-> totalChunks, rootHash |-> rootHash, chunkHashes |-> hashes]
NoRecord == Record(Text(<<>>), Num(0), Num(0), Num(0), Text(<<>>), <<>>)

\* handlePut: iss >> op >> filename >> fileSize >> chunkSize >> totalChunks >> rootHash >>
\* hashesStr.  What follows the seventh word is ignored; a command it cannot read is refused
\* with ERROR_ARGS.
HandlePut(words) ==
    IF Len(words) >= 7 /\ \A i \in 3..5 : IsNumber(words[i])
    THEN Record(words[2], words[3], words[4], words[5], words[6], HashList(words[7]))
    ELSE NoRecord

\* handleGet: the answer about a record, as words behind FOUND.
FoundMessage(record) ==
    <<record.fileSize, record.chunkSize, record.totalChunks, record.rootHash,
      Text(record.chunkHashes)>>

\* getMetadataFromNode: the hashes of the record, none if they cannot be read.
HashesFound(words) ==
    IF Len(words) >= 5 /\ \A i \in 1..3 : IsNumber(words[i]) THEN HashList(words[5]) ELSE <<>>

\* The name handlePut reads of the one that uploadFile sends, without its directories.
NamePut(path) == FileName(path)[1]

\* The name handleGet reads of the one that downloadFile sends as it is given: the slash
\* behind a directory is part of the word, and no name that was put has one.
NameAsked(path) == IF Len(path) = 1 \/ Len(path[1]) > 1 THEN path[1][1] ELSE Text(<<"/", path>>)

\* What a download reads of the record an upload has put.
RecordRead(path, content) ==
    LET record == HandlePut(PutCommand(path, content))
    IN  IF record = NoRecord THEN <<>> ELSE HashesFound(FoundMessage(record))

=============================================================================
