---------------------------- MODULE MCFileTransfer ----------------------------
(* Instances of FileTransfer for TLC. *)
EXTENDS FileTransfer

CONSTANTS n1, n2, n3, u1, u2, d1, b1, b2, c1, c2, my, photo, home

\* A digest is as good as what it is the digest of; the chunks of MCFileStore have names.
Symbolic(data) ==
    CASE data = <<b1, b1>> -> c1 [] data = <<b2, b1>> -> c2 [] OTHER -> <<"sha256", data>>

\* "photo", "my photo" and "photo 1"
Plain  == <<Text(<<photo>>)>>
Blank  == <<Text(<<my>>), Text(<<photo>>)>>
Number == <<Text(<<photo>>), Num(1)>>

\* Two versions of a file from two directories share chunks; the second is longer.
PlainPaths ==
    [o \in Upload \cup Download |-> IF o = u2 THEN <<<<Text(<<home>>)>>, Plain>> ELSE <<Plain>>]
TwoVersions ==
    [u \in Upload |-> IF u = u1 THEN <<b1, b1, b2, b1>> ELSE <<b2, b1, b1, b1, b2, b1>>]
OneChunk == [u \in Upload |-> <<b1, b1>>]

\* The constants of FileStore for them, spelt out: TransferAssumption compares them with
\* what the codec and the ring compute.
VersionChunks == [u \in Upload |-> IF u = u1 THEN <<c1, c2>> ELSE <<c2, c1, c2>>]
OneName == [o \in Upload \cup Download |-> Plain[1]]
RingReplicas == [c \in Chunk |-> IF c = c1 THEN <<n2, n3>> ELSE <<n3, n1>>]

\* Names with a blank, behind which a number stands.
NumberPaths == [o \in Upload \cup Download |-> <<Number>>]

MCStorageList == <<n1, n2, n3>>
MCChunk == UNION {Range(UploadChunks[u]) : u \in Upload} \cup {ComputeCID(ContentOf[u]) : u \in Upload}
MCFile == Range(CallName)

\* The walk starts between two nodes for c1 and wraps behind the last node for c2.
MCRingHash ==
    [k \in StorageNode \cup Chunk |->
        CASE k = n1 -> -3 [] k = n2 -> 0 [] k = n3 -> 3
          [] k = c1 -> -1 [] k = c2 -> 2 [] OTHER -> 5]

Roomy == [d \in Download |-> 100]
NoRoom == [d \in Download |-> 1]

MCContents == BoundedSeq({b1, b2}, 5)
MCNames == {Plain, Blank, Blank \o <<Num(1)>>, Blank \o Plain \o <<Num(1), Num(2), Num(3)>>,
            Blank \o Blank \o Blank}
=============================================================================
