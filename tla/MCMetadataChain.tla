--------------------------- MODULE MCMetadataChain ---------------------------
(* Instances of MetadataChain for TLC. *)
EXTENDS ChainDeployment, TLC

CONSTANTS f1, f2, p1, p2, g1, g2, s1, s2

\* Every call is made on a Client object of its own, or all on one.
OwnSession == [o \in Op |-> o]
OneSession == [o \in Op |-> s1]
\* Uploads on one object, downloads on another.
TwoSessions == [o \in Op |-> IF o \in PutOp THEN s1 ELSE s2]
\* Every upload on its own object, the downloads on one.
OneReader == [o \in Op |-> IF o \in PutOp THEN o ELSE s2]

PlainNames == [f \in File |-> f]
\* With f1 = "photo" and f2 = "photo 1", both commands carry the name f1.
SpacedNames == [f \in File |-> f1]

\* A node list with the metadata nodes behind a storage node and other lines.
Line(id, host, port) == <<NumWord(id), host, NumWord(port)>>
OtherLines == {Line(1, Loopback, 81), <<>>, <<CommentMark, TextWord("metadata")>>,
               <<NumWord(12), NumWord(7)>>, <<TextWord("node"), NumWord(11), NumWord(9)>>}
ListedFile == SetToSeq(OtherLines) \o [n \in Node |-> Line(NodeId(n), Loopback, n)]
\* All orders of the metadata nodes, on a machine each, and two other lines.
Hosts == <<"10.0.0.1", "10.0.0.2", "10.0.0.3">>
MetadataLines == {Line(NodeId(n), TextWord(Hosts[n]), n) : n \in Node}
ShuffledFiles ==
    UNION {SetToSeqs(MetadataLines \cup more) : more \in kSubset(2, OtherLines)}
\* A line that is there twice.
DoubledFiles == {<<Line(11, Loopback, 1), Line(11, Loopback, 1), Line(12, Loopback, 2)>>}
\* Every node reads the file: its successor is the next id.
ConfiguredNext == [n \in Node |-> NextAddress(ListedFile, NodeId(n)).port]

Nobody == {}
SkipTheMiddle == {<<"SET_SKIP", 1, 3>>}
RelinkTheFirst == {<<"UPDATE_NEXT", 1, 3>>}
\* Port -1 takes the last node's successor away, which it does not have, and the skip node.
AllCommands == {<<"SET_SKIP", 1, 3>>, <<"UPDATE_NEXT", 1, 3>>,
                <<"UPDATE_NEXT", 3, NoPort>>, <<"UPDATE_PREV", 2, 1>>,
                <<"SET_SKIP", 1, NoPort>>}

\* Downloads begin, and nodes die, when all uploads have returned (state constraint).
UploadsFirst ==
    \/ \A o \in PutOp : opState[o] \in Returned
    \/ (\A o \in GetOp : opState[o] = "idle") /\ (\A n \in Node : Up(n))

PutSymmetry == Permutations(PutOp)
CallSymmetry == Permutations(PutOp) \cup Permutations(GetOp)
=============================================================================
