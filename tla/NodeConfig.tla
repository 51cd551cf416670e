------------------------------ MODULE NodeConfig ------------------------------
(***************************************************************************)
(* The node list file, and what the processes of the metadata chain make   *)
(* of it.  A line is the sequence of its words, as operator>> reads them;  *)
(* a word is a number or a text.  Blanks around a line make no words.      *)
(***************************************************************************)
EXTENDS Integers, Sequences, SequencesExt

NumWord(n)  == [kind |-> "num", num |-> n, text |-> ""]
TextWord(t) == [kind |-> "text", num |-> 0, text |-> t]
CommentMark == TextWord("#")

NodeInfo(id, host, port) == [id |-> id, host |-> host, port |-> port]
\* A default constructed NodeInfo: id 0, no host, port 0.
NoInfo == NodeInfo(0, TextWord(""), 0)

\* An empty line and a comment are skipped; iss >> id >> host >> port fails on any other
\* line that is not a number, a word and a number.  What follows these is ignored.
IsNodeLine(line) ==
    /\ line # <<>> /\ line[1] # CommentMark
    /\ Len(line) >= 3
    /\ line[1].kind = "num" /\ line[3].kind = "num"

\* The elements of s at the places of S, one push_back after the other.
Kept(s, S) ==
    LET kept[i \in 0..Len(s)] ==
            IF i = 0 THEN <<>> ELSE IF i \in S THEN Append(kept[i - 1], s[i]) ELSE kept[i - 1]
    IN  kept[Len(s)]

LoadConfig(file) ==
    LET lines == Kept(file, {i \in DOMAIN file : IsNodeLine(file[i])})
    IN  [i \in DOMAIN lines |-> NodeInfo(lines[i][1].num, lines[i][2], lines[i][3].num)]

\* The first entry with the id.
GetNodeById(nodes, id) ==
    LET found == {i \in DOMAIN nodes : nodes[i].id = id}
    IN  IF found = {} THEN NoInfo ELSE nodes[Min(found)]

GetMyNode(nodes, myNodeId) == GetNodeById(nodes, myNodeId)

-----------------------------------------------------------------------------
(* main of the metadata node.                                              *)

\* Ids below belong to storage nodes.
FirstMetadataId == 11

\* Faulty variant of Sorted: the nodes stay in the order of the file.
Unsorted(nodes) == nodes

\* std::sort by id.
Sorted(nodes) ==
    LET order == CHOOSE p \in Bijection(DOMAIN nodes, DOMAIN nodes) :
                    \A i, j \in DOMAIN nodes : i < j => nodes[p[i]].id <= nodes[p[j]].id
    IN  [i \in DOMAIN nodes |-> nodes[order[i]]]

MetadataNodes(nodes) == Sorted(Kept(nodes, {i \in DOMAIN nodes : nodes[i].id >= FirstMetadataId}))

\* No entry for the node: main ends with an error.
Starts(file, nodeId) ==
    LET myNode == GetMyNode(LoadConfig(file), nodeId)
    IN  ~(myNode.port = 0 /\ myNode.host = NoInfo.host)

Address(node) == [host |-> node.host, port |-> node.port]
NoAddress == [host |-> TextWord(""), port |-> -1]

\* Where the node is to be found: on its port it listens itself, its host the others use.
MyAddress(file, nodeId) == Address(GetMyNode(LoadConfig(file), nodeId))

\* nextIp and nextPort: of the entry behind the first one with the node's id.
NextAddress(file, nodeId) ==
    LET chain == MetadataNodes(LoadConfig(file))
        mine  == {i \in DOMAIN chain : chain[i].id = nodeId}
    IN  IF mine = {} \/ Min(mine) = Len(chain) THEN NoAddress ELSE Address(chain[Min(mine) + 1])

-----------------------------------------------------------------------------
(* Properties.                                                             *)

\* Whatever else the file holds and in whatever order: the processes, each reading it
\* for itself, form one chain.  Every configured metadata node starts, and the host and
\* port it forwards to are those of the node with the next greater id (main of the
\* metadata node, NodeConfig); only the last forwards nowhere.
FormsOneChain(file) ==
    LET ids == {i \in {n.id : n \in Range(LoadConfig(file))} : i >= 11}
    IN  \A i \in ids :
            LET later == {j \in ids : j > i}
            IN  /\ Starts(file, i)
                /\ NextAddress(file, i) =
                      IF later = {} THEN NoAddress ELSE MyAddress(file, Min(later))

=============================================================================
