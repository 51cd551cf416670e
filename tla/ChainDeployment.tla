--------------------------- MODULE ChainDeployment ---------------------------
(***************************************************************************)
(* The chain as its processes set it up: every node's first successor is   *)
(* the one main computes from the node list file.  Node n has the id       *)
(* 10 + n, and its position stands for its port.  All nodes run on one     *)
(* machine, as notifyNextOfPredecessor takes for granted.                  *)
(***************************************************************************)
EXTENDS ChainRefinement, NodeConfig

CONSTANTS
    ConfigFile,   \* the file the nodes of this chain read
    ConfigFiles   \* the files FormsOneChain is checked for

NodeId(n) == 10 + n

\* A host inet_pton reads; with a name such as localhost every connect would fail.
Loopback == TextWord("127.0.0.1")

ASSUME DeploymentAssumption ==
    \A n \in Node : /\ Starts(ConfigFile, NodeId(n))
                    /\ MyAddress(ConfigFile, NodeId(n)) = [host |-> Loopback, port |-> n]
                    /\ FirstNext[n] = NextAddress(ConfigFile, NodeId(n)).port

\* FormsOneChain of all files (NodeConfig, main of the metadata node).
ConfigFormsChain == Init => \A file \in ConfigFiles : FormsOneChain(file)
=============================================================================
