--------------------------- MODULE ChainRefinement ---------------------------
(***************************************************************************)
(* With no failures and no operator the chain implements MetadataRegister: *)
(* the register is the store of the last node, a PUT takes effect when     *)
(* that node stores it and a GET when that node looks its name up.         *)
(***************************************************************************)
EXTENDS MetadataChain

regBar == metadataStore[N]

phaseBar ==
    [o \in Op |->
        CASE opState[o] = "idle"      -> "idle"
          [] opState[o] \in Returned  -> "done"
          [] OTHER ->
             LET reached == IF o \in PutOp
                            THEN putPc[<<o, 1, N>>] \notin {"none", "recv"}
                            ELSE getPc[<<o, N>>] \in {"found", "notfound"}
             IN  IF reached THEN "effected" ELSE "pending"]

observedBar ==
    [o \in GetOp |-> IF opState[o] \in Returned THEN result[o] ELSE answer[<<o, N>>]]

Register == INSTANCE MetadataRegister
                WITH reg <- regBar, phase <- phaseBar, observed <- observedBar,
                     opFile <- [o \in Op |-> Name(o)]

\* The chain is a linearizable map of metadata records while nothing fails
\* (README: linearizable consistency for metadata): every behaviour of the threads
\* of all nodes, seen through the tail, is one of the register, and what a GET
\* returns is what it saw at its linearization point.
RefinesRegister == Register!Spec
=============================================================================
