-------------------------- MODULE MetadataRegister --------------------------
(***************************************************************************)
(* What the README promises of the metadata layer: a linearizable map from *)
(* file names to metadata records.  A call takes effect in one step        *)
(* between its invocation and its return.                                  *)
(***************************************************************************)
CONSTANTS File, PutOp, GetOp, NoMeta

VARIABLES
    reg,      \* the record of every file
    phase,    \* "idle", "pending", "effected" or "done" for every call
    opFile,   \* the file a call is about
    observed  \* what a GET saw

vars == <<reg, phase, opFile, observed>>
Op == PutOp \cup GetOp

Init ==
    /\ reg = [f \in File |-> NoMeta]
    /\ phase = [o \in Op |-> "idle"]
    /\ opFile \in [Op -> File]
    /\ observed = [o \in GetOp |-> NoMeta]

Step(o, from, to) ==
    /\ phase[o] = from
    /\ phase' = [phase EXCEPT ![o] = to]

Begin(o) ==
    /\ Step(o, "idle", "pending")
    /\ UNCHANGED <<reg, opFile, observed>>

Write(o) ==
    /\ Step(o, "pending", "effected")
    /\ reg' = [reg EXCEPT ![opFile[o]] = o]
    /\ UNCHANGED <<opFile, observed>>

Read(o) ==
    /\ Step(o, "pending", "effected")
    /\ observed' = [observed EXCEPT ![o] = reg[opFile[o]]]
    /\ UNCHANGED <<reg, opFile>>

Return(o) ==
    /\ Step(o, "effected", "done")
    /\ UNCHANGED <<reg, opFile, observed>>

Next ==
    \/ \E o \in Op : Begin(o) \/ Return(o)
    \/ \E o \in PutOp : Write(o)
    \/ \E o \in GetOp : Read(o)

Spec == Init /\ [][Next]_vars
=============================================================================
