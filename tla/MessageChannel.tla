---------------------------- MODULE MessageChannel ----------------------------
(***************************************************************************)
(* What the other modules assume of a connection, in one direction: whole  *)
(* messages in the order they were sent, up to the moment the connection   *)
(* breaks, and an end that only comes when the sender has gone.  The one   *)
(* thing the receiver cannot do is tell an empty message from the end.     *)
(***************************************************************************)
EXTENDS Naturals, Sequences

CONSTANT Message

VARIABLES
    sent,       \* the messages handed to the connection
    delivered,  \* those the receiver has got
    cut,        \* "no"; "closed" by the sender; "broken"
    reader      \* "open"; "ended" after an empty read; "closed" by itself

vars == <<sent, delivered, cut, reader>>

Init ==
    /\ sent = <<>>
    /\ delivered = <<>>
    /\ cut = "no"
    /\ reader = "open"

Send(m) ==
    /\ cut # "closed"
    /\ sent' = Append(sent, m)
    /\ UNCHANGED <<delivered, cut, reader>>

Pending == Len(delivered) < Len(sent)
Coming == sent[Len(delivered) + 1]

Deliver ==
    /\ reader = "open"
    /\ Pending /\ Coming # <<>>
    /\ delivered' = Append(delivered, Coming)
    /\ UNCHANGED <<sent, cut, reader>>

\* An orderly close loses nothing; a break may.
End ==
    /\ reader = "open"
    /\ \/ Pending /\ Coming = <<>>
       \/ cut = "closed" /\ ~Pending
       \/ cut = "broken"
    /\ reader' = "ended"
    /\ UNCHANGED <<sent, delivered, cut>>

Leave ==
    /\ reader = "open"
    /\ reader' = "closed"
    /\ UNCHANGED <<sent, delivered, cut>>

Cut ==
    /\ \/ cut = "no" /\ cut' \in {"closed", "broken"}
       \/ cut = "closed" /\ cut' = "broken"
    /\ UNCHANGED <<sent, delivered, reader>>

Next ==
    \/ \E m \in Message : Send(m)
    \/ Deliver
    \/ End
    \/ Leave
    \/ Cut

Spec == Init /\ [][Next]_vars

=============================================================================
