------------------------------ MODULE Transport ------------------------------
(***************************************************************************)
(* One direction of a TCP connection between a TCPClient and a TCPServer,  *)
(* byte by byte.  sendData and recvData are the same code on both sides: a *)
(* length in HeaderLen bytes, most significant first, and the payload.     *)
(* The stream between them (external: the kernel's TCP) hands over any     *)
(* number of bytes at a time, holds at most BufferSize of them, and may    *)
(* break at any moment, losing the end of what it holds.                   *)
(***************************************************************************)
EXTENDS Naturals, Sequences, SequencesExt

CONSTANTS
    Base,         \* values of a byte: 256 in the code
    HeaderLen,    \* bytes of a length: 4 in the code
    BufferSize,   \* bytes the kernel holds between the two sockets
    Message,      \* payloads the callers send
    MaxMessages   \* how many of them in one connection (bound)

Byte == 0..(Base - 1)

ASSUME TransportAssumption ==
    /\ Base \in Nat \ {0, 1}
    /\ HeaderLen \in Nat \ {0}
    /\ BufferSize \in Nat \ {0}
    /\ Message \subseteq Seq(Byte)
    /\ MaxMessages \in Nat

VARIABLES
    sendPc,     \* where the sender is: "idle", in sendData, "closed" or "dead"
    unsent,     \* the bytes sendData has not yet handed to ::send
    wire,       \* the bytes between the two sockets
    broken,     \* the connection was reset
    recvPc,     \* where the receiver is: "idle", in recvData, "ended" or "closed"
    want,       \* the bytes this part of recvData waits for
    got,        \* those it has
    sent,       \* history: the messages sendData was called with
    delivered   \* history: the messages recvData returned

sendVars == <<sendPc, unsent, sent>>
recvVars == <<recvPc, want, got, delivered>>
vars == <<sendVars, wire, broken, recvVars>>

Sending == sendPc \in {"header", "payload"}
Receiving == recvPc \in {"header", "payload"}
SenderGone == sendPc \in {"closed", "dead"}
ReceiverGone == recvPc \in {"ended", "closed"}

\* The types of all state, and the space in the kernel's buffer.
TypeOK ==
    /\ sendPc \in {"idle", "header", "payload", "closed", "dead"}
    /\ recvPc \in {"idle", "header", "payload", "ended", "closed"}
    /\ unsent \in Seq(Byte) /\ wire \in Seq(Byte) /\ got \in Seq(Byte)
    /\ Len(wire) <= BufferSize
    /\ broken \in BOOLEAN
    /\ want \in Nat
    /\ sent \in Seq(Message)
    /\ delivered \in Seq(Seq(Byte))

Init ==
    /\ sendPc = "idle" /\ recvPc = "idle"
    /\ unsent = <<>> /\ wire = <<>> /\ got = <<>>
    /\ broken = FALSE
    /\ want = 0
    /\ sent = <<>> /\ delivered = <<>>

-----------------------------------------------------------------------------
(* sendData.                                                               *)

\* A length without its j last bytes.
Shifted(len, j) ==
    LET rest[i \in 0..HeaderLen] == IF i = 0 THEN len ELSE rest[i - 1] \div Base
    IN  rest[j]

\* Faulty variant of Header: htonl is forgotten, the least significant byte goes first.
HeaderHostOrder(len) == [i \in 1..HeaderLen |-> Shifted(len, i - 1) % Base]

\* htonl(static_cast<uint32_t>(len)): a longer length loses its high digits.
Header(len) == [i \in 1..HeaderLen |-> Shifted(len, HeaderLen - i) % Base]

SendData(m) ==
    /\ sendPc = "idle"
    /\ Len(sent) < MaxMessages
    /\ sendPc' = "header"
    /\ unsent' = Header(Len(m))
    /\ sent' = Append(sent, m)
    /\ UNCHANGED <<wire, broken, recvVars>>

\* Where ::send has accepted the last byte: go on to the payload, or return true.
AllSent ==
    IF sendPc = "header" /\ Last(sent) # <<>>
    THEN sendPc' = "payload" /\ unsent' = Last(sent)
    ELSE sendPc' = "idle" /\ unsent' = <<>>

\* ::send takes as much as there is room for, and blocks while there is none.
SendBytes(k) ==
    /\ Sending /\ ~broken
    /\ k <= Len(unsent) /\ Len(wire) + k <= BufferSize
    /\ wire' = wire \o SubSeq(unsent, 1, k)
    /\ IF k = Len(unsent) THEN AllSent
       ELSE unsent' = SubSeq(unsent, k + 1, Len(unsent)) /\ UNCHANGED sendPc
    /\ UNCHANGED <<broken, sent, recvVars>>

\* ::send fails and sendData returns false, or, SIGPIPE not being ignored, the process dies.
SendFails ==
    /\ Sending /\ broken
    /\ sendPc' \in {"idle", "dead"}
    /\ unsent' = <<>>
    /\ UNCHANGED <<wire, broken, sent, recvVars>>

\* close(), between two calls; a process dies wherever it is.
CloseSender ==
    /\ \/ sendPc = "idle" /\ sendPc' = "closed"
       \/ ~SenderGone /\ sendPc' = "dead"
    /\ unsent' = <<>>
    /\ UNCHANGED <<wire, broken, sent, recvVars>>

-----------------------------------------------------------------------------
(* recvData.                                                               *)

RecvData ==
    /\ recvPc = "idle"
    /\ recvPc' = "header"
    /\ want' = HeaderLen
    /\ got' = <<>>
    /\ UNCHANGED <<delivered, sendVars, wire, broken>>

\* ntohl(len32)
Length(header) ==
    LET len[i \in 0..Len(header)] == IF i = 0 THEN 0 ELSE len[i - 1] * Base + header[i]
    IN  len[Len(header)]

\* An empty result: callers take it for the end and close (if (command.empty()) break).
ReturnEmpty ==
    /\ recvPc' = "ended"
    /\ want' = 0 /\ got' = <<>>
    /\ UNCHANGED delivered

\* Faulty variant of PartComplete: the length is taken to count the header too.
PartCompleteInclusive(bytes) ==
    IF recvPc = "header"
    THEN recvPc' = "payload" /\ want' = Length(bytes) - HeaderLen /\ got' = <<>> /\ UNCHANGED delivered
    ELSE /\ recvPc' = "idle"
         /\ want' = 0 /\ got' = <<>>
         /\ delivered' = Append(delivered, bytes)

\* A part of the message is complete: the header gives the length of the payload.
PartComplete(bytes) ==
    IF recvPc = "header"
    THEN IF Length(bytes) = 0 THEN ReturnEmpty
         ELSE recvPc' = "payload" /\ want' = Length(bytes) /\ got' = <<>> /\ UNCHANGED delivered
    ELSE /\ recvPc' = "idle"
         /\ want' = 0 /\ got' = <<>>
         /\ delivered' = Append(delivered, bytes)

\* Faulty variant of PartRead: the payload is whatever one ::recv returned.
OneRecv(bytes) == recvPc = "payload" \/ Len(bytes) = want

\* MSG_WAITALL for the header, while (got < len) for the payload.
PartRead(bytes) == Len(bytes) = want

\* ::recv returns some of the bytes that have arrived.
RecvBytes(k) ==
    LET bytes == got \o SubSeq(wire, 1, k) IN
    /\ Receiving
    /\ k <= Len(wire) /\ Len(bytes) <= want
    /\ wire' = SubSeq(wire, k + 1, Len(wire))
    /\ IF PartRead(bytes) THEN PartComplete(bytes)
       ELSE got' = bytes /\ UNCHANGED <<recvPc, want, delivered>>
    /\ UNCHANGED <<sendVars, broken>>

\* Faulty variant of StreamEnded: only an error ends the loop, not a read of 0 bytes.
StreamFailed == wire = <<>> /\ broken

\* ::recv returns 0 or an error, or fewer than four bytes of the header: n <= 0.
StreamEnded == wire = <<>> /\ (SenderGone \/ broken)

RecvEnds ==
    /\ Receiving /\ StreamEnded
    /\ ReturnEmpty
    /\ UNCHANGED <<sendVars, wire, broken>>

\* The receiving process closes its socket, or dies, wherever it is.
CloseReceiver ==
    /\ ~ReceiverGone
    /\ recvPc' = "closed"
    /\ want' = 0 /\ got' = <<>>
    /\ UNCHANGED <<delivered, sendVars, wire, broken>>

-----------------------------------------------------------------------------
\* The connection is reset: by the network, or by the kernel of a receiver that has
\* gone.  Of the bytes on their way, the last ones may never arrive.
Reset ==
    /\ ~broken
    /\ broken' = TRUE
    /\ \E k \in 0..Len(wire) : wire' = SubSeq(wire, 1, k)
    /\ UNCHANGED <<sendVars, recvVars>>

SendStep == SendFails \/ \E k \in 1..BufferSize : SendBytes(k)
RecvStep == RecvData \/ RecvEnds \/ \E k \in 1..BufferSize : RecvBytes(k)

Next ==
    \/ \E m \in Message : SendData(m)
    \/ SendStep
    \/ RecvStep
    \/ CloseSender
    \/ CloseReceiver
    \/ Reset

Spec == Init /\ [][Next]_vars

\* A thread in ::send or ::recv goes on when it can, the callers of recvData read until
\* it returns nothing (handleClient's loop, a client waiting for its reply), and a kernel
\* answers what arrives for a closed socket with a reset.
Fairness ==
    /\ WF_vars(SendStep)
    /\ WF_vars(RecvStep)
    /\ WF_vars(ReceiverGone /\ Reset)

FairSpec == Spec /\ Fairness

-----------------------------------------------------------------------------
(* Properties.                                                             *)

\* The length of every message a caller may send fits in a header and is read back.
HeaderRoundTrip ==
    \A m \in Message : /\ Header(Len(m)) \in [1..HeaderLen -> Byte]
                       /\ Length(Header(Len(m))) = Len(m)

\* The receiver reads the length the sender wrote (htonl in sendData, ntohl in recvData),
\* up to the longest message the header can announce.
LengthsSurvive == Init => HeaderRoundTrip

\* The framing makes a message channel of the byte stream (sendData, recvData): whatever
\* pieces the bytes travel in and wherever either process stops, the receiver gets whole
\* messages, in order, without a gap, and misses none that was sent before an orderly close.
Channel == INSTANCE MessageChannel WITH
    cut    <- IF broken \/ sendPc = "dead" THEN "broken"
              ELSE IF sendPc = "closed" THEN "closed" ELSE "no",
    reader <- IF ReceiverGone THEN recvPc ELSE "open"
DeliversMessages == Channel!Spec

\* Nobody is left waiting (sendData, recvData have no timeout): a call of sendData returns,
\* or dies with its process, and a call of recvData that waits for the rest of a message
\* whose sender is gone returns, though the buffer holds less than a message.
CallsEnd ==
    /\ Sending ~> ~Sending
    /\ (Receiving /\ SenderGone) ~> ~Receiving

=============================================================================
