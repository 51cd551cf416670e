------------------------------ MODULE MCTransport ------------------------------
EXTENDS Transport

\* An empty message, a single byte, and the longest message a header of two binary
\* digits can announce, which is longer than the buffer.
MCMessage == {<<>>, <<1>>, <<0, 1, 1>>}

\* One byte more than the header can announce.
MCTooLong == {<<1>>, <<0, 1, 1, 1>>}

=============================================================================
