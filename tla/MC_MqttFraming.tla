--------------------------- MODULE MC_MqttFraming ---------------------------
EXTENDS MqttFraming

\* Contents of several lengths, of bytes that would be a first or a last digit.
Fill(n, b) == [i \in 1..n |-> b]
SomePayloads == {Fill(n, b) : n \in 0..7, b \in {0, Base + 1}}
=============================================================================
