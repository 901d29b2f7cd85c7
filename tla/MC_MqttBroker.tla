--------------------------- MODULE MC_MqttBroker ---------------------------
EXTENDS MqttBroker

CONSTANTS old, new, other   \* a client, the same client again, another client

SameClient == [c \in {old, new, other} |-> IF c = other THEN "other" ELSE "client"]

Qos == [c \in {old, other} |-> IF c = old THEN 1 ELSE 0]
=============================================================================
