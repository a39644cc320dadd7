-------------------------- MODULE MCEventDelivery --------------------------
(* Two events, two relay replicas and a process with two members of the    *)
(* consumer group, which share its store.                                  *)
EXTENDS EventDelivery
CONSTANTS e1, e2, r1, r2, c1, c2, p1
MCEvents == {e1, e2}
OneEvent == {e1}
MCRelays == {r1, r2}
MCConsumers == {c1, c2}
OneConsumer == {c1}
MCProcesses == {p1}
MCHome == [c \in MCConsumers |-> p1]
OneHome == [c \in OneConsumer |-> p1]
=============================================================================
