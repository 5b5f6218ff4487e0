---------------------------- MODULE ConnLifecycle ----------------------------
(***************************************************************************)
(* What TcpServer promises to the application about each connection:       *)
(* first one "up" callback, later one "down" callback, and only then the   *)
(* object is freed (and its descriptor closed).                            *)
(***************************************************************************)
EXTENDS Naturals

CONSTANT Conns

VARIABLES ups, downs,   \* how often connectionCallback_ reported each event
          freed         \* the connections whose object is gone

vars == <<ups, downs, freed>>

Init == /\ ups = [c \in Conns |-> 0]
        /\ downs = [c \in Conns |-> 0]
        /\ freed = {}

Up(c) == /\ ups[c] = 0
         /\ ups' = [ups EXCEPT ![c] = 1]
         /\ UNCHANGED <<downs, freed>>

Down(c) == /\ ups[c] = 1 /\ downs[c] = 0
           /\ downs' = [downs EXCEPT ![c] = 1]
           /\ UNCHANGED <<ups, freed>>

Free(c) == /\ downs[c] = 1 /\ c \notin freed
           /\ freed' = freed \cup {c}
           /\ UNCHANGED <<ups, downs>>

Next == \E c \in Conns : Up(c) \/ Down(c) \/ Free(c)

Spec == Init /\ [][Next]_vars
=============================================================================
