--------------------------- MODULE ServerContract ---------------------------
(***************************************************************************)
(* What CTCPServer promises its listener, without sockets, fd sets and the *)
(* map: a connection is shown to OnNewConnection() once; from a true answer *)
(* on it is served; OnDisconnect() is called once for every connection     *)
(* that was shown, and never again; Run() returns when none is served.     *)
(***************************************************************************)
CONSTANT Clients

VARIABLES served,   \* connections between OnNewConnection() and OnDisconnect()
          gone,     \* connections for which OnDisconnect() was called
          running   \* Run() has not returned

contractVars == <<served, gone, running>>

Init == served = {} /\ gone = {} /\ running = TRUE

Fresh(c) == c \notin served /\ c \notin gone

Admit(c) == running /\ Fresh(c) /\ served' = served \cup {c} /\ UNCHANGED <<gone, running>>

Refuse(c) == running /\ Fresh(c) /\ gone' = gone \cup {c} /\ UNCHANGED <<served, running>>

Disconnect(c) ==
  /\ running
  /\ c \in served
  /\ served' = served \ {c}
  /\ gone' = gone \cup {c}
  /\ UNCHANGED running

Return == running /\ served = {} /\ running' = FALSE /\ UNCHANGED <<served, gone>>

Next == (\E c \in Clients : Admit(c) \/ Refuse(c) \/ Disconnect(c)) \/ Return

Spec == Init /\ [][Next]_contractVars

=============================================================================
