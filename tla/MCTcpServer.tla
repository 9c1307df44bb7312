---------------------------- MODULE MCTcpServer ----------------------------
(* Values of the constants of TcpServer that a .cfg file cannot write. *)
EXTENDS TcpServer

NoTimeout == -1

(* One item, or a "quit" that a single recv() may return together with the data
   before it. *)
SomeMessages == { <<"data">>, <<"quit">>, <<"shutdown">>, <<"data", "quit">> }

=============================================================================
