----------------------------- MODULE TcpServer -----------------------------
(***************************************************************************)
(* CTCPServer::Run() of ctcpsocket.cpp with the listener of                *)
(* testtcpserver.cpp, above the kernel's descriptors, accept queue and     *)
(* byte streams.  One server step is one select() or one iteration of the  *)
(* for loop; between two of them the peers do what they like.              *)
(*                                                                         *)
(* A CTCPConnection is known by the client at its other end.  A stream is  *)
(* the sequence of what the client sent; one Recv() returns one or more of *)
(* its items, and MyListener only compares the beginning of what it got.   *)
(***************************************************************************)
EXTENDS Integers, Sequences, FiniteSets, FiniteSetsExt

CONSTANTS Clients,    \* clients that may connect
          Fds,        \* descriptors the process may use, RLIMIT_NOFILE
          Backlog,    \* m_blacklog
          Timeout,    \* argument of SetTimeout() in ticks, or -1 if not called
          Verdicts,   \* what OnNewConnection() may answer
          Messages,   \* what one send() may carry: sequences of items
          MaxSends    \* bound: calls of send() by all clients

NULL == "null"
Free == "free"
Listener == "listener"

ASSUME ClientsAssumption == Clients \cap {NULL, Free, Listener} = {}
ASSUME FdsAssumption == Fds \subseteq Nat /\ Fds # {} /\ IsFiniteSet(Fds)
ASSUME BacklogAssumption == Backlog \in Nat \ {0}
ASSUME TimeoutAssumption == Timeout \in Nat \cup {-1}
ASSUME VerdictsAssumption == Verdicts \subseteq BOOLEAN
ASSUME MaxSendsAssumption == MaxSends \in Nat

Items == {"data", "quit", "shutdown"}

ASSUME MessagesAssumption == Messages \subseteq Seq(Items)

VARIABLES
  pc,             \* where main() and Run() are
  m_sock,         \* the listening descriptor or -1
  m_connections,  \* the map: descriptor to connection or NULL
  rfds, tmpfds,   \* the two fd sets
  fdmax,
  i,              \* loop counter; iterator of the final loop
  tv,             \* what m_tv points to, -1 for no m_tv
  sock,           \* CTCPConnection::m_sock of every connection
  life,           \* "none", "live" (after new) or "deleted"
  told,           \* calls of OnDisconnect() for every connection
  owner,          \* kernel: what each descriptor refers to
  queue,          \* kernel: connections waiting for accept()
  stream,         \* kernel: bytes received and not yet read
  peer,           \* "idle", "open", "fin" (closed), "rst" (reset), "over"
                  \* (reset, and recv() has said so), "done" (closed here)
  sent            \* calls of send() so far

serverVars == <<pc, m_sock, m_connections, rfds, tmpfds, fdmax, i, tv>>
connVars == <<sock, life, told>>
kernelVars == <<owner, queue, stream, peer, sent>>
vars == <<serverVars, connVars, kernelVars>>

LowestFree == Min({ f \in Fds : owner[f] = Free })
Connected == { f \in Fds : m_connections[f] # NULL }

Init ==
  /\ pc = "create"
  /\ m_sock = -1
  /\ m_connections = [f \in Fds |-> NULL]
  /\ rfds = {} /\ tmpfds = {}
  /\ fdmax = -1
  /\ i = 0
  /\ tv = Timeout
  /\ sock = [c \in Clients |-> -1]
  /\ life = [c \in Clients |-> "none"]
  /\ told = [c \in Clients |-> 0]
  /\ owner = [f \in Fds |-> Free]
  /\ queue = <<>>
  /\ stream = [c \in Clients |-> <<>>]
  /\ peer = [c \in Clients |-> "idle"]
  /\ sent = 0

-----------------------------------------------------------------------------
(* The clients, as far as the server's kernel sees them. *)

Connect(c) ==
  /\ peer[c] = "idle"
  /\ \E f \in Fds : owner[f] = Listener
  /\ Len(queue) < Backlog
  /\ queue' = Append(queue, c)
  /\ peer' = [peer EXCEPT ![c] = "open"]
  /\ UNCHANGED <<serverVars, connVars, owner, stream, sent>>

Send(c, items) ==
  /\ peer[c] = "open"
  /\ sent < MaxSends
  /\ sent' = sent + 1
  /\ stream' = [stream EXCEPT ![c] = @ \o items]
  /\ UNCHANGED <<serverVars, connVars, owner, queue, peer>>

Finish(c) ==
  /\ peer[c] = "open"
  /\ peer' = [peer EXCEPT ![c] = "fin"]
  /\ UNCHANGED <<serverVars, connVars, owner, queue, stream, sent>>

(* A reset discards what was received and not read. *)
Reset(c) ==
  /\ peer[c] \in {"open", "fin"}
  /\ peer' = [peer EXCEPT ![c] = "rst"]
  /\ stream' = [stream EXCEPT ![c] = <<>>]
  /\ UNCHANGED <<serverVars, connVars, owner, queue, sent>>

ClientNext(c) == Connect(c) \/ (\E items \in Messages : Send(c, items)) \/ Finish(c) \/ Reset(c)

(* What makes select() report a descriptor. *)
Readable(f) ==
  \/ owner[f] = Listener /\ queue # <<>>
  \/ owner[f] \in Clients /\ (stream[owner[f]] # <<>> \/ peer[owner[f]] \in {"fin", "rst", "over"})

-----------------------------------------------------------------------------
(* CTCPServer::Create() and the first statements of Run(). *)

CreateOK ==
  /\ pc = "create"
  /\ m_sock' = LowestFree
  /\ owner' = [owner EXCEPT ![m_sock'] = Listener]
  /\ fdmax' = m_sock'
  /\ rfds' = {m_sock'}
  /\ pc' = "select"
  /\ UNCHANGED <<m_connections, tmpfds, i, tv, connVars, queue, stream, peer, sent>>

(* socket(), bind() or listen() fails; main() calls Run() all the same.  FD_SET()
   of descriptor -1 is undefined: it aborts in a fortified build, else it sets a
   bit that nobody looks at, since the while loop is not entered. *)
CreateFails ==
  /\ pc = "create"
  /\ pc' \in {"cleanup", "abort"}
  /\ UNCHANGED <<m_sock, m_connections, rfds, tmpfds, fdmax, i, tv, connVars, kernelVars>>

(* select() looks at the descriptors up to fdmax, fails if one of them is closed,
   and stores what is left of the timeout in m_tv, as Linux does. *)
Watched == { f \in rfds : f <= fdmax }

Select ==
  /\ pc = "select"
  /\ \A f \in Watched : owner[f] # Free
  /\ tmpfds' = { f \in Watched : Readable(f) }
  /\ tmpfds' # {}
  /\ tv' \in IF tv = -1 THEN {-1} ELSE 0 .. tv
  /\ i' = 0
  /\ pc' = "for"
  /\ UNCHANGED <<m_sock, m_connections, rfds, fdmax, connVars, kernelVars>>

SelectTimeout ==
  /\ pc = "select"
  /\ tv # -1
  /\ \A f \in Watched : owner[f] # Free /\ ~ Readable(f)
  /\ tmpfds' = {}
  /\ tv' = 0
  /\ UNCHANGED <<pc, m_sock, m_connections, rfds, fdmax, i, connVars, kernelVars>>

SelectFails ==
  /\ pc = "select"
  /\ pc' = "cleanup"
  /\ i' = 0
  /\ UNCHANGED <<m_sock, m_connections, rfds, tmpfds, fdmax, tv, connVars, kernelVars>>

(* The next descriptor on which the for loop does not just continue. *)
Visit == { f \in tmpfds : i <= f /\ f <= fdmax }

(* Mutant: the while loop does not look at m_sock again. *)
EndForAlways ==
  /\ pc = "for" /\ Visit = {}
  /\ pc' = "select" /\ i' = 0
  /\ UNCHANGED <<m_sock, m_connections, rfds, tmpfds, fdmax, tv, connVars, kernelVars>>

EndFor ==
  /\ pc = "for"
  /\ Visit = {}
  /\ pc' = IF m_sock # -1 THEN "select" ELSE "cleanup"
  /\ i' = 0
  /\ UNCHANGED <<m_sock, m_connections, rfds, tmpfds, fdmax, tv, connVars, kernelVars>>

-----------------------------------------------------------------------------
(* The branch for the listening descriptor. *)

AtListener == pc = "for" /\ Visit # {} /\ Min(Visit) = m_sock

(* Mutant: the listening descriptor is given up when accept() fails. *)
AcceptFailsClear ==
  /\ AtListener /\ \A f \in Fds : owner[f] # Free
  /\ i' = m_sock + 1 /\ rfds' = rfds \ {m_sock}
  /\ UNCHANGED <<pc, m_sock, m_connections, tmpfds, fdmax, tv, connVars, kernelVars>>

AcceptFails ==
  /\ AtListener
  /\ \A f \in Fds : owner[f] # Free
  /\ i' = m_sock + 1
  /\ UNCHANGED <<pc, m_sock, m_connections, rfds, tmpfds, fdmax, tv, connVars, kernelVars>>

(* Mutants: the map, the fd set or fdmax does not learn of the connection; a
   descriptor that is not ready joins the set that the loop walks through. *)
EnterNotMap(fd, c) ==
  UNCHANGED <<m_connections, tmpfds>> /\ rfds' = rfds \cup {fd} /\ fdmax' = Max({fdmax, fd})

EnterNotFdmax(fd, c) ==
  m_connections' = [m_connections EXCEPT ![fd] = c] /\ rfds' = rfds \cup {fd} /\ UNCHANGED <<tmpfds, fdmax>>

EnterTmpfds(fd, c) ==
  /\ m_connections' = [m_connections EXCEPT ![fd] = c]
  /\ rfds' = rfds \cup {fd} /\ tmpfds' = tmpfds \cup {fd}
  /\ fdmax' = Max({fdmax, fd})

Enter(fd, c) ==
  /\ m_connections' = [m_connections EXCEPT ![fd] = c]
  /\ rfds' = rfds \cup {fd}
  /\ fdmax' = Max({fdmax, fd})
  /\ UNCHANGED tmpfds

AcceptAdmit ==
  /\ AtListener /\ queue # <<>> /\ TRUE \in Verdicts
  /\ \E f \in Fds : owner[f] = Free
  /\ LET c == Head(queue)
         fd == LowestFree
     IN  /\ owner' = [owner EXCEPT ![fd] = c]
         /\ sock' = [sock EXCEPT ![c] = fd]
         /\ life' = [life EXCEPT ![c] = "live"]
         /\ Enter(fd, c)
  /\ queue' = Tail(queue)
  /\ i' = m_sock + 1
  /\ UNCHANGED <<pc, m_sock, tv, told, stream, peer, sent>>

(* OnNewConnection() answers false: OnDisconnect() and delete, which closes. *)
AcceptRefuse ==
  /\ AtListener /\ queue # <<>> /\ FALSE \in Verdicts
  /\ \E f \in Fds : owner[f] = Free
  /\ LET c == Head(queue)
     IN  /\ told' = [told EXCEPT ![c] = @ + 1]
         /\ life' = [life EXCEPT ![c] = "deleted"]
         /\ peer' = [peer EXCEPT ![c] = "done"]
         /\ stream' = [stream EXCEPT ![c] = <<>>]
  /\ queue' = Tail(queue)
  /\ i' = m_sock + 1
  /\ UNCHANGED <<pc, m_sock, m_connections, rfds, tmpfds, fdmax, tv, sock, owner, sent>>

-----------------------------------------------------------------------------
(* The branch for a connection: OnData() of MyListener, then the clean-up. *)

AtConnection(f) == pc = "for" /\ Visit # {} /\ f = Min(Visit) /\ f # m_sock /\ m_connections[f] # NULL

(* The outcomes of one Recv(): what buf begins with, what is left to read and
   the peer's state.  A failed recv() returns -1, a huge number as the size_t
   that OnData() compares with 0, so OnData() goes on with what its stack had in
   buf; the kernel reports the error once, then the end of the stream. *)
Recv(c) ==
  IF stream[c] # <<>> THEN
    { [item |-> Head(stream[c]), rest |-> SubSeq(stream[c], k + 1, Len(stream[c])), peer |-> peer[c]] :
        k \in 1 .. Len(stream[c]) }
  ELSE { [item |-> x, rest |-> <<>>, peer |-> "over"] :
           x \in CASE peer[c] = "rst" -> Items [] peer[c] \in {"fin", "over"} -> {"end"} [] OTHER -> {} }

(* OnData() returns true. *)
Data(f) ==
  /\ AtConnection(f)
  /\ \E r \in Recv(m_connections[f]) :
       /\ r.item = "data"
       /\ stream' = [stream EXCEPT ![m_connections[f]] = r.rest]
       /\ peer' = [peer EXCEPT ![m_connections[f]] = r.peer]
  /\ i' = f + 1
  /\ UNCHANGED <<pc, m_sock, m_connections, rfds, tmpfds, fdmax, tv, connVars, owner, queue, sent>>

(* Mutants: the fd set, or the map, keeps what is being dropped. *)
ForgetNotInSet(f) == UNCHANGED rfds /\ m_connections' = [m_connections EXCEPT ![f] = NULL]
ForgetNotInMap(f) == rfds' = rfds \ {f} /\ UNCHANGED m_connections

Forget(f) ==
  /\ rfds' = rfds \ {f}
  /\ m_connections' = [m_connections EXCEPT ![f] = NULL]

(* OnDisconnect() and delete, whose Close() discards what was not read. *)
Discard(c) ==
  /\ told' = [told EXCEPT ![c] = @ + 1]
  /\ life' = [life EXCEPT ![c] = "deleted"]
  /\ sock' = [sock EXCEPT ![c] = -1]
  /\ stream' = [stream EXCEPT ![c] = <<>>]

(* Mutant: the loop over the map stops before its last element. *)
FdmaxWithoutShort(f, newSock) ==
  IF f = fdmax THEN Max({newSock} \cup { d \in Connected \ {f} : \E e \in Connected \ {f} : d < e }) ELSE fdmax

FdmaxWithout(f, newSock) == IF f = fdmax THEN Max({newSock} \cup (Connected \ {f})) ELSE fdmax

(* OnData() returned false and the listening descriptor is newSock by now. *)
Drop(f, newSock) ==
  /\ Forget(f)
  /\ Discard(m_connections[f])
  /\ fdmax' = FdmaxWithout(f, newSock)
  /\ i' = f + 1

(* recv() returned 0, or the data begins with "quit". *)
DataEnd(f) ==
  /\ AtConnection(f)
  /\ \E r \in Recv(m_connections[f]) : r.item \in {"end", "quit"}
  /\ Drop(f, m_sock)
  /\ owner' = [owner EXCEPT ![f] = Free]
  /\ peer' = [peer EXCEPT ![m_connections[f]] = "done"]
  /\ UNCHANGED <<pc, m_sock, tmpfds, tv, queue, sent>>

(* The data begins with "shutdown": CTCPServer::Shutdown() closes the listening
   descriptor, and the kernel resets what was waiting for accept(). *)
DataShutdown(f) ==
  /\ AtConnection(f)
  /\ \E r \in Recv(m_connections[f]) : r.item = "shutdown"
  /\ m_sock' = -1
  /\ queue' = <<>>
  /\ owner' = [d \in Fds |-> IF d \in {f, m_sock} THEN Free ELSE owner[d]]
  /\ peer' = [c \in Clients |->
                IF c = m_connections[f] \/ \E k \in DOMAIN queue : queue[k] = c THEN "done" ELSE peer[c]]
  /\ Drop(f, -1)
  /\ UNCHANGED <<pc, tmpfds, tv, sent>>

-----------------------------------------------------------------------------
(* The end of Run() and the destructor of CTCPServer. *)

Remaining == { f \in Connected : i <= f }

(* Mutants: the final loop does not delete, or does not call OnDisconnect(). *)
CleanupOneKeeps ==
  /\ pc = "cleanup" /\ Remaining # {}
  /\ told' = [told EXCEPT ![m_connections[Min(Remaining)]] = @ + 1]
  /\ i' = Min(Remaining) + 1
  /\ UNCHANGED <<pc, m_sock, m_connections, rfds, tmpfds, fdmax, tv, sock, life, kernelVars>>

CleanupOneUntold ==
  /\ pc = "cleanup" /\ Remaining # {}
  /\ LET f == Min(Remaining)
         c == m_connections[f]
     IN  /\ life' = [life EXCEPT ![c] = "deleted"]
         /\ owner' = [owner EXCEPT ![sock[c]] = Free]
         /\ sock' = [sock EXCEPT ![c] = -1]
         /\ i' = f + 1
  /\ UNCHANGED <<pc, m_sock, m_connections, rfds, tmpfds, fdmax, tv, told, queue, stream, peer, sent>>

CleanupOne ==
  /\ pc = "cleanup"
  /\ Remaining # {}
  /\ LET f == Min(Remaining)
         c == m_connections[f]
     IN  /\ Discard(c)
         /\ owner' = [owner EXCEPT ![sock[c]] = Free]
         /\ peer' = [peer EXCEPT ![c] = "done"]
         /\ i' = f + 1
  /\ UNCHANGED <<pc, m_sock, m_connections, rfds, tmpfds, fdmax, tv, queue, sent>>

EndCleanup ==
  /\ pc = "cleanup"
  /\ Remaining = {}
  /\ m_connections' = [f \in Fds |-> NULL]
  /\ pc' = "returned"
  /\ UNCHANGED <<m_sock, rfds, tmpfds, fdmax, i, tv, connVars, kernelVars>>

(* ~CTCPServer(); the listening descriptor is still open if select() failed. *)
Destroy ==
  /\ pc = "returned"
  /\ m_sock' = -1
  /\ owner' = [f \in Fds |-> IF f = m_sock THEN Free ELSE owner[f]]
  /\ queue' = <<>>
  /\ peer' = [c \in Clients |-> IF \E k \in DOMAIN queue : queue[k] = c THEN "done" ELSE peer[c]]
  /\ pc' = "exit"
  /\ UNCHANGED <<m_connections, rfds, tmpfds, fdmax, i, tv, connVars, stream, sent>>

ServerStep ==
  \/ CreateOK
  \/ Select \/ SelectTimeout \/ EndFor
  \/ AcceptFails \/ AcceptAdmit \/ AcceptRefuse
  \/ \E f \in Fds : Data(f) \/ DataEnd(f) \/ DataShutdown(f)
  \/ CleanupOne \/ EndCleanup \/ Destroy

ServerNext == ServerStep \/ CreateFails \/ SelectFails

Stopped == pc \in {"exit", "abort"} /\ UNCHANGED vars

Next == ServerNext \/ (\E c \in Clients : ClientNext(c)) \/ Stopped

(* The server's thread runs on; clients need not do anything, and select() and
   Create() need not ever fail. *)
Spec == Init /\ [][Next]_vars /\ WF_vars(ServerStep)

-----------------------------------------------------------------------------
(* What the state is made of. *)
TypeOK ==
  /\ pc \in {"create", "select", "for", "cleanup", "returned", "exit", "abort"}
  /\ m_sock \in Fds \cup {-1} /\ fdmax \in Fds \cup {-1}
  /\ m_connections \in [Fds -> Clients \cup {NULL}]
  /\ rfds \subseteq Fds /\ tmpfds \subseteq Fds
  /\ i \in 0 .. Max(Fds) + 1
  /\ tv \in -1 .. Max({0, Timeout})
  /\ sock \in [Clients -> Fds \cup {-1}]
  /\ life \in [Clients -> {"none", "live", "deleted"}]
  /\ told \in [Clients -> Nat]
  /\ owner \in [Fds -> Clients \cup {Free, Listener}]
  /\ queue \in Seq(Clients)
  /\ stream \in [Clients -> Seq(Items)]
  /\ peer \in [Clients -> {"idle", "open", "fin", "rst", "over", "done"}]
  /\ sent \in 0 .. MaxSends

(* While Run() serves, the fd set, the map, the connections' own descriptors and
   the kernel's table tell one story: the set holds the listening descriptor and
   those of the map, each is open and is its connection's, and no descriptor is
   open that the map does not know.  After a shutdown only the listening one may
   linger in the set. *)
TablesAgree ==
  pc \in {"select", "for"} =>
    /\ m_sock # -1 => rfds = {m_sock} \cup Connected /\ owner[m_sock] = Listener
    /\ Connected \subseteq rfds
    /\ Connected = { f \in Fds : owner[f] \in Clients }
    /\ \A f \in Connected : /\ owner[f] = m_connections[f]
                            /\ sock[m_connections[f]] = f
                            /\ life[m_connections[f]] = "live"
    /\ \A c \in Clients : life[c] = "live" => \E f \in Connected : m_connections[f] = c

(* fdmax is the largest descriptor of the set whatever has joined and left, so
   that select() and the for loop see every connection. *)
FdMaxCovers ==
  pc \in {"select", "for"} =>
    /\ m_sock # -1 => fdmax = Max(rfds)
    /\ \A f \in Connected : f <= fdmax

(* Readiness and the map do not go stale within a pass: whatever the loop is still
   to visit can be accepted from or received from without blocking the only thread,
   and assert(connection != NULL) holds, although descriptors are closed and given
   out again on the way. *)
VisitsAreSound ==
  pc = "for" => \A f \in Visit : Readable(f) /\ (f # m_sock => m_connections[f] # NULL)

(* OnDisconnect() is called exactly once for every connection that was created and
   is deleted, on whichever of the three paths, and not before. *)
ToldOnce == \A c \in Clients : told[c] = IF life[c] = "deleted" THEN 1 ELSE 0

(* When main() is over no descriptor is open and no connection is left undeleted. *)
NothingLeft ==
  pc = "exit" =>
    /\ \A f \in Fds : owner[f] = Free
    /\ \A c \in Clients : life[c] # "live"
    /\ Connected = {}

Contract == INSTANCE ServerContract WITH
  served <- { c \in Clients : life[c] = "live" },
  gone <- { c \in Clients : told[c] > 0 },
  running <- pc \notin {"returned", "exit", "abort"}

(* The server keeps the contract of ServerContract with its listener. *)
ImplementsContract == Contract!Spec

(* A served connection whose peer closed or reset it is disconnected, however busy
   the other connections and the listening descriptor are. *)
HangupNoticed ==
  \A c \in Clients : (life[c] = "live" /\ peer[c] \in {"fin", "rst"}) ~> told[c] = 1

(* A connection waiting for accept() gets its turn while there are descriptors to
   give, also after accept() has failed because there were none. *)
WaitingAccepted ==
  \A c \in Clients :
    (\E k \in DOMAIN queue : queue[k] = c) ~>
      ((\A k \in DOMAIN queue : queue[k] # c) \/ \A f \in Fds : owner[f] # Free)

(* A "shutdown" ends Run() and the program, whoever is still connected. *)
ShutdownEnds == (pc = "for" /\ m_sock = -1) ~> pc = "exit"

-----------------------------------------------------------------------------
(* Recv() is documented to return -1 on an error, and OnData() to drop a connection
   for len <= 0: receiving an error deletes the connection. *)
ErrorDropsConnection ==
  [][\A c \in Clients : (pc = "for" /\ peer[c] = "rst" /\ peer'[c] # "rst") => life'[c] = "deleted"]_vars

=============================================================================
