----------------------------- MODULE SockSelect -----------------------------
(***************************************************************************)
(* main() of basic_c/sock_select.c: a select() server in one loop.  Its for *)
(* loop runs up to the number of ready descriptors that select() returned,  *)
(* not up to the largest descriptor.  One step is one select() or one       *)
(* iteration of the for loop that does not just go on; between two of them  *)
(* the clients of sock_client.c connect, send and go.  What clients send is *)
(* only printed, and a stream is whether there is something to read.        *)
(***************************************************************************)
EXTENDS Integers, Sequences, FiniteSets, FiniteSetsExt

CONSTANTS Clients,
          Fds,       \* descriptors the process may use; those missing are in use
          Backlog    \* 10

ASSUME FdsAssumption == Fds \subseteq Nat /\ Fds # {} /\ IsFiniteSet(Fds)
Free == "free"
Listener == "listener"

ASSUME BacklogAssumption == Backlog \in Nat \ {0}
ASSUME ClientsAssumption == Clients \cap {Free, Listener} = {}

VARIABLES
  pc,               \* "start", "select", "for" or "exit"
  listener,         \* the listening descriptor, or -1 before socket()
  master, read_fds, \* the two fd sets
  fdmax,
  ret,              \* what select() returned
  i,                \* loop counter
  tv_sec,           \* whole seconds of tv; what is left of the half is not looked at
  owner,            \* kernel: what each descriptor refers to
  queue,            \* kernel: connections waiting for accept()
  unread,           \* kernel: clients with data to read
  peer              \* "idle", "open", "fin" (closed or reset), "done"

serverVars == <<pc, listener, master, read_fds, fdmax, ret, i, tv_sec>>
kernelVars == <<owner, queue, unread, peer>>
vars == <<serverVars, kernelVars>>

Init ==
  /\ pc = "start"
  /\ listener = -1
  /\ master = {} /\ read_fds = {}
  /\ fdmax = -1
  /\ ret = 0 /\ i = 0
  /\ tv_sec = 2
  /\ owner = [f \in Fds |-> Free]
  /\ queue = <<>>
  /\ unread = {}
  /\ peer = [c \in Clients |-> "idle"]

-----------------------------------------------------------------------------
(* The clients, as far as the server's kernel sees them. *)

Connect(c) ==
  /\ peer[c] = "idle"
  /\ \E f \in Fds : owner[f] = Listener
  /\ Len(queue) < Backlog
  /\ queue' = Append(queue, c)
  /\ peer' = [peer EXCEPT ![c] = "open"]
  /\ UNCHANGED <<serverVars, owner, unread>>

Send(c) ==
  /\ peer[c] = "open"
  /\ unread' = unread \cup {c}
  /\ UNCHANGED <<serverVars, owner, queue, peer>>

(* A reset takes what is unread with it. *)
Leave(c) ==
  /\ peer[c] = "open"
  /\ peer' = [peer EXCEPT ![c] = "fin"]
  /\ unread' \in {unread, unread \ {c}}
  /\ UNCHANGED <<serverVars, owner, queue>>

Readable(f) ==
  \/ owner[f] = Listener /\ queue # <<>>
  \/ owner[f] \in Clients /\ (owner[f] \in unread \/ peer[owner[f]] = "fin")

LowestFree == Min({ f \in Fds : owner[f] = Free })

-----------------------------------------------------------------------------
(* The server. *)

(* socket(), bind(), listen(), FD_SET(). *)
Start ==
  /\ pc = "start"
  /\ listener' = LowestFree
  /\ owner' = [owner EXCEPT ![listener'] = Listener]
  /\ master' = {listener'}
  /\ fdmax' = listener'
  /\ pc' = "select"
  /\ UNCHANGED <<read_fds, ret, i, tv_sec, queue, unread, peer>>

StartFails ==
  /\ pc = "start"
  /\ pc' = "exit"
  /\ UNCHANGED <<listener, master, read_fds, fdmax, ret, i, tv_sec, kernelVars>>

Watched == { f \in master : f <= fdmax }

(* select() leaves in tv what is left of the timeout. *)
Select ==
  /\ pc = "select"
  /\ \A f \in Watched : owner[f] # Free
  /\ read_fds' = { f \in Watched : Readable(f) }
  /\ read_fds' # {}
  /\ ret' = Cardinality(read_fds')
  /\ tv_sec' \in 0 .. tv_sec
  /\ i' = 0
  /\ pc' = "for"
  /\ UNCHANGED <<listener, master, fdmax, kernelVars>>

SelectTimeout ==
  /\ pc = "select"
  /\ \A f \in Watched : owner[f] # Free /\ ~ Readable(f)
  /\ read_fds' = {}
  /\ ret' = 0
  /\ tv_sec' = 2
  /\ UNCHANGED <<pc, listener, master, fdmax, i, kernelVars>>

SelectFails ==
  /\ pc = "select"
  /\ pc' = "exit"
  /\ UNCHANGED <<listener, master, read_fds, fdmax, ret, i, tv_sec, kernelVars>>

(* The descriptors the for loop is still to handle. *)
Visit == { f \in read_fds : i <= f /\ f <= ret }

EndFor ==
  /\ pc = "for"
  /\ Visit = {}
  /\ pc' = "select"
  /\ UNCHANGED <<listener, master, read_fds, fdmax, ret, i, tv_sec, kernelVars>>

Handle(f) == pc = "for" /\ Visit # {} /\ f = Min(Visit) /\ i' = f + 1

AcceptFails(f) ==
  /\ Handle(f)
  /\ f = listener
  /\ \A d \in Fds : owner[d] # Free
  /\ UNCHANGED <<pc, listener, master, read_fds, fdmax, ret, tv_sec, kernelVars>>

(* Mutant: the new descriptor joins the set that the loop walks through. *)
AcceptIntoReadFds(f) ==
  /\ Handle(f) /\ f = listener /\ queue # <<>>
  /\ \E d \in Fds : owner[d] = Free
  /\ owner' = [owner EXCEPT ![LowestFree] = Head(queue)]
  /\ read_fds' = read_fds \cup {LowestFree} /\ master' = master \cup {LowestFree}
  /\ fdmax' = Max({fdmax, LowestFree})
  /\ queue' = Tail(queue)
  /\ UNCHANGED <<pc, listener, ret, tv_sec, unread, peer>>

Accept(f) ==
  /\ Handle(f)
  /\ f = listener
  /\ queue # <<>>
  /\ \E d \in Fds : owner[d] = Free
  /\ owner' = [owner EXCEPT ![LowestFree] = Head(queue)]
  /\ master' = master \cup {LowestFree}
  /\ fdmax' = Max({fdmax, LowestFree})
  /\ queue' = Tail(queue)
  /\ UNCHANGED <<pc, listener, read_fds, ret, tv_sec, unread, peer>>

Receive(f) ==
  /\ Handle(f)
  /\ f # listener
  /\ owner[f] \in unread
  /\ unread' = unread \ {owner[f]}
  /\ UNCHANGED <<pc, listener, master, read_fds, fdmax, ret, tv_sec, owner, queue, peer>>

(* Mutant: the descriptor that is closed stays in the set. *)
HangUpKeepsMaster(f) ==
  /\ Handle(f) /\ f # listener
  /\ owner[f] \in Clients \ unread /\ peer[owner[f]] = "fin"
  /\ owner' = [owner EXCEPT ![f] = Free]
  /\ peer' = [peer EXCEPT ![owner[f]] = "done"]
  /\ UNCHANGED <<pc, listener, master, read_fds, fdmax, ret, tv_sec, queue, unread>>

(* recv() returned 0 or -1. *)
HangUp(f) ==
  /\ Handle(f)
  /\ f # listener
  /\ owner[f] \in Clients \ unread
  /\ peer[owner[f]] = "fin"
  /\ owner' = [owner EXCEPT ![f] = Free]
  /\ peer' = [peer EXCEPT ![owner[f]] = "done"]
  /\ master' = master \ {f}
  /\ UNCHANGED <<pc, listener, read_fds, fdmax, ret, tv_sec, queue, unread>>

ServerNext ==
  \/ Start \/ StartFails
  \/ Select \/ SelectTimeout \/ SelectFails \/ EndFor
  \/ \E f \in Fds : AcceptFails(f) \/ Accept(f) \/ Receive(f) \/ HangUp(f)

ClientNext(c) == Connect(c) \/ Send(c) \/ Leave(c)

Exited == pc = "exit" /\ UNCHANGED vars

Next == ServerNext \/ (\E c \in Clients : ClientNext(c)) \/ Exited

Spec == Init /\ [][Next]_vars

-----------------------------------------------------------------------------
(* What the state is made of. *)
TypeOK ==
  /\ pc \in {"start", "select", "for", "exit"}
  /\ listener \in Fds \cup {-1} /\ fdmax \in Fds \cup {-1}
  /\ master \subseteq Fds /\ read_fds \subseteq Fds
  /\ ret \in Nat /\ i \in Nat
  /\ tv_sec \in 0 .. 2
  /\ owner \in [Fds -> Clients \cup {Free, Listener}]
  /\ queue \in Seq(Clients)
  /\ unread \subseteq Clients
  /\ peer \in [Clients -> {"idle", "open", "fin", "done"}]

(* master holds exactly the descriptors that are open, each once per connection,
   and fdmax, which never shrinks, covers them: select() neither fails for a closed
   descriptor nor misses an open one. *)
MasterIsOpen ==
  pc \in {"select", "for"} =>
    /\ master = { f \in Fds : owner[f] # Free }
    /\ \A f \in master : f <= fdmax
    /\ \A f, g \in master : owner[f] = owner[g] => f = g

(* Readiness does not go stale within a pass: accept() and recv() never block the
   only thread, although descriptors are closed and given out again on the way. *)
VisitsAreReady == pc = "for" => \A f \in Visit : Readable(f)

(* "run through all file descritors,include listening and connection fds": when the
   loop ends it has handled every descriptor that select() reported. *)
RunsThroughAll == [][pc = "for" /\ pc' = "select" => \A f \in read_fds : f < i]_vars

=============================================================================
