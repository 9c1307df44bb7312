--------------------------- MODULE TcpServerProofs ---------------------------
(***************************************************************************)
(* Proofs about CTCPServer with its listener for any number of clients,    *)
(* descriptors, messages and calls of send().                              *)
(***************************************************************************)
EXTENDS TcpServer, TLAPS, FiniteSetTheorems, SequenceTheorems, WellFoundedInduction

(* The descriptors that Run() still has to look after. *)
Served == IF pc = "cleanup" THEN Remaining ELSE Connected

(* They, and no others, are open connections, and they are all the live ones. *)
ServedInv ==
  /\ \A f \in Served : /\ owner[f] = m_connections[f]
                       /\ sock[m_connections[f]] = f
                       /\ life[m_connections[f]] = "live"
                       /\ peer[m_connections[f]] \in {"open", "fin", "rst", "over"}
  /\ \A f \in Fds : owner[f] \in Clients => f \in Served
  /\ \A c \in Clients : life[c] = "live" => sock[c] \in Served /\ m_connections[sock[c]] = c
  /\ pc \in {"create", "returned", "exit", "abort"} => Connected = {}

(* The listening descriptor was the first to be given out, so it is the lowest:
   the for loop is past it when it visits a connection. *)
ListenInv ==
  /\ \A f \in Fds : owner[f] = Listener <=> f = m_sock
  /\ m_sock # -1 => \A f \in Fds : m_sock <= f
  /\ pc \in {"create", "exit"} => m_sock = -1
  /\ pc = "select" => m_sock # -1

(* Who waits for accept() waits once and has no CTCPConnection. *)
WaitInv ==
  /\ \A k \in DOMAIN queue : life[queue[k]] = "none" /\ peer[queue[k]] \in {"open", "fin", "rst"}
  /\ \A k, l \in DOMAIN queue : queue[k] = queue[l] => k = l
  /\ \A c \in Clients : peer[c] = "idle" => life[c] = "none"

SetInv ==
  pc \in {"select", "for"} =>
    /\ Connected \subseteq rfds
    /\ m_sock # -1 => rfds = {m_sock} \cup Connected

(* fdmax may shrink below what select() reported only when all of it is visited. *)
PassInv == pc = "for" => \A f \in tmpfds : i <= f => f <= fdmax

IInv ==
  /\ TypeOK
  /\ ServedInv
  /\ ListenInv
  /\ WaitInv
  /\ SetInv
  /\ FdMaxCovers
  /\ PassInv
  /\ VisitsAreSound
  /\ ToldOnce

-----------------------------------------------------------------------------
(* The smallest and the largest element of a finite set of integers exist: a
   smallest subset without one would have one with the element taken away. *)

LEMMA MinFact ==
  ASSUME NEW S \in SUBSET Int, S # {}, IsFiniteSet(S)
  PROVE  Min(S) \in S /\ \A x \in S : Min(S) <= x
<1> DEFINE HasMin(T) == \E x \in T : \A y \in T : x =< y
           Bad == { T \in SUBSET S : T # {} /\ ~ HasMin(T) }
<1>1. SUFFICES ASSUME Bad # {} PROVE FALSE
  BY DEF Min
<1>2. Bad \subseteq FiniteSubsetsOf(S)
  BY FS_Subset DEF FiniteSubsetsOf
<1>3. PICK T \in Bad : \A U \in Bad : ~ (<<U, T>> \in StrictSubsetOrdering(S))
  <2>1. IsWellFoundedOn(StrictSubsetOrdering(S), FiniteSubsetsOf(S))
    BY FS_StrictSubsetOrderingWellFounded
  <2>2. QED
    BY <1>1, <1>2, <2>1, WFMin, Zenon
<1>4. PICK x \in T : TRUE
  OBVIOUS
<1>5. T \ {x} \notin Bad
  BY <1>3, <1>4 DEF StrictSubsetOrdering
<1>6. CASE T \ {x} = {}
  BY <1>4, <1>6
<1>7. CASE HasMin(T \ {x})
  <2>1. PICK m \in T \ {x} : \A y \in T \ {x} : m =< y
    BY <1>7
  <2>2. CASE m =< x
    BY <2>1, <2>2
  <2>3. CASE x =< m
    BY <1>4, <2>1, <2>3
  <2>4. QED
    BY <1>4, <2>1, <2>2, <2>3
<1>8. QED
  BY <1>5, <1>6, <1>7

LEMMA MaxFact ==
  ASSUME NEW S \in SUBSET Int, S # {}, IsFiniteSet(S)
  PROVE  Max(S) \in S /\ \A x \in S : x <= Max(S)
<1> DEFINE HasMax(T) == \E x \in T : \A y \in T : x >= y
           Bad == { T \in SUBSET S : T # {} /\ ~ HasMax(T) }
<1>1. SUFFICES ASSUME Bad # {} PROVE FALSE
  BY DEF Max
<1>2. Bad \subseteq FiniteSubsetsOf(S)
  BY FS_Subset DEF FiniteSubsetsOf
<1>3. PICK T \in Bad : \A U \in Bad : ~ (<<U, T>> \in StrictSubsetOrdering(S))
  <2>1. IsWellFoundedOn(StrictSubsetOrdering(S), FiniteSubsetsOf(S))
    BY FS_StrictSubsetOrderingWellFounded
  <2>2. QED
    BY <1>1, <1>2, <2>1, WFMin, Zenon
<1>4. PICK x \in T : TRUE
  OBVIOUS
<1>5. T \ {x} \notin Bad
  BY <1>3, <1>4 DEF StrictSubsetOrdering
<1>6. CASE T \ {x} = {}
  BY <1>4, <1>6
<1>7. CASE HasMax(T \ {x})
  <2>1. PICK m \in T \ {x} : \A y \in T \ {x} : m >= y
    BY <1>7
  <2>2. CASE m >= x
    BY <2>1, <2>2
  <2>3. CASE x >= m
    BY <1>4, <2>1, <2>3
  <2>4. QED
    BY <1>4, <2>1, <2>2, <2>3
<1>8. QED
  BY <1>5, <1>6, <1>7

(* A set has one largest element. *)
LEMMA MaxIs ==
  ASSUME NEW S \in SUBSET Int, NEW m \in S, \A x \in S : x <= m
  PROVE  Max(S) = m
<1>1. \E x \in S : \A y \in S : x >= y
  OBVIOUS
<1>2. Max(S) \in S /\ m <= Max(S)
  BY <1>1 DEF Max
<1>3. Max(S) \in Int /\ m \in Int
  BY <1>2
<1>4. QED
  BY <1>2, <1>3

LEMMA MaxOfTwo ==
  ASSUME NEW a \in Int, NEW b \in Int
  PROVE  Max({a, b}) \in {a, b} /\ a <= Max({a, b}) /\ b <= Max({a, b})
<1>1. CASE a <= b
  BY <1>1, MaxIs
<1>2. CASE b <= a
  BY <1>2, MaxIs
<1>3. QED
  BY <1>1, <1>2

LEMMA FdsFact == Max(Fds) \in Nat /\ \A f \in Fds : f \in Nat /\ f <= Max(Fds)
<1>1. Fds \in SUBSET Int /\ Fds # {}
  BY FdsAssumption
<1>2. Max(Fds) \in Fds /\ \A f \in Fds : f <= Max(Fds)
  BY <1>1, FdsAssumption, MaxFact
<1>3. QED
  BY <1>2, FdsAssumption

LEMMA SomeFds ==
  ASSUME NEW S, S \subseteq Fds
  PROVE  S \in SUBSET Int /\ IsFiniteSet(S)
<1>1. \A x \in S : x \in Int
  BY FdsAssumption
<1>2. IsFiniteSet(S)
  BY FdsAssumption, FS_Subset
<1>3. QED
  BY <1>1, <1>2

LEMMA FreeFact ==
  ASSUME NEW g \in Fds, owner[g] = Free
  PROVE  /\ LowestFree \in Fds
         /\ owner[LowestFree] = Free
         /\ \A f \in Fds : owner[f] = Free => LowestFree <= f
<1> DEFINE F == { f \in Fds : owner[f] = Free }
<1>1. F \subseteq Fds /\ F # {}
  OBVIOUS
<1>2. F \in SUBSET Int /\ IsFiniteSet(F)
  BY <1>1, SomeFds
<1>3. QED
  BY <1>1, <1>2, MinFact DEF LowestFree

LEMMA VisitFact ==
  ASSUME TypeOK, Visit # {}
  PROVE  /\ Min(Visit) \in Visit
         /\ Visit \subseteq Fds
         /\ \A f \in Visit : Min(Visit) <= f
<1>1. Visit \subseteq Fds
  BY DEF TypeOK, Visit
<1>2. Visit \in SUBSET Int /\ IsFiniteSet(Visit)
  BY <1>1, SomeFds
<1>3. QED
  BY <1>1, <1>2, MinFact

LEMMA RemainingFact ==
  ASSUME Remaining # {}
  PROVE  /\ Min(Remaining) \in Remaining
         /\ \A f \in Remaining : Min(Remaining) <= f
<1>1. Remaining \subseteq Fds
  BY DEF Remaining, Connected
<1>2. Remaining \in SUBSET Int /\ IsFiniteSet(Remaining)
  BY <1>1, SomeFds
<1>3. QED
  BY <1>2, MinFact

LEMMA TvFact == Max({0, Timeout}) \in Nat /\ Timeout <= Max({0, Timeout})
<1>1. Timeout \in Int
  BY TimeoutAssumption
<1>2. /\ Max({0, Timeout}) \in {0, Timeout}
      /\ 0 <= Max({0, Timeout}) /\ Timeout <= Max({0, Timeout})
  BY <1>1, MaxOfTwo
<1>3. QED
  BY <1>1, <1>2

-----------------------------------------------------------------------------
LEMMA InitInv ==
  ASSUME Init
  PROVE  IInv
<1> USE FdsAssumption, ClientsAssumption DEF Init, NULL, Free, Listener
<1>1. TypeOK
  BY FdsFact, TvFact, TimeoutAssumption, MaxSendsAssumption DEF TypeOK
<1>2. Connected = {} /\ Served = {}
  BY DEF Connected, Served
<1>3. ServedInv
  BY <1>2 DEF ServedInv
<1>4. ListenInv /\ WaitInv
  BY DEF ListenInv, WaitInv
<1>5. SetInv /\ FdMaxCovers /\ PassInv /\ VisitsAreSound /\ ToldOnce
  BY DEF SetInv, FdMaxCovers, PassInv, VisitsAreSound, ToldOnce
<1>6. QED
  BY <1>1, <1>3, <1>4, <1>5 DEF IInv

-----------------------------------------------------------------------------
(* What the clients do leaves the server's tables alone. *)

LEMMA ClientTypes ==
  ASSUME TypeOK, NEW c \in Clients, ClientNext(c)
  PROVE  TypeOK'
<1> USE DEF TypeOK, serverVars, connVars
<1>1. CASE Connect(c)
  BY <1>1 DEF Connect
<1>2. ASSUME NEW items \in Messages, Send(c, items)
      PROVE  TypeOK'
  <2>1. stream[c] \o items \in Seq(Items)
    BY MessagesAssumption
  <2>2. stream' \in [Clients -> Seq(Items)]
    BY <1>2, <2>1 DEF Send
  <2>3. sent' \in 0 .. MaxSends
    BY <1>2, MaxSendsAssumption DEF Send
  <2>4. QED
    BY <1>2, <2>2, <2>3 DEF Send
<1>3. CASE Finish(c)
  BY <1>3 DEF Finish
<1>4. CASE Reset(c)
  BY <1>4 DEF Reset
<1>5. QED
  BY <1>1, <1>2, <1>3, <1>4 DEF ClientNext

LEMMA ClientFacts ==
  ASSUME TypeOK, NEW c \in Clients, ClientNext(c)
  PROVE  /\ UNCHANGED <<serverVars, connVars, owner>>
         /\ \A d \in Clients :
              /\ peer[d] \in {"open", "fin", "rst"} => peer'[d] \in {"open", "fin", "rst"}
              /\ peer[d] = "over" => peer'[d] = "over"
              /\ peer'[d] = "idle" => peer[d] = "idle"
         /\ \A f \in Fds : Readable(f) => Readable(f)'
<1>1. UNCHANGED <<serverVars, connVars, owner>>
  BY DEF ClientNext, Connect, Send, Finish, Reset
<1>2. \A d \in Clients :
        /\ peer[d] \in {"open", "fin", "rst"} => peer'[d] \in {"open", "fin", "rst"}
        /\ peer[d] = "over" => peer'[d] = "over"
        /\ peer'[d] = "idle" => peer[d] = "idle"
  BY DEF TypeOK, ClientNext, Connect, Send, Finish, Reset
<1>3. queue # <<>> => queue' # <<>>
  BY DEF TypeOK, ClientNext, Connect, Send, Finish, Reset
<1>4. \A d \in Clients : \/ stream[d] # <<>>
                         \/ peer[d] \in {"fin", "rst", "over"}
                         => \/ stream'[d] # <<>>
                            \/ peer'[d] \in {"fin", "rst", "over"}
  <2>1. CASE Connect(c)
    BY <2>1 DEF TypeOK, Connect
  <2>2. ASSUME NEW items \in Messages, Send(c, items)
        PROVE  /\ stream[c] # <<>> => stream'[c] # <<>>
               /\ UNCHANGED peer
               /\ \A d \in Clients \ {c} : stream'[d] = stream[d]
    BY <2>2, MessagesAssumption DEF TypeOK, Send
  <2>3. CASE Finish(c)
    BY <2>3 DEF TypeOK, Finish
  <2>4. CASE Reset(c)
    BY <2>4 DEF TypeOK, Reset
  <2>5. QED
    BY <2>1, <2>2, <2>3, <2>4 DEF ClientNext
<1>5. QED
  BY <1>1, <1>2, <1>3, <1>4 DEF Readable

LEMMA ClientInv ==
  ASSUME IInv, NEW c \in Clients, ClientNext(c)
  PROVE  IInv'
<1>1. TypeOK'
  BY ClientTypes DEF IInv
<1>2. /\ UNCHANGED <<serverVars, connVars, owner>>
      /\ \A d \in Clients :
           /\ peer[d] \in {"open", "fin", "rst"} => peer'[d] \in {"open", "fin", "rst"}
           /\ peer[d] = "over" => peer'[d] = "over"
           /\ peer'[d] = "idle" => peer[d] = "idle"
      /\ \A f \in Fds : Readable(f) => Readable(f)'
  BY ClientFacts DEF IInv
<1>3. Connected' = Connected /\ Served' = Served /\ Visit' = Visit
  BY <1>2 DEF serverVars, Connected, Served, Remaining, Visit
<1>4. ServedInv'
  <2>1. \A f \in Served : m_connections[f] \in Clients
    BY DEF IInv, TypeOK, Served, Remaining, Connected
  <2>2. QED
    BY <1>2, <1>3, <2>1 DEF IInv, ServedInv, serverVars, connVars
<1>5. ListenInv' /\ SetInv' /\ FdMaxCovers' /\ PassInv' /\ ToldOnce'
  BY <1>2, <1>3 DEF IInv, ListenInv, SetInv, FdMaxCovers, PassInv, ToldOnce, serverVars, connVars
<1>6. WaitInv'
  <2>1. CASE Connect(c)
    <3>1. queue \in Seq(Clients) /\ queue' = Append(queue, c) /\ peer[c] = "idle"
      BY <2>1 DEF IInv, TypeOK, Connect
    <3>2. peer'[c] = "open" /\ life'[c] = "none"
      BY <2>1 DEF IInv, TypeOK, WaitInv, Connect, connVars
    <3>3. \A k \in DOMAIN queue : queue'[k] = queue[k] /\ queue[k] # c /\ queue[k] \in Clients
      BY <3>1 DEF IInv, WaitInv
    <3>4. /\ DOMAIN queue' = DOMAIN queue \cup {Len(queue) + 1}
          /\ queue'[Len(queue) + 1] = c
          /\ Len(queue) + 1 \notin DOMAIN queue
      BY <3>1
    <3>5. \A k \in DOMAIN queue' : life'[queue'[k]] = "none" /\ peer'[queue'[k]] \in {"open", "fin", "rst"}
      BY <1>2, <3>2, <3>3, <3>4 DEF IInv, WaitInv, connVars
    <3>6. \A k, l \in DOMAIN queue' : queue'[k] = queue'[l] => k = l
      BY <3>3, <3>4 DEF IInv, WaitInv
    <3>7. \A d \in Clients : peer'[d] = "idle" => life'[d] = "none"
      BY <1>2 DEF IInv, WaitInv, connVars
    <3>8. QED
      BY <3>5, <3>6, <3>7 DEF WaitInv
  <2>2. CASE ~ Connect(c)
    <3>1. queue' = queue
      BY <2>2 DEF ClientNext, Send, Finish, Reset
    <3>2. \A k \in DOMAIN queue : queue[k] \in Clients
      BY DEF IInv, TypeOK
    <3>3. QED
      BY <1>2, <3>1, <3>2 DEF IInv, WaitInv, connVars
  <2>3. QED
    BY <2>1, <2>2
<1>7. VisitsAreSound'
  <2>1. Visit \subseteq Fds
    BY DEF IInv, TypeOK, Visit
  <2>2. QED
    BY <1>2, <1>3, <2>1 DEF IInv, VisitsAreSound, serverVars
<1>8. QED
  BY <1>1, <1>4, <1>5, <1>6, <1>7 DEF IInv

-----------------------------------------------------------------------------
(* The steps of Run() that do not change which descriptors are open. *)

LEMMA CreateOKInv ==
  ASSUME IInv, CreateOK
  PROVE  IInv'
<1> USE ClientsAssumption DEF NULL, Free, Listener
<1>1. Connected = {} /\ m_sock = -1
  BY DEF IInv, ServedInv, ListenInv, CreateOK
<1>2. \A f \in Fds : owner[f] = Free
  <2>1. ASSUME NEW f \in Fds
        PROVE  owner[f] = Free
    <3>1. owner[f] \notin Clients
      BY <1>1 DEF IInv, ServedInv, Served, CreateOK
    <3>2. owner[f] # Listener
      BY <1>1, FdsFact DEF IInv, ListenInv
    <3>3. QED
      BY <3>1, <3>2 DEF IInv, TypeOK
  <2>2. QED
    BY <2>1
<1>3. LowestFree \in Fds /\ \A f \in Fds : LowestFree <= f
  BY <1>2, FdsAssumption, FreeFact
<1>4. m_sock' \in Fds /\ m_sock' # -1 /\ \A f \in Fds : m_sock' <= f
  BY <1>3, FdsFact DEF CreateOK
<1>5. Connected' = {} /\ Served' = {}
  BY <1>1 DEF CreateOK, Connected, Served
<1>6. \A f \in Fds : owner'[f] = IF f = m_sock' THEN Listener ELSE Free
  BY <1>2 DEF IInv, TypeOK, CreateOK
<1>7. TypeOK'
  BY <1>4 DEF IInv, TypeOK, CreateOK, connVars
<1>8. ServedInv'
  BY <1>5, <1>6 DEF IInv, ServedInv, CreateOK, Served, connVars
<1>9. ListenInv'
  BY <1>4, <1>6 DEF ListenInv, CreateOK
<1>10. WaitInv' /\ ToldOnce'
  BY DEF IInv, WaitInv, ToldOnce, CreateOK, connVars
<1>11. SetInv' /\ PassInv' /\ VisitsAreSound'
  BY <1>5 DEF SetInv, PassInv, VisitsAreSound, CreateOK
<1>12. FdMaxCovers'
  <2>1. Max(rfds') = m_sock'
    BY <1>4, FdsFact, MaxIs DEF CreateOK
  <2>2. QED
    BY <1>5, <2>1 DEF FdMaxCovers, CreateOK
<1>13. QED
  BY <1>7, <1>8, <1>9, <1>10, <1>11, <1>12 DEF IInv

LEMMA CreateFailsInv ==
  ASSUME IInv, CreateFails
  PROVE  IInv'
<1>1. Connected = {} /\ Connected' = {} /\ Served = {} /\ Served' = {}
  BY DEF IInv, ServedInv, CreateFails, Connected, Served, Remaining
<1>2. pc' \in {"cleanup", "abort"}
      /\ UNCHANGED <<m_sock, m_connections, rfds, tmpfds, fdmax, i, tv, connVars, kernelVars>>
  BY DEF CreateFails
<1>3. TypeOK'
  BY <1>2 DEF IInv, TypeOK, connVars, kernelVars
<1>4. ServedInv'
  BY <1>1, <1>2 DEF IInv, ServedInv, connVars, kernelVars
<1>5. ListenInv' /\ WaitInv' /\ ToldOnce'
  BY <1>2 DEF IInv, ListenInv, WaitInv, ToldOnce, connVars, kernelVars
<1>6. SetInv' /\ FdMaxCovers' /\ PassInv' /\ VisitsAreSound'
  BY <1>2 DEF SetInv, FdMaxCovers, PassInv, VisitsAreSound
<1>7. QED
  BY <1>3, <1>4, <1>5, <1>6 DEF IInv

LEMMA SelectInv ==
  ASSUME IInv, Select \/ SelectTimeout
  PROVE  IInv'
<1>1. /\ UNCHANGED <<m_sock, m_connections, rfds, fdmax, connVars, kernelVars>>
      /\ pc = "select" /\ pc' \in {"select", "for"}
      /\ tmpfds' \subseteq Watched
      /\ \A f \in tmpfds' : Readable(f)
  BY DEF Select, SelectTimeout
<1>2. Connected' = Connected /\ Served' = Served
  BY <1>1 DEF Connected, Served
<1>3. TypeOK'
  <2>1. tmpfds' \subseteq Fds
    BY <1>1 DEF IInv, TypeOK, Watched
  <2>2. i' \in 0 .. Max(Fds) + 1
    BY FdsFact DEF IInv, TypeOK, Select, SelectTimeout
  <2>3. tv' \in -1 .. Max({0, Timeout})
    BY TvFact DEF IInv, TypeOK, Select, SelectTimeout
  <2>4. QED
    BY <1>1, <2>1, <2>2, <2>3 DEF IInv, TypeOK, connVars, kernelVars
<1>4. ServedInv'
  BY <1>1, <1>2 DEF IInv, ServedInv, connVars, kernelVars
<1>5. ListenInv' /\ WaitInv' /\ ToldOnce'
  BY <1>1 DEF IInv, ListenInv, WaitInv, ToldOnce, connVars, kernelVars, Select, SelectTimeout
<1>6. SetInv' /\ FdMaxCovers'
  BY <1>1, <1>2 DEF IInv, SetInv, FdMaxCovers
<1>7. PassInv'
  BY <1>1 DEF PassInv, Watched
<1>8. VisitsAreSound'
  <2>1. ASSUME NEW f \in tmpfds'
        PROVE  Readable(f)' /\ (f # m_sock => m_connections[f] # NULL)
    <3>1. Readable(f)'
      BY <1>1, <2>1 DEF Readable, kernelVars
    <3>2. f \in {m_sock} \cup Connected
      BY <1>1, <2>1 DEF IInv, ListenInv, SetInv, Watched
    <3>3. QED
      BY <3>1, <3>2 DEF Connected
  <2>2. QED
    BY <1>1, <2>1 DEF VisitsAreSound, Visit
<1>9. QED
  BY <1>3, <1>4, <1>5, <1>6, <1>7, <1>8 DEF IInv

LEMMA LeaveInv ==
  ASSUME IInv, SelectFails \/ EndFor
  PROVE  IInv'
<1>1. /\ UNCHANGED <<m_sock, m_connections, rfds, tmpfds, fdmax, tv, connVars, kernelVars>>
      /\ pc \in {"select", "for"}
      /\ i' = 0
      /\ pc' \in {"select", "cleanup"} /\ (pc' = "select" => m_sock # -1)
  BY DEF SelectFails, EndFor
<1>2. Connected' = Connected /\ Served' = Served
  <2>1. Connected' = Connected /\ Served = Connected
    BY <1>1 DEF Connected, Served
  <2>2. \A f \in Connected : 0 <= f
    BY FdsFact DEF Connected
  <2>3. QED
    BY <1>1, <2>1, <2>2 DEF Served, Remaining
<1>3. TypeOK'
  BY <1>1, FdsFact DEF IInv, TypeOK, connVars, kernelVars
<1>4. ServedInv'
  BY <1>1, <1>2 DEF IInv, ServedInv, connVars, kernelVars
<1>5. ListenInv' /\ WaitInv' /\ ToldOnce'
  BY <1>1 DEF IInv, ListenInv, WaitInv, ToldOnce, connVars, kernelVars
<1>6. SetInv' /\ FdMaxCovers' /\ PassInv' /\ VisitsAreSound'
  BY <1>1, <1>2 DEF IInv, SetInv, FdMaxCovers, PassInv, VisitsAreSound
<1>7. QED
  BY <1>3, <1>4, <1>5, <1>6 DEF IInv

-----------------------------------------------------------------------------
(* The visit of the listening descriptor. *)

LEMMA ListenerFacts ==
  ASSUME IInv, AtListener, i' = m_sock + 1
  PROVE  /\ pc = "for"
         /\ m_sock \in Fds /\ m_sock # -1 /\ m_sock \in Visit
         /\ i <= m_sock
         /\ i' \in 0 .. Max(Fds) + 1
<1>1. Visit # {} /\ pc = "for" /\ Min(Visit) = m_sock
  BY DEF AtListener
<1>2. m_sock \in Visit /\ Visit \subseteq Fds
  BY <1>1, VisitFact DEF IInv
<1>3. QED
  BY <1>1, <1>2, FdsFact DEF Visit

LEMMA PastListener ==
  ASSUME IInv, AtListener, i' = m_sock + 1
  PROVE  \A f \in tmpfds : i' <= f => i <= f /\ f # m_sock /\ f \in Visit
<1>1. SUFFICES ASSUME NEW f \in tmpfds, i' <= f
               PROVE  i <= f /\ f # m_sock /\ f \in Visit
  OBVIOUS
<1>2. f \in Int /\ m_sock \in Int /\ i \in Int /\ i <= m_sock /\ pc = "for"
  BY ListenerFacts, FdsFact DEF IInv, TypeOK
<1>3. i <= f /\ f # m_sock
  BY <1>1, <1>2
<1>4. QED
  BY <1>2, <1>3 DEF IInv, PassInv, Visit

LEMMA AcceptFailsInv ==
  ASSUME IInv, AcceptFails
  PROVE  IInv'
<1>1. /\ UNCHANGED <<pc, m_sock, m_connections, rfds, tmpfds, fdmax, tv, connVars, kernelVars>>
      /\ pc = "for" /\ i <= i' /\ i \in Int /\ i' \in 0 .. Max(Fds) + 1 /\ i' \in Int
  <2>1. i' = m_sock + 1 /\ AtListener
    BY DEF AcceptFails
  <2>2. m_sock \in Nat
    BY <2>1, ListenerFacts, FdsFact
  <2>3. QED
    BY <2>1, <2>2, ListenerFacts DEF AcceptFails, IInv, TypeOK
<1>2. Connected' = Connected /\ Served' = Served
  BY <1>1 DEF Connected, Served
<1>3. \A f \in Fds : i' <= f => i <= f
  BY <1>1, FdsFact
<1>4. TypeOK'
  BY <1>1 DEF IInv, TypeOK, connVars, kernelVars
<1>5. ServedInv'
  BY <1>1, <1>2 DEF IInv, ServedInv, connVars, kernelVars
<1>6. ListenInv' /\ WaitInv' /\ ToldOnce'
  BY <1>1 DEF IInv, ListenInv, WaitInv, ToldOnce, connVars, kernelVars
<1>7. SetInv' /\ FdMaxCovers'
  BY <1>1, <1>2 DEF IInv, SetInv, FdMaxCovers
<1>8. PassInv'
  BY <1>1, <1>3 DEF IInv, TypeOK, PassInv
<1>9. VisitsAreSound'
  <2>1. Visit' \subseteq Visit
    BY <1>1, <1>3 DEF IInv, TypeOK, Visit
  <2>2. QED
    BY <1>1, <2>1 DEF IInv, VisitsAreSound, Readable, kernelVars
<1>10. QED
  BY <1>4, <1>5, <1>6, <1>7, <1>8, <1>9 DEF IInv

(* What is left of the queue when its first connection has been accepted. *)
LEMMA QueueFacts ==
  ASSUME IInv, queue # <<>>, queue' = Tail(queue)
  PROVE  /\ Head(queue) \in Clients
         /\ life[Head(queue)] = "none" /\ peer[Head(queue)] \in {"open", "fin", "rst"}
         /\ queue' \in Seq(Clients)
         /\ DOMAIN queue' = 1 .. Len(queue) - 1
         /\ \A k \in DOMAIN queue' : /\ queue'[k] = queue[k + 1]
                                     /\ k + 1 \in DOMAIN queue
                                     /\ queue'[k] \in Clients
                                     /\ queue'[k] # Head(queue)
<1>1. queue \in Seq(Clients)
  BY DEF IInv, TypeOK
<1>2. Head(queue) = queue[1] /\ 1 \in DOMAIN queue /\ Head(queue) \in Clients
  BY <1>1
<1>3. /\ queue' \in Seq(Clients) /\ DOMAIN queue' = 1 .. Len(queue) - 1
      /\ \A k \in DOMAIN queue' : /\ queue'[k] = queue[k + 1]
                                  /\ k + 1 \in DOMAIN queue /\ k + 1 # 1
                                  /\ queue'[k] \in Clients
  BY <1>1
<1>4. QED
  BY <1>2, <1>3 DEF IInv, WaitInv

LEMMA WaitDequeued ==
  ASSUME IInv, queue # <<>>, queue' = Tail(queue),
         \A c \in Clients \ {Head(queue)} : life'[c] = life[c] /\ peer'[c] = peer[c],
         peer'[Head(queue)] # "idle"
  PROVE  WaitInv'
<1>1. /\ Head(queue) \in Clients
      /\ \A k \in DOMAIN queue' : /\ queue'[k] = queue[k + 1] /\ k + 1 \in DOMAIN queue
                                  /\ queue'[k] \in Clients /\ queue'[k] # Head(queue)
      /\ DOMAIN queue' \subseteq Int
  BY QueueFacts
<1>2. \A k \in DOMAIN queue' : life'[queue'[k]] = "none" /\ peer'[queue'[k]] \in {"open", "fin", "rst"}
  BY <1>1 DEF IInv, WaitInv
<1>3. \A k, l \in DOMAIN queue' : queue'[k] = queue'[l] => k = l
  <2>1. SUFFICES ASSUME NEW k \in DOMAIN queue', NEW l \in DOMAIN queue', queue'[k] = queue'[l]
                 PROVE  k = l
    OBVIOUS
  <2>2. k + 1 = l + 1
    BY <1>1, <2>1 DEF IInv, WaitInv
  <2>3. QED
    BY <1>1, <2>2
<1>4. \A c \in Clients : peer'[c] = "idle" => life'[c] = "none"
  BY DEF IInv, WaitInv
<1>5. QED
  BY <1>2, <1>3, <1>4 DEF WaitInv

(* While Run() listens, fdmax is in the set and nothing of it is above. *)
LEMMA FdmaxFacts ==
  ASSUME IInv, pc \in {"select", "for"}, m_sock # -1
  PROVE  /\ rfds = {m_sock} \cup Connected
         /\ fdmax \in rfds
         /\ \A f \in rfds : f <= fdmax
<1>1. rfds = {m_sock} \cup Connected /\ fdmax = Max(rfds) /\ rfds \subseteq Fds
  BY DEF IInv, TypeOK, SetInv, FdMaxCovers
<1>2. rfds \in SUBSET Int /\ IsFiniteSet(rfds) /\ rfds # {}
  BY <1>1, SomeFds
<1>3. QED
  BY <1>1, <1>2, MaxFact

LEMMA AcceptAdmitInv ==
  ASSUME IInv, AcceptAdmit
  PROVE  IInv'
<1> USE ClientsAssumption DEF NULL, Free, Listener
<1> DEFINE c == Head(queue)
           fd == LowestFree
<1>1. /\ pc = "for" /\ queue # <<>> /\ queue' = Tail(queue) /\ i' = m_sock + 1
      /\ UNCHANGED <<pc, m_sock, tmpfds, tv, told, stream, peer, sent>>
  BY DEF AcceptAdmit, AtListener, Enter
<1>2. /\ owner' = [owner EXCEPT ![fd] = c]
      /\ sock' = [sock EXCEPT ![c] = fd]
      /\ life' = [life EXCEPT ![c] = "live"]
      /\ m_connections' = [m_connections EXCEPT ![fd] = c]
      /\ rfds' = rfds \cup {fd}
      /\ fdmax' = Max({fdmax, fd})
  BY DEF AcceptAdmit, Enter
<1>3. /\ m_sock \in Fds /\ m_sock # -1 /\ i <= m_sock
      /\ i' \in 0 .. Max(Fds) + 1
  BY <1>1, ListenerFacts DEF AcceptAdmit
<1>4. /\ c \in Clients /\ queue' \in Seq(Clients) /\ life[c] = "none"
      /\ peer[c] \in {"open", "fin", "rst"}
  BY <1>1, QueueFacts
<1>5. fd \in Fds /\ owner[fd] = Free
  BY FreeFact DEF AcceptAdmit
<1>6. fd \notin Served /\ Served = Connected /\ fd # m_sock
  BY <1>1, <1>5 DEF IInv, ServedInv, TypeOK, Served, Connected, ListenInv
<1>7. Connected' = Connected \cup {fd} /\ Served' = Served \cup {fd}
  BY <1>1, <1>2, <1>4, <1>5, <1>6 DEF IInv, TypeOK, Connected, Served
<1>8. /\ rfds = {m_sock} \cup Connected /\ fdmax \in Fds /\ fd \in Int /\ fdmax \in Int
      /\ fdmax \in rfds /\ \A f \in rfds : f <= fdmax
  <2>1. /\ rfds = {m_sock} \cup Connected /\ fdmax \in rfds
        /\ \A f \in rfds : f <= fdmax
    BY <1>1, <1>3, FdmaxFacts
  <2>2. fdmax \in Fds
    BY <2>1 DEF IInv, TypeOK
  <2>3. QED
    BY <1>5, <2>1, <2>2, FdsFact
<1>9. fdmax' \in {fdmax, fd} /\ fdmax <= fdmax' /\ fd <= fdmax'
  BY <1>2, <1>8, MaxOfTwo
<1>10. TypeOK'
  BY <1>1, <1>2, <1>3, <1>4, <1>5, <1>8, <1>9 DEF IInv, TypeOK
<1>11. ServedInv'
  <2>1. \A f \in Served : m_connections[f] \in Clients /\ m_connections[f] # c /\ f \in Fds
    BY <1>4 DEF IInv, TypeOK, ServedInv, Served, Remaining, Connected
  <2>2. \A f \in Served' : /\ owner'[f] = m_connections'[f]
                           /\ sock'[m_connections'[f]] = f
                           /\ life'[m_connections'[f]] = "live"
                           /\ peer'[m_connections'[f]] \in {"open", "fin", "rst", "over"}
    BY <1>1, <1>2, <1>4, <1>5, <1>6, <1>7, <2>1 DEF IInv, TypeOK, ServedInv
  <2>3. \A f \in Fds : owner'[f] \in Clients => f \in Served'
    BY <1>2, <1>5, <1>7 DEF IInv, TypeOK, ServedInv
  <2>4. \A d \in Clients : life'[d] = "live" => sock'[d] \in Served' /\ m_connections'[sock'[d]] = d
    BY <1>2, <1>4, <1>5, <1>6, <1>7 DEF IInv, TypeOK, ServedInv
  <2>5. QED
    BY <1>1, <2>2, <2>3, <2>4 DEF ServedInv
<1>12. ListenInv'
  BY <1>1, <1>2, <1>4, <1>5, <1>6 DEF IInv, TypeOK, ListenInv
<1>13. WaitInv'
  BY <1>1, <1>2, <1>4, WaitDequeued DEF IInv, TypeOK
<1>14. SetInv'
  BY <1>1, <1>2, <1>7, <1>8 DEF SetInv
<1>15. FdMaxCovers'
  <2>1. fdmax' \in rfds' /\ rfds' \subseteq Fds
    BY <1>2, <1>5, <1>8, <1>9 DEF IInv, TypeOK
  <2>2. \A f \in rfds' : f <= fdmax'
    BY <1>2, <1>3, <1>8, <1>9, FdsFact DEF IInv, TypeOK
  <2>3. rfds' \in SUBSET Int
    BY <2>1, SomeFds
  <2>4. Max(rfds') = fdmax'
    BY <2>1, <2>2, <2>3, MaxIs
  <2>5. Connected' \subseteq rfds'
    BY <1>2, <1>7, <1>8
  <2>6. QED
    BY <2>2, <2>4, <2>5 DEF FdMaxCovers
<1>16. \A f \in tmpfds : i' <= f => i <= f /\ f # m_sock /\ f \in Visit
  BY <1>1, PastListener DEF AcceptAdmit
<1>17. PassInv'
  BY <1>1, <1>8, <1>9, <1>16, FdsFact DEF IInv, TypeOK, PassInv, Visit
<1>18. VisitsAreSound'
  <2>1. ASSUME NEW f \in tmpfds, i' <= f
        PROVE  Readable(f)' /\ m_connections'[f] # NULL
    <3>1. f \in Visit /\ f # m_sock /\ f \in Fds
      BY <1>16, <2>1 DEF IInv, TypeOK
    <3>2. Readable(f) /\ m_connections[f] # NULL
      BY <1>1, <3>1 DEF IInv, VisitsAreSound
    <3>3. owner[f] # Listener /\ owner[f] # Free /\ f # fd
      BY <1>5, <3>1, <3>2 DEF IInv, ListenInv, Readable
    <3>4. owner'[f] = owner[f] /\ m_connections'[f] = m_connections[f]
      BY <1>2, <3>1, <3>3 DEF IInv, TypeOK
    <3>5. QED
      BY <1>1, <3>2, <3>3, <3>4 DEF Readable
  <2>2. QED
    BY <1>1, <2>1 DEF VisitsAreSound, Visit
<1>19. ToldOnce'
  BY <1>1, <1>2, <1>4 DEF IInv, TypeOK, ToldOnce
<1>20. QED
  BY <1>10, <1>11, <1>12, <1>13, <1>14, <1>15, <1>17, <1>18, <1>19 DEF IInv

LEMMA AcceptRefuseInv ==
  ASSUME IInv, AcceptRefuse
  PROVE  IInv'
<1> USE ClientsAssumption DEF NULL, Free, Listener
<1> DEFINE c == Head(queue)
<1>1. /\ pc = "for" /\ queue # <<>> /\ queue' = Tail(queue) /\ i' = m_sock + 1
      /\ told' = [told EXCEPT ![c] = @ + 1]
      /\ life' = [life EXCEPT ![c] = "deleted"]
      /\ peer' = [peer EXCEPT ![c] = "done"]
      /\ stream' = [stream EXCEPT ![c] = <<>>]
      /\ UNCHANGED <<pc, m_sock, m_connections, rfds, tmpfds, fdmax, tv, sock, owner, sent>>
  BY DEF AcceptRefuse, AtListener
<1>2. /\ m_sock \in Fds /\ m_sock # -1 /\ i <= m_sock
      /\ i' \in 0 .. Max(Fds) + 1
  BY <1>1, ListenerFacts DEF AcceptRefuse
<1>3. /\ c \in Clients /\ queue' \in Seq(Clients) /\ life[c] = "none"
  BY <1>1, QueueFacts
<1>4. Connected' = Connected /\ Served' = Served /\ Served = Connected
  BY <1>1 DEF Connected, Served
<1>5. \A f \in Served : m_connections[f] \in Clients /\ m_connections[f] # c /\ f \in Fds
  BY <1>3 DEF IInv, TypeOK, ServedInv, Served, Remaining, Connected
<1>6. TypeOK'
  <2>1. told' \in [Clients -> Nat] /\ life' \in [Clients -> {"none", "live", "deleted"}]
    BY <1>1, <1>3 DEF IInv, TypeOK
  <2>2. peer' \in [Clients -> {"idle", "open", "fin", "rst", "over", "done"}]
    BY <1>1, <1>3 DEF IInv, TypeOK
  <2>3. stream' \in [Clients -> Seq(Items)]
    <3>1. <<>> \in Seq(Items) /\ stream \in [Clients -> Seq(Items)]
      BY DEF IInv, TypeOK
    <3>2. QED
      BY <1>1, <3>1
  <2>4. QED
    BY <1>1, <1>2, <1>3, <2>1, <2>2, <2>3 DEF IInv, TypeOK
<1>7. ServedInv'
  <2>1. \A d \in Clients \ {c} : told'[d] = told[d] /\ life'[d] = life[d] /\ peer'[d] = peer[d]
    BY <1>1 DEF IInv, TypeOK
  <2>2. life'[c] = "deleted"
    BY <1>1, <1>3 DEF IInv, TypeOK
  <2>3. \A f \in Served' : /\ owner'[f] = m_connections'[f]
                           /\ sock'[m_connections'[f]] = f
                           /\ life'[m_connections'[f]] = "live"
                           /\ peer'[m_connections'[f]] \in {"open", "fin", "rst", "over"}
    <3>1. \A f \in Served : m_connections[f] \in Clients \ {c}
      BY <1>5
    <3>2. \A f \in Served : /\ owner[f] = m_connections[f]
                            /\ sock[m_connections[f]] = f
                            /\ life[m_connections[f]] = "live"
                            /\ peer[m_connections[f]] \in {"open", "fin", "rst", "over"}
      BY DEF IInv, ServedInv
    <3>3. QED
      BY <1>1, <1>4, <2>1, <3>1, <3>2
  <2>4. \A f \in Fds : owner'[f] \in Clients => f \in Served'
    BY <1>1, <1>4 DEF IInv, ServedInv
  <2>5. \A d \in Clients : life'[d] = "live" => sock'[d] \in Served' /\ m_connections'[sock'[d]] = d
    BY <1>1, <1>4, <2>1, <2>2 DEF IInv, ServedInv
  <2>6. pc' \in {"create", "returned", "exit", "abort"} => Connected' = {}
    BY <1>1, <1>4 DEF IInv, ServedInv
  <2>7. QED
    BY <2>3, <2>4, <2>5, <2>6 DEF ServedInv
<1>8. ListenInv'
  BY <1>1 DEF IInv, ListenInv
<1>9. WaitInv'
  BY <1>1, <1>3, WaitDequeued DEF IInv, TypeOK
<1>10. SetInv' /\ FdMaxCovers'
  BY <1>1, <1>4 DEF IInv, SetInv, FdMaxCovers
<1>11. \A f \in tmpfds : i' <= f => i <= f /\ f # m_sock /\ f \in Visit
  BY <1>1, PastListener DEF AcceptRefuse
<1>12. PassInv'
  BY <1>1, <1>11 DEF PassInv, Visit
<1>13. VisitsAreSound'
  <2>1. ASSUME NEW f \in tmpfds, i' <= f
        PROVE  Readable(f)' /\ m_connections'[f] # NULL
    <3>1. f \in Visit /\ f # m_sock /\ f \in Fds
      BY <1>11, <2>1 DEF IInv, TypeOK
    <3>2. Readable(f) /\ m_connections[f] # NULL /\ f \in Connected
      BY <1>1, <3>1 DEF IInv, VisitsAreSound, Connected
    <3>3. owner[f] # Listener /\ owner[f] # c
      BY <1>4, <1>5, <3>1, <3>2 DEF IInv, ListenInv, ServedInv
    <3>4. QED
      BY <1>1, <3>2, <3>3 DEF IInv, TypeOK, Readable
  <2>2. QED
    BY <1>1, <2>1 DEF VisitsAreSound, Visit
<1>14. ToldOnce'
  <2>1. \A d \in Clients \ {c} : told'[d] = told[d] /\ life'[d] = life[d]
    BY <1>1 DEF IInv, TypeOK
  <2>2. told'[c] = told[c] + 1 /\ life'[c] = "deleted"
    BY <1>1, <1>3 DEF IInv, TypeOK
  <2>3. told[c] = 0
    BY <1>3 DEF IInv, ToldOnce
  <2>4. QED
    BY <2>1, <2>2, <2>3 DEF IInv, ToldOnce
<1>15. QED
  BY <1>6, <1>7, <1>8, <1>9, <1>10, <1>12, <1>13, <1>14 DEF IInv

-----------------------------------------------------------------------------
(* The visit of a connection. *)

LEMMA ConnectionFacts ==
  ASSUME IInv, NEW f \in Fds, AtConnection(f), i' = f + 1
  PROVE  /\ pc = "for" /\ f \in Connected /\ f # m_sock
         /\ m_connections[f] \in Clients /\ owner[f] = m_connections[f]
         /\ sock[m_connections[f]] = f /\ life[m_connections[f]] = "live"
         /\ peer[m_connections[f]] \in {"open", "fin", "rst", "over"}
         /\ i' \in 0 .. Max(Fds) + 1
         /\ \A g \in tmpfds : i' <= g => /\ g \in Visit /\ g # f /\ g # m_sock
                                        /\ g <= fdmax /\ f < g
<1> USE ClientsAssumption DEF NULL, Free, Listener
<1>1. pc = "for" /\ f \in Connected /\ f # m_sock /\ f \in Visit
  BY VisitFact DEF IInv, AtConnection, Connected
<1>2. /\ m_connections[f] \in Clients /\ owner[f] = m_connections[f]
      /\ sock[m_connections[f]] = f /\ life[m_connections[f]] = "live"
      /\ peer[m_connections[f]] \in {"open", "fin", "rst", "over"}
  BY <1>1 DEF IInv, TypeOK, ServedInv, Served, Connected
<1>3. i' \in 0 .. Max(Fds) + 1
  BY FdsFact
<1>4. ASSUME NEW g \in tmpfds, i' <= g
      PROVE  g \in Visit /\ g # f /\ g # m_sock /\ g <= fdmax /\ f < g
  <2>1. g \in Int /\ f \in Int /\ i \in Int /\ i <= f /\ g \in Fds
    BY <1>1, FdsFact DEF IInv, TypeOK, Visit
  <2>2. i <= g /\ g # f /\ f < g
    BY <1>4, <2>1
  <2>3. g # m_sock
    BY <2>1, <2>2, FdsFact DEF IInv, ListenInv
  <2>4. QED
    BY <1>1, <1>4, <2>2, <2>3 DEF IInv, PassInv, Visit
<1>5. QED
  BY <1>1, <1>2, <1>3, <1>4

(* Distinct descriptors of the map are distinct connections. *)
LEMMA Distinct ==
  ASSUME IInv, NEW f \in Served, NEW g \in Served, f # g
  PROVE  m_connections[f] # m_connections[g]
BY DEF IInv, ServedInv

LEMMA RecvFacts ==
  ASSUME TypeOK, NEW c \in Clients, NEW r \in Recv(c),
         peer[c] \in {"open", "fin", "rst", "over"}
  PROVE  r.rest \in Seq(Items) /\ r.peer \in {"open", "fin", "rst", "over"}
<1>1. stream[c] \in Seq(Items)
  BY DEF TypeOK
<1>2. CASE stream[c] # <<>>
  <2>1. PICK k \in 1 .. Len(stream[c]) :
          r = [item |-> Head(stream[c]), rest |-> SubSeq(stream[c], k + 1, Len(stream[c])), peer |-> peer[c]]
    BY <1>2 DEF Recv
  <2>2. SubSeq(stream[c], k + 1, Len(stream[c])) \in Seq(Items)
    <3>1. Len(stream[c]) \in Int /\ k + 1 \in Int
      BY <1>1
    <3>2. \A j \in k + 1 .. Len(stream[c]) : stream[c][j] \in Items
      BY <1>1, <3>1
    <3>3. QED
      BY <3>1, <3>2, SubSeqProperties
  <2>3. QED
    BY <2>1, <2>2
<1>3. CASE stream[c] = <<>>
  <2>1. PICK x : r = [item |-> x, rest |-> <<>>, peer |-> "over"]
    BY <1>3 DEF Recv
  <2>2. QED
    BY <2>1
<1>4. QED
  BY <1>2, <1>3

LEMMA DataInv ==
  ASSUME IInv, NEW f \in Fds, Data(f)
  PROVE  IInv'
<1> USE ClientsAssumption DEF NULL, Free, Listener
<1> DEFINE c == m_connections[f]
<1>1. /\ i' = f + 1 /\ AtConnection(f)
      /\ UNCHANGED <<pc, m_sock, m_connections, rfds, tmpfds, fdmax, tv, connVars, owner, queue, sent>>
  BY DEF Data
<1>2. /\ pc = "for" /\ f \in Connected /\ c \in Clients
      /\ owner[f] = c /\ life[c] = "live" /\ peer[c] \in {"open", "fin", "rst", "over"}
      /\ i' \in 0 .. Max(Fds) + 1
      /\ \A g \in tmpfds : i' <= g => g \in Visit /\ g # f /\ g # m_sock /\ g <= fdmax
  BY <1>1, ConnectionFacts
<1>3. PICK r \in Recv(c) : /\ stream' = [stream EXCEPT ![c] = r.rest]
                           /\ peer' = [peer EXCEPT ![c] = r.peer]
  BY DEF Data
<1>4. r.rest \in Seq(Items) /\ r.peer \in {"open", "fin", "rst", "over"}
  BY <1>2, RecvFacts DEF IInv
<1>5. Connected' = Connected /\ Served' = Served /\ Served = Connected
  BY <1>1, <1>2 DEF Connected, Served
<1>6. TypeOK'
  BY <1>1, <1>2, <1>3, <1>4 DEF IInv, TypeOK, connVars
<1>7. ServedInv'
  <2>1. \A g \in Served : m_connections[g] \in Clients
    BY DEF IInv, TypeOK, Served, Remaining, Connected
  <2>2. \A d \in Clients : peer[d] \in {"open", "fin", "rst", "over"} => peer'[d] \in {"open", "fin", "rst", "over"}
    BY <1>3, <1>4 DEF IInv, TypeOK
  <2>3. QED
    BY <1>1, <1>5, <2>1, <2>2 DEF IInv, ServedInv, connVars
<1>8. ListenInv' /\ SetInv' /\ FdMaxCovers' /\ ToldOnce'
  BY <1>1, <1>5 DEF IInv, ListenInv, SetInv, FdMaxCovers, ToldOnce, connVars
<1>9. WaitInv'
  <2>1. \A d \in Clients \ {c} : peer'[d] = peer[d]
    BY <1>3 DEF IInv, TypeOK
  <2>2. peer'[c] # "idle"
    BY <1>2, <1>3, <1>4 DEF IInv, TypeOK
  <2>3. \A k \in DOMAIN queue : queue[k] \in Clients \ {c}
    BY <1>2 DEF IInv, TypeOK, WaitInv
  <2>4. QED
    BY <1>1, <2>1, <2>2, <2>3 DEF IInv, WaitInv, connVars
<1>10. PassInv'
  BY <1>1, <1>2 DEF PassInv
<1>11. VisitsAreSound'
  <2>1. ASSUME NEW g \in tmpfds, i' <= g
        PROVE  Readable(g)' /\ m_connections'[g] # NULL
    <3>1. g \in Visit /\ g # f /\ g # m_sock /\ g \in Fds
      BY <1>2, <2>1 DEF IInv, TypeOK
    <3>2. Readable(g) /\ m_connections[g] # NULL /\ g \in Served
      BY <1>2, <1>5, <3>1 DEF IInv, VisitsAreSound, Connected
    <3>3. owner[g] # Listener /\ owner[g] # c
      BY <1>2, <1>5, <3>1, <3>2, Distinct DEF IInv, ListenInv, ServedInv
    <3>4. QED
      BY <1>1, <1>3, <3>2, <3>3 DEF IInv, TypeOK, Readable
  <2>2. QED
    BY <1>1, <2>1 DEF VisitsAreSound, Visit
<1>12. QED
  BY <1>6, <1>7, <1>8, <1>9, <1>10, <1>11 DEF IInv

(* fdmax after a connection has been dropped. *)
LEMMA DropFdmax ==
  ASSUME IInv, pc = "for", NEW f \in Connected, NEW s \in {m_sock, -1}, fdmax' = FdmaxWithout(f, s)
  PROVE  /\ fdmax' \in Fds \cup {-1}
         /\ \A g \in Connected \ {f} : g <= fdmax'
         /\ s # -1 => fdmax' = Max({s} \cup (Connected \ {f}))
         /\ f # fdmax => fdmax' = fdmax
<1> DEFINE S == {s} \cup (Connected \ {f})
<1>1. s \in Fds \cup {-1} /\ Connected \subseteq Fds /\ S \subseteq Fds \cup {-1}
  BY DEF IInv, TypeOK, Connected
<1>2. CASE f = fdmax
  <2>1. fdmax' = Max(S)
    BY <1>2 DEF FdmaxWithout
  <2>2. S \in SUBSET Int /\ S # {}
    BY <1>1, FdsFact
  <2>3. IsFiniteSet(S)
    <3>1. IsFiniteSet(Connected \ {f}) /\ IsFiniteSet({s})
      BY <1>1, SomeFds, FS_Singleton
    <3>2. QED
      BY <3>1, FS_Union
  <2>4. Max(S) \in S /\ \A x \in S : x <= Max(S)
    BY <2>2, <2>3, MaxFact
  <2>5. QED
    BY <1>1, <1>2, <2>1, <2>4
<1>3. CASE f # fdmax
  <2>1. fdmax' = fdmax
    BY <1>3 DEF FdmaxWithout
  <2>2. \A g \in Connected : g <= fdmax
    BY DEF IInv, FdMaxCovers
  <2>3. ASSUME s # -1
        PROVE  fdmax = Max(S)
    <3>1. s = m_sock /\ m_sock # -1
      BY <2>3
    <3>2. /\ fdmax \in {m_sock} \cup Connected
          /\ \A g \in {m_sock} \cup Connected : g <= fdmax
      BY <3>1, FdmaxFacts
    <3>3. fdmax \in S /\ (\A g \in S : g <= fdmax)
      BY <1>3, <3>1, <3>2
    <3>4. S \in SUBSET Int
      BY <1>1, FdsFact
    <3>5. QED
      BY <3>3, <3>4, MaxIs
  <2>4. QED
    BY <1>3, <2>1, <2>2, <2>3 DEF IInv, TypeOK
<1>4. QED
  BY <1>2, <1>3

(* What both ways of dropping a connection have in common: the listening
   descriptor stays what it is or is closed with it, and then the connections
   that wait for accept() are over. *)
Dropped(f, newSock) ==
  /\ AtConnection(f)
  /\ Drop(f, newSock)
  /\ m_sock' = newSock
  /\ owner' = [d \in Fds |-> IF d = f \/ (d = m_sock /\ newSock = -1) THEN Free ELSE owner[d]]
  /\ queue' = queue \/ queue' = <<>>
  /\ peer' \in [Clients -> {"idle", "open", "fin", "rst", "over", "done"}]
  /\ peer'[m_connections[f]] = "done"
  /\ \A c \in Clients \ {m_connections[f]} :
       \/ peer'[c] = peer[c]
       \/ queue' = <<>> /\ peer'[c] = "done" /\ \E k \in DOMAIN queue : queue[k] = c
  /\ UNCHANGED <<pc, tmpfds, tv, sent>>

LEMMA DroppedInv ==
  ASSUME IInv, NEW f \in Fds, NEW newSock \in {m_sock, -1}, Dropped(f, newSock)
  PROVE  IInv'
<1> USE ClientsAssumption DEF NULL, Free, Listener
<1> DEFINE c == m_connections[f]
<1>1. /\ i' = f + 1 /\ AtConnection(f) /\ m_sock' = newSock
      /\ rfds' = rfds \ {f}
      /\ m_connections' = [m_connections EXCEPT ![f] = NULL]
      /\ told' = [told EXCEPT ![c] = @ + 1]
      /\ life' = [life EXCEPT ![c] = "deleted"]
      /\ sock' = [sock EXCEPT ![c] = -1]
      /\ stream' = [stream EXCEPT ![c] = <<>>]
      /\ fdmax' = FdmaxWithout(f, newSock)
      /\ UNCHANGED <<pc, tmpfds, tv, sent>>
  BY DEF Dropped, Drop, Forget, Discard
<1>2. /\ pc = "for" /\ f \in Connected /\ f # m_sock /\ c \in Clients
      /\ owner[f] = c /\ sock[c] = f /\ life[c] = "live"
      /\ i' \in 0 .. Max(Fds) + 1
      /\ \A g \in tmpfds : i' <= g => g \in Visit /\ g # f /\ g # m_sock /\ g <= fdmax /\ f < g
  BY <1>1, ConnectionFacts
<1>3. /\ owner' = [d \in Fds |-> IF d = f \/ (d = m_sock /\ newSock = -1) THEN Free ELSE owner[d]]
      /\ queue' = queue \/ queue' = <<>>
      /\ peer' \in [Clients -> {"idle", "open", "fin", "rst", "over", "done"}]
      /\ peer'[c] = "done"
      /\ \A d \in Clients \ {c} :
           \/ peer'[d] = peer[d]
           \/ queue' = <<>> /\ peer'[d] = "done" /\ \E k \in DOMAIN queue : queue[k] = d
  BY DEF Dropped
<1>4. Served = Connected /\ Connected' = Connected \ {f} /\ Served' = Served \ {f}
  BY <1>1, <1>2 DEF IInv, TypeOK, Connected, Served
<1>5. /\ fdmax' \in Fds \cup {-1}
      /\ \A g \in Connected \ {f} : g <= fdmax'
      /\ newSock # -1 => fdmax' = Max({newSock} \cup (Connected \ {f}))
      /\ f # fdmax => fdmax' = fdmax
  BY <1>1, <1>2, DropFdmax
<1>6. \A g \in Served' : /\ g \in Served /\ g # f /\ g # m_sock /\ g \in Fds
                         /\ m_connections[g] \in Clients /\ m_connections[g] # c
                         /\ m_connections'[g] = m_connections[g]
                         /\ owner'[g] = owner[g] /\ owner[g] = m_connections[g]
                         /\ sock'[m_connections[g]] = g /\ life'[m_connections[g]] = "live"
                         /\ peer'[m_connections[g]] = peer[m_connections[g]]
  <2>1. SUFFICES ASSUME NEW g \in Served'
                 PROVE  /\ g \in Served /\ g # f /\ g # m_sock /\ g \in Fds
                        /\ m_connections[g] \in Clients /\ m_connections[g] # c
                        /\ m_connections'[g] = m_connections[g]
                        /\ owner'[g] = owner[g] /\ owner[g] = m_connections[g]
                        /\ sock'[m_connections[g]] = g /\ life'[m_connections[g]] = "live"
                        /\ peer'[m_connections[g]] = peer[m_connections[g]]
    OBVIOUS
  <2>2. /\ g \in Served /\ g # f /\ g \in Fds /\ m_connections[g] \in Clients
        /\ owner[g] = m_connections[g] /\ sock[m_connections[g]] = g
        /\ life[m_connections[g]] = "live"
    BY <1>4 DEF IInv, TypeOK, ServedInv, Connected
  <2>3. m_connections[g] # c
    BY <1>2, <1>4, <2>2, Distinct
  <2>4. g # m_sock
    BY <2>2 DEF IInv, ListenInv
  <2>5. \A k \in DOMAIN queue : queue[k] # m_connections[g]
    BY <2>2 DEF IInv, WaitInv
  <2>6. peer'[m_connections[g]] = peer[m_connections[g]]
    BY <1>3, <2>2, <2>3, <2>5
  <2>7. owner'[g] = owner[g]
    BY <1>3, <2>2, <2>4
  <2>8. m_connections'[g] = m_connections[g]
    BY <1>1, <2>2 DEF IInv, TypeOK
  <2>9. sock'[m_connections[g]] = g /\ life'[m_connections[g]] = "live"
    BY <1>1, <2>2, <2>3 DEF IInv, TypeOK
  <2>10. QED
    BY <2>2, <2>3, <2>4, <2>6, <2>7, <2>8, <2>9
<1>7. TypeOK'
  <2>1. /\ m_sock' \in Fds \cup {-1} /\ fdmax' \in Fds \cup {-1} /\ i' \in 0 .. Max(Fds) + 1
        /\ queue' \in Seq(Clients)
    <3>1. m_sock' \in Fds \cup {-1}
      BY <1>1 DEF IInv, TypeOK
    <3>2. queue' \in Seq(Clients)
      <4>1. queue \in Seq(Clients) /\ <<>> \in Seq(Clients)
        BY DEF IInv, TypeOK
      <4>2. QED
        BY <1>3, <4>1
    <3>3. QED
      BY <1>2, <1>5, <3>1, <3>2
  <2>2. /\ m_connections' \in [Fds -> Clients \cup {NULL}]
        /\ rfds' \subseteq Fds /\ owner' \in [Fds -> Clients \cup {Free, Listener}]
    BY <1>1, <1>3 DEF IInv, TypeOK
  <2>3. /\ told' \in [Clients -> Nat] /\ life' \in [Clients -> {"none", "live", "deleted"}]
        /\ sock' \in [Clients -> Fds \cup {-1}] /\ stream' \in [Clients -> Seq(Items)]
    BY <1>1, <1>2 DEF IInv, TypeOK
  <2>4. QED
    BY <1>1, <1>3, <2>1, <2>2, <2>3 DEF IInv, TypeOK
<1>8. ServedInv'
  <2>1. \A g \in Served' : /\ owner'[g] = m_connections'[g] /\ sock'[m_connections'[g]] = g
                           /\ life'[m_connections'[g]] = "live"
                           /\ peer'[m_connections'[g]] \in {"open", "fin", "rst", "over"}
    BY <1>6 DEF IInv, ServedInv
  <2>2. \A g \in Fds : owner'[g] \in Clients => g \in Served'
    BY <1>3, <1>4 DEF IInv, ServedInv
  <2>3. ASSUME NEW d \in Clients, life'[d] = "live"
        PROVE  sock'[d] \in Served' /\ m_connections'[sock'[d]] = d
    <3>1. d # c /\ life[d] = "live" /\ sock'[d] = sock[d]
      BY <1>1, <1>2, <2>3 DEF IInv, TypeOK
    <3>2. sock[d] \in Served /\ m_connections[sock[d]] = d
      BY <3>1 DEF IInv, ServedInv
    <3>3. sock[d] # f
      BY <3>1, <3>2
    <3>4. sock[d] \in Served'
      BY <1>4, <3>2, <3>3
    <3>5. QED
      BY <1>6, <3>1, <3>2, <3>4
  <2>4. QED
    BY <1>1, <1>2, <2>1, <2>2, <2>3 DEF ServedInv
<1>9. ListenInv'
  <2>1. m_sock \in Fds \cup {-1} /\ -1 \notin Fds
    BY FdsFact DEF IInv, TypeOK
  <2>2. \A g \in Fds : owner'[g] = Listener <=> g = m_sock'
    BY <1>1, <1>2, <1>3, <2>1 DEF IInv, ListenInv
  <2>3. m_sock' # -1 => m_sock' = m_sock
    BY <1>1
  <2>4. m_sock' # -1 => \A g \in Fds : m_sock' <= g
    BY <2>3 DEF IInv, ListenInv
  <2>5. QED
    BY <1>1, <1>2, <2>2, <2>4 DEF ListenInv
<1>10. WaitInv'
  <2>1. CASE queue' = <<>>
    BY <1>1, <1>2, <1>3, <2>1 DEF IInv, TypeOK, WaitInv
  <2>2. CASE queue' = queue /\ queue' # <<>>
    <3>1. \A k \in DOMAIN queue : queue[k] \in Clients \ {c}
      BY <1>2 DEF IInv, TypeOK, WaitInv
    <3>2. \A d \in Clients \ {c} : peer'[d] = peer[d] /\ life'[d] = life[d]
      BY <1>1, <1>3, <2>2 DEF IInv, TypeOK
    <3>3. \A k \in DOMAIN queue' : life'[queue'[k]] = "none" /\ peer'[queue'[k]] \in {"open", "fin", "rst"}
      BY <2>2, <3>1, <3>2 DEF IInv, WaitInv
    <3>4. \A k, l \in DOMAIN queue' : queue'[k] = queue'[l] => k = l
      BY <2>2 DEF IInv, WaitInv
    <3>5. \A d \in Clients : peer'[d] = "idle" => life'[d] = "none"
      BY <1>3, <3>2 DEF IInv, WaitInv
    <3>6. QED
      BY <3>3, <3>4, <3>5 DEF WaitInv
  <2>3. QED
    BY <1>3, <2>1, <2>2
<1>11. SetInv'
  BY <1>1, <1>2, <1>4 DEF IInv, SetInv
<1>12. FdMaxCovers'
  <2>1. newSock # -1 => rfds' = {newSock} \cup (Connected \ {f})
    BY <1>1, <1>2 DEF IInv, SetInv
  <2>2. QED
    BY <1>1, <1>4, <1>5, <2>1 DEF FdMaxCovers
<1>13. PassInv'
  <2>1. ASSUME NEW g \in tmpfds, i' <= g
        PROVE  g <= fdmax'
    <3>1. g <= fdmax /\ f < g
      BY <1>2, <2>1
    <3>2. f # fdmax
      BY <3>1, FdsFact DEF IInv, TypeOK
    <3>3. QED
      BY <1>5, <3>1, <3>2
  <2>2. QED
    BY <1>1, <2>1 DEF PassInv
<1>14. VisitsAreSound'
  <2>1. ASSUME NEW g \in tmpfds, i' <= g
        PROVE  Readable(g)' /\ m_connections'[g] # NULL
    <3>1. g \in Visit /\ g # f /\ g # m_sock /\ g \in Fds
      BY <1>2, <2>1 DEF IInv, TypeOK
    <3>2. Readable(g) /\ g \in Served'
      BY <1>2, <1>4, <3>1 DEF IInv, VisitsAreSound, Connected
    <3>3. /\ owner'[g] = owner[g] /\ owner[g] \in Clients \ {c} /\ owner[g] # Listener
          /\ peer'[owner[g]] = peer[owner[g]] /\ m_connections'[g] # NULL
      BY <1>6, <3>2
    <3>4. stream'[owner[g]] = stream[owner[g]]
      BY <1>1, <3>3 DEF IInv, TypeOK
    <3>5. QED
      BY <3>2, <3>3, <3>4 DEF Readable
  <2>2. QED
    BY <1>1, <2>1 DEF VisitsAreSound, Visit
<1>15. ToldOnce'
  BY <1>1, <1>2 DEF IInv, TypeOK, ToldOnce
<1>16. QED
  BY <1>7, <1>8, <1>9, <1>10, <1>11, <1>12, <1>13, <1>14, <1>15 DEF IInv

LEMMA DataEndInv ==
  ASSUME IInv, NEW f \in Fds, DataEnd(f)
  PROVE  IInv'
<1>1. AtConnection(f) /\ i' = f + 1
  BY DEF DataEnd, Drop
<1>2. m_connections[f] \in Clients
  BY <1>1, ConnectionFacts
<1>3. m_sock \in Fds \cup {-1} /\ -1 \notin Fds
  BY FdsFact DEF IInv, TypeOK
<1>4. owner' = [d \in Fds |-> IF d = f \/ (d = m_sock /\ m_sock = -1) THEN Free ELSE owner[d]]
  BY <1>3 DEF IInv, TypeOK, DataEnd
<1>5. /\ peer' \in [Clients -> {"idle", "open", "fin", "rst", "over", "done"}]
      /\ peer'[m_connections[f]] = "done"
      /\ \A c \in Clients \ {m_connections[f]} : peer'[c] = peer[c]
  BY <1>2 DEF IInv, TypeOK, DataEnd
<1>6. Dropped(f, m_sock)
  BY <1>1, <1>4, <1>5 DEF Dropped, DataEnd
<1>7. QED
  BY <1>6, DroppedInv

LEMMA DataShutdownInv ==
  ASSUME IInv, NEW f \in Fds, DataShutdown(f)
  PROVE  IInv'
<1>1. AtConnection(f) /\ i' = f + 1
  BY DEF DataShutdown, Drop
<1>2. m_connections[f] \in Clients
  BY <1>1, ConnectionFacts
<1>3. owner' = [d \in Fds |-> IF d = f \/ (d = m_sock /\ -1 = -1) THEN Free ELSE owner[d]]
  BY DEF DataShutdown
<1>4. /\ peer' \in [Clients -> {"idle", "open", "fin", "rst", "over", "done"}]
      /\ peer'[m_connections[f]] = "done"
      /\ \A c \in Clients \ {m_connections[f]} :
           \/ peer'[c] = peer[c]
           \/ queue' = <<>> /\ peer'[c] = "done" /\ \E k \in DOMAIN queue : queue[k] = c
  BY <1>2 DEF IInv, TypeOK, DataShutdown
<1>5. Dropped(f, -1)
  BY <1>1, <1>3, <1>4 DEF Dropped, DataShutdown
<1>6. QED
  BY <1>5, DroppedInv

-----------------------------------------------------------------------------
(* The end of Run() and the destructor. *)

LEMMA CleanupOneInv ==
  ASSUME IInv, CleanupOne
  PROVE  IInv'
<1> USE ClientsAssumption DEF NULL, Free, Listener
<1> DEFINE f == Min(Remaining)
           c == m_connections[f]
<1>1. /\ pc = "cleanup" /\ Remaining # {} /\ i' = f + 1
      /\ told' = [told EXCEPT ![c] = @ + 1]
      /\ life' = [life EXCEPT ![c] = "deleted"]
      /\ sock' = [sock EXCEPT ![c] = -1]
      /\ stream' = [stream EXCEPT ![c] = <<>>]
      /\ owner' = [owner EXCEPT ![sock[c]] = Free]
      /\ peer' = [peer EXCEPT ![c] = "done"]
      /\ UNCHANGED <<pc, m_sock, m_connections, rfds, tmpfds, fdmax, tv, queue, sent>>
  BY DEF CleanupOne, Discard
<1>2. f \in Remaining /\ \A g \in Remaining : f <= g
  BY <1>1, RemainingFact
<1>3. Served = Remaining /\ f \in Fds /\ f \in Served
  BY <1>1, <1>2 DEF Served, Remaining, Connected
<1>4. /\ c \in Clients /\ owner[f] = c /\ sock[c] = f /\ life[c] = "live"
      /\ owner' = [owner EXCEPT ![f] = Free]
  <2>1. c \in Clients
    BY <1>2 DEF IInv, TypeOK, Remaining, Connected
  <2>2. owner[f] = c /\ sock[c] = f /\ life[c] = "live"
    BY <1>3 DEF IInv, ServedInv
  <2>3. QED
    BY <1>1, <2>1, <2>2
<1>5. Served' = Served \ {f}
  <2>1. Connected' = Connected /\ Connected \subseteq Fds
    BY <1>1 DEF Connected
  <2>2. \A g \in Connected : f + 1 <= g <=> i <= g /\ g # f
    <3>1. SUFFICES ASSUME NEW g \in Connected
                   PROVE  f + 1 <= g <=> i <= g /\ g # f
      OBVIOUS
    <3>2. g \in Int /\ f \in Int /\ i \in Int /\ i <= f
      BY <1>2, <1>3, <2>1, FdsFact DEF IInv, TypeOK, Remaining
    <3>3. i <= g => f <= g
      BY <1>2 DEF Remaining
    <3>4. QED
      BY <3>2, <3>3
  <2>3. QED
    BY <1>1, <1>3, <2>1, <2>2 DEF Served, Remaining
<1>6. i' \in 0 .. Max(Fds) + 1
  BY <1>1, <1>3, FdsFact
<1>7. TypeOK'
  BY <1>1, <1>3, <1>4, <1>6 DEF IInv, TypeOK
<1>8. ServedInv'
  <2>1. \A g \in Served' : /\ owner'[g] = m_connections'[g] /\ sock'[m_connections'[g]] = g
                           /\ life'[m_connections'[g]] = "live"
                           /\ peer'[m_connections'[g]] \in {"open", "fin", "rst", "over"}
    <3>1. SUFFICES ASSUME NEW g \in Served'
                   PROVE  /\ owner'[g] = m_connections'[g] /\ sock'[m_connections'[g]] = g
                          /\ life'[m_connections'[g]] = "live"
                          /\ peer'[m_connections'[g]] \in {"open", "fin", "rst", "over"}
      OBVIOUS
    <3>2. g \in Served /\ g # f /\ g \in Fds /\ m_connections[g] \in Clients
      BY <1>3, <1>5 DEF IInv, TypeOK, Remaining, Connected
    <3>3. m_connections[g] # c
      BY <1>3, <3>2, Distinct
    <3>4. QED
      BY <1>1, <1>4, <3>2, <3>3 DEF IInv, TypeOK, ServedInv
  <2>2. \A g \in Fds : owner'[g] \in Clients => g \in Served'
    BY <1>4, <1>5 DEF IInv, TypeOK, ServedInv
  <2>3. ASSUME NEW d \in Clients, life'[d] = "live"
        PROVE  sock'[d] \in Served' /\ m_connections'[sock'[d]] = d
    <3>1. d # c /\ life[d] = "live" /\ sock'[d] = sock[d]
      BY <1>1, <1>4, <2>3 DEF IInv, TypeOK
    <3>2. sock[d] \in Served /\ m_connections[sock[d]] = d
      BY <3>1 DEF IInv, ServedInv
    <3>3. QED
      BY <1>1, <1>5, <3>1, <3>2
  <2>4. QED
    BY <1>1, <2>1, <2>2, <2>3 DEF ServedInv
<1>9. ListenInv'
  BY <1>1, <1>3, <1>4 DEF IInv, TypeOK, ListenInv
<1>10. WaitInv'
  <2>1. \A k \in DOMAIN queue : queue[k] \in Clients \ {c}
    BY <1>4 DEF IInv, TypeOK, WaitInv
  <2>2. \A d \in Clients \ {c} : peer'[d] = peer[d] /\ life'[d] = life[d]
    BY <1>1 DEF IInv, TypeOK
  <2>3. peer'[c] = "done"
    BY <1>1, <1>4 DEF IInv, TypeOK
  <2>4. QED
    BY <1>1, <2>1, <2>2, <2>3 DEF IInv, WaitInv
<1>11. SetInv' /\ FdMaxCovers' /\ PassInv' /\ VisitsAreSound'
  BY <1>1 DEF SetInv, FdMaxCovers, PassInv, VisitsAreSound
<1>12. ToldOnce'
  BY <1>1, <1>4 DEF IInv, TypeOK, ToldOnce
<1>13. QED
  BY <1>7, <1>8, <1>9, <1>10, <1>11, <1>12 DEF IInv

LEMMA EndCleanupInv ==
  ASSUME IInv, EndCleanup
  PROVE  IInv'
<1>1. /\ pc = "cleanup" /\ Remaining = {} /\ pc' = "returned"
      /\ m_connections' = [f \in Fds |-> NULL]
      /\ UNCHANGED <<m_sock, rfds, tmpfds, fdmax, i, tv, connVars, kernelVars>>
  BY DEF EndCleanup
<1>2. Served = {} /\ Served' = {} /\ Connected' = {}
  BY <1>1 DEF Served, Connected
<1>3. TypeOK'
  BY <1>1 DEF IInv, TypeOK, connVars, kernelVars
<1>4. ServedInv'
  BY <1>1, <1>2 DEF IInv, ServedInv, connVars, kernelVars
<1>5. ListenInv' /\ WaitInv' /\ ToldOnce'
  BY <1>1 DEF IInv, ListenInv, WaitInv, ToldOnce, connVars, kernelVars
<1>6. SetInv' /\ FdMaxCovers' /\ PassInv' /\ VisitsAreSound'
  BY <1>1 DEF SetInv, FdMaxCovers, PassInv, VisitsAreSound
<1>7. QED
  BY <1>3, <1>4, <1>5, <1>6 DEF IInv

LEMMA DestroyInv ==
  ASSUME IInv, Destroy
  PROVE  IInv'
<1> USE ClientsAssumption DEF NULL, Free, Listener
<1>1. /\ pc = "returned" /\ pc' = "exit" /\ m_sock' = -1 /\ queue' = <<>>
      /\ owner' = [f \in Fds |-> IF f = m_sock THEN Free ELSE owner[f]]
      /\ peer' = [c \in Clients |-> IF \E k \in DOMAIN queue : queue[k] = c THEN "done" ELSE peer[c]]
      /\ UNCHANGED <<m_connections, rfds, tmpfds, fdmax, i, tv, connVars, stream, sent>>
  BY DEF Destroy
<1>2. Served = {} /\ Served' = {} /\ Connected' = {}
  BY <1>1 DEF IInv, ServedInv, Served, Connected
<1>3. TypeOK'
  BY <1>1 DEF IInv, TypeOK, connVars
<1>4. ServedInv'
  <2>1. \A f \in Fds : owner'[f] \notin Clients
    BY <1>1, <1>2 DEF IInv, ServedInv
  <2>2. \A c \in Clients : life'[c] # "live"
    BY <1>1, <1>2 DEF IInv, ServedInv, connVars
  <2>3. QED
    BY <1>2, <2>1, <2>2 DEF ServedInv
<1>5. ListenInv'
  <2>1. -1 \notin Fds
    BY FdsFact
  <2>2. QED
    BY <1>1, <2>1 DEF IInv, ListenInv
<1>6. WaitInv' /\ ToldOnce'
  BY <1>1 DEF IInv, WaitInv, ToldOnce, connVars
<1>7. SetInv' /\ FdMaxCovers' /\ PassInv' /\ VisitsAreSound'
  BY <1>1 DEF SetInv, FdMaxCovers, PassInv, VisitsAreSound
<1>8. QED
  BY <1>3, <1>4, <1>5, <1>6, <1>7 DEF IInv

-----------------------------------------------------------------------------
LEMMA StutterInv ==
  ASSUME IInv, UNCHANGED vars
  PROVE  IInv'
<1>1. UNCHANGED <<pc, m_sock, m_connections, rfds, tmpfds, fdmax, i, tv, sock, life, told, owner,
                  queue, stream, peer, sent>>
  BY DEF vars, serverVars, connVars, kernelVars
<1>2. Connected' = Connected /\ Served' = Served /\ Visit' = Visit
  BY <1>1 DEF Connected, Served, Remaining, Visit
<1>3. TypeOK' /\ ServedInv' /\ ListenInv' /\ WaitInv'
  BY <1>1, <1>2 DEF IInv, TypeOK, ServedInv, ListenInv, WaitInv
<1>4. SetInv' /\ FdMaxCovers' /\ PassInv' /\ ToldOnce'
  BY <1>1, <1>2 DEF IInv, SetInv, FdMaxCovers, PassInv, ToldOnce
<1>5. VisitsAreSound'
  BY <1>1, <1>2 DEF IInv, VisitsAreSound, Readable
<1>6. QED
  BY <1>3, <1>4, <1>5 DEF IInv

LEMMA StepInv ==
  ASSUME IInv, [Next]_vars
  PROVE  IInv'
<1>1. CASE ServerStep
  BY <1>1, CreateOKInv, SelectInv, LeaveInv, AcceptFailsInv, AcceptAdmitInv, AcceptRefuseInv, DataInv,
     DataEndInv, DataShutdownInv, CleanupOneInv, EndCleanupInv, DestroyInv DEF ServerStep
<1>2. CASE CreateFails \/ SelectFails
  BY <1>2, CreateFailsInv, LeaveInv
<1>3. CASE \E c \in Clients : ClientNext(c)
  BY <1>3, ClientInv
<1>4. CASE Stopped \/ UNCHANGED vars
  BY <1>4, StutterInv DEF Stopped
<1>5. QED
  BY <1>1, <1>2, <1>3, <1>4 DEF Next, ServerNext

(* The invariant holds in every reachable state. *)
THEOREM Invariance == Spec => []IInv
<1>1. Init => IInv
  BY InitInv
<1>2. IInv /\ [Next]_vars => IInv'
  BY StepInv
<1>3. QED
  BY <1>1, <1>2, PTL DEF Spec

(* Type correctness of the variables of CTCPServer, its connections and the
   kernel below them. *)
THEOREM TypeCorrect == Spec => []TypeOK
<1>1. IInv => TypeOK
  BY DEF IInv
<1>2. QED
  BY <1>1, Invariance, PTL

(* The fd set, the map, the connections' descriptors and the kernel's table tell
   one story whenever Run() is between two steps. *)
THEOREM TablesCorrect == Spec => []TablesAgree
<1>1. IInv => TablesAgree
  <2>1. SUFFICES ASSUME IInv, pc \in {"select", "for"}
                 PROVE  /\ m_sock # -1 => rfds = {m_sock} \cup Connected /\ owner[m_sock] = Listener
                        /\ Connected \subseteq rfds
                        /\ Connected = { f \in Fds : owner[f] \in Clients }
                        /\ \A f \in Connected : /\ owner[f] = m_connections[f]
                                                /\ sock[m_connections[f]] = f
                                                /\ life[m_connections[f]] = "live"
                        /\ \A c \in Clients : life[c] = "live" => \E f \in Connected : m_connections[f] = c
    BY DEF TablesAgree
  <2>2. Served = Connected /\ Connected \subseteq Fds
    BY <2>1 DEF Served, Connected
  <2>3. m_sock # -1 => rfds = {m_sock} \cup Connected /\ owner[m_sock] = Listener
    BY <2>1 DEF IInv, TypeOK, SetInv, ListenInv
  <2>4. Connected \subseteq rfds
    BY <2>1 DEF IInv, SetInv
  <2>5. \A f \in Connected : m_connections[f] \in Clients
    BY <2>1 DEF IInv, TypeOK, Connected
  <2>6. QED
    BY <2>1, <2>2, <2>3, <2>4, <2>5 DEF IInv, ServedInv
<1>2. QED
  BY <1>1, Invariance, PTL

(* fdmax is the largest descriptor of the set, whatever has joined and left. *)
THEOREM FdMaxCorrect == Spec => []FdMaxCovers
<1>1. IInv => FdMaxCovers
  BY DEF IInv
<1>2. QED
  BY <1>1, Invariance, PTL

(* No visit of the for loop blocks in accept() or recv() or meets a descriptor
   that the map does not know. *)
THEOREM VisitsNeverBlock == Spec => []VisitsAreSound
<1>1. IInv => VisitsAreSound
  BY DEF IInv
<1>2. QED
  BY <1>1, Invariance, PTL

(* OnDisconnect() comes exactly once for every connection that is deleted. *)
THEOREM DisconnectOnce == Spec => []ToldOnce
<1>1. IInv => ToldOnce
  BY DEF IInv
<1>2. QED
  BY <1>1, Invariance, PTL

(* After the destructor no descriptor is open and no connection is left. *)
THEOREM ExitClean == Spec => []NothingLeft
<1>1. IInv => NothingLeft
  <2>1. SUFFICES ASSUME IInv, pc = "exit"
                 PROVE  /\ \A f \in Fds : owner[f] = Free
                        /\ \A c \in Clients : life[c] # "live"
                        /\ Connected = {}
    BY DEF NothingLeft
  <2>2. Connected = {} /\ Served = {} /\ m_sock = -1
    BY <2>1 DEF IInv, ServedInv, ListenInv, Served
  <2>3. \A f \in Fds : owner[f] \notin Clients /\ owner[f] # Listener
    BY <2>1, <2>2, FdsFact DEF IInv, ServedInv, ListenInv
  <2>4. QED
    BY <2>1, <2>2, <2>3 DEF IInv, TypeOK, ServedInv
<1>2. QED
  BY <1>1, Invariance, PTL

-----------------------------------------------------------------------------
(* Every step of the server is a step of the contract or leaves it alone. *)

LiveOnes == { c \in Clients : life[c] = "live" }
ToldOnes == { c \in Clients : told[c] > 0 }
Running == pc \notin {"returned", "exit", "abort"}

LEMMA ContractStutter ==
  ASSUME UNCHANGED connVars, Running' = Running
  PROVE  [Contract!Next]_(Contract!contractVars)
BY DEF connVars, Running, Contract!contractVars

(* Who is not yet disconnected was not told. *)
LEMMA NotTold ==
  ASSUME IInv, NEW c \in Clients
  PROVE  c \in ToldOnes <=> life[c] = "deleted"
BY DEF IInv, ToldOnce, ToldOnes

LEMMA ContractDisconnect ==
  ASSUME IInv, IInv', NEW c \in Clients, life[c] = "live",
         life' = [life EXCEPT ![c] = "deleted"],
         told' = [told EXCEPT ![c] = @ + 1],
         Running, Running'
  PROVE  Contract!Next
<1>1. LiveOnes' = LiveOnes \ {c} /\ c \in LiveOnes
  BY DEF IInv, TypeOK, LiveOnes
<1>2. ToldOnes' = ToldOnes \cup {c}
  BY DEF IInv, TypeOK, ToldOnes
<1>3. Contract!Disconnect(c)
  BY <1>1, <1>2 DEF Contract!Disconnect, LiveOnes, ToldOnes, Running
<1>4. QED
  BY <1>3 DEF Contract!Next

LEMMA ContractAdmit ==
  ASSUME IInv, NEW c \in Clients, life[c] = "none", life' = [life EXCEPT ![c] = "live"],
         UNCHANGED told, Running, Running'
  PROVE  Contract!Next
<1>1. LiveOnes' = LiveOnes \cup {c} /\ c \notin LiveOnes
  BY DEF IInv, TypeOK, LiveOnes
<1>2. ToldOnes' = ToldOnes /\ c \notin ToldOnes
  BY NotTold DEF ToldOnes
<1>3. Contract!Admit(c)
  BY <1>1, <1>2 DEF Contract!Admit, Contract!Fresh, LiveOnes, ToldOnes, Running
<1>4. QED
  BY <1>3 DEF Contract!Next

LEMMA ContractRefuse ==
  ASSUME IInv, NEW c \in Clients, life[c] = "none", life' = [life EXCEPT ![c] = "deleted"],
         told' = [told EXCEPT ![c] = @ + 1], Running, Running'
  PROVE  Contract!Next
<1>1. LiveOnes' = LiveOnes /\ c \notin LiveOnes
  BY DEF IInv, TypeOK, LiveOnes
<1>2. ToldOnes' = ToldOnes \cup {c} /\ c \notin ToldOnes
  BY NotTold DEF IInv, TypeOK, ToldOnes
<1>3. Contract!Refuse(c)
  BY <1>1, <1>2 DEF Contract!Refuse, Contract!Fresh, LiveOnes, ToldOnes, Running
<1>4. QED
  BY <1>3 DEF Contract!Next

LEMMA ContractStep ==
  ASSUME IInv, IInv', [Next]_vars
  PROVE  [Contract!Next]_(Contract!contractVars)
<1>1. CASE AcceptAdmit
  <2>1. queue # <<>> /\ queue' = Tail(queue) /\ pc = "for" /\ UNCHANGED <<pc, told>>
        /\ life' = [life EXCEPT ![Head(queue)] = "live"]
    BY <1>1 DEF AcceptAdmit, AtListener
  <2>2. Head(queue) \in Clients /\ life[Head(queue)] = "none"
    BY <2>1, QueueFacts
  <2>3. QED
    BY <2>1, <2>2, ContractAdmit DEF Running
<1>2. CASE AcceptRefuse
  <2>1. queue # <<>> /\ queue' = Tail(queue) /\ pc = "for" /\ UNCHANGED pc
        /\ life' = [life EXCEPT ![Head(queue)] = "deleted"]
        /\ told' = [told EXCEPT ![Head(queue)] = @ + 1]
    BY <1>2 DEF AcceptRefuse, AtListener
  <2>2. Head(queue) \in Clients /\ life[Head(queue)] = "none"
    BY <2>1, QueueFacts
  <2>3. QED
    BY <2>1, <2>2, ContractRefuse DEF Running
<1>3. ASSUME NEW f \in Fds, DataEnd(f) \/ DataShutdown(f)
      PROVE  [Contract!Next]_(Contract!contractVars)
  <2> DEFINE c == m_connections[f]
  <2>1. /\ AtConnection(f) /\ i' = f + 1 /\ UNCHANGED pc
        /\ life' = [life EXCEPT ![c] = "deleted"] /\ told' = [told EXCEPT ![c] = @ + 1]
    BY <1>3 DEF DataEnd, DataShutdown, Drop, Discard
  <2>2. c \in Clients /\ life[c] = "live" /\ pc = "for"
    BY <2>1, ConnectionFacts
  <2>3. QED
    BY <2>1, <2>2, ContractDisconnect DEF Running
<1>4. CASE CleanupOne
  <2> DEFINE f == Min(Remaining)
             c == m_connections[f]
  <2>1. /\ pc = "cleanup" /\ UNCHANGED pc /\ Remaining # {}
        /\ life' = [life EXCEPT ![c] = "deleted"] /\ told' = [told EXCEPT ![c] = @ + 1]
    BY <1>4 DEF CleanupOne, Discard
  <2>2. f \in Remaining
    BY <2>1, RemainingFact
  <2>3. c \in Clients /\ life[c] = "live"
    BY <2>1, <2>2 DEF IInv, TypeOK, ServedInv, Served, Remaining, Connected
  <2>4. QED
    BY <2>1, <2>3, ContractDisconnect DEF Running
<1>5. CASE EndCleanup \/ CreateFails
  <2>1. UNCHANGED connVars /\ pc \in {"create", "cleanup"} /\ pc' \in {"returned", "cleanup", "abort"}
    BY <1>5 DEF EndCleanup, CreateFails
  <2>2. CASE pc' = "cleanup"
    BY <2>1, <2>2, ContractStutter DEF Running
  <2>3. CASE pc' # "cleanup"
    <3>1. Served' = Connected' /\ Connected' = {}
      BY <2>1, <2>3 DEF IInv, ServedInv, Served
    <3>2. \A c \in Clients : life'[c] # "live"
      BY <3>1 DEF IInv, ServedInv
    <3>3. LiveOnes = {} /\ LiveOnes' = LiveOnes /\ ToldOnes' = ToldOnes
      BY <2>1, <3>2 DEF LiveOnes, ToldOnes, connVars
    <3>4. Contract!Return
      BY <2>1, <2>3, <3>3 DEF Contract!Return, LiveOnes, ToldOnes
    <3>5. QED
      BY <3>4 DEF Contract!Next
  <2>4. QED
    BY <2>2, <2>3
<1>6. CASE \/ CreateOK \/ Select \/ SelectTimeout \/ SelectFails \/ EndFor \/ AcceptFails
           \/ \E f \in Fds : Data(f)
  <2>1. UNCHANGED connVars
    BY <1>6 DEF CreateOK, Select, SelectTimeout, SelectFails, EndFor, AcceptFails, Data
  <2>2. pc \in {"create", "select", "for"} /\ pc' \in {"select", "for", "cleanup"}
    BY <1>6 DEF CreateOK, Select, SelectTimeout, SelectFails, EndFor, AcceptFails, AtListener, Data,
                AtConnection
  <2>3. QED
    BY <2>1, <2>2, ContractStutter DEF Running
<1>7. CASE Destroy
  BY <1>7, ContractStutter DEF Destroy, Running
<1>8. CASE \E c \in Clients : ClientNext(c)
  <2>1. UNCHANGED connVars /\ UNCHANGED pc
    BY <1>8, ClientFacts DEF IInv, serverVars
  <2>2. QED
    BY <2>1, ContractStutter DEF Running
<1>9. CASE Stopped \/ UNCHANGED vars
  <2>1. UNCHANGED connVars /\ UNCHANGED pc
    BY <1>9 DEF Stopped, vars, serverVars
  <2>2. QED
    BY <2>1, ContractStutter DEF Running
<1>10. QED
  BY <1>1, <1>2, <1>3, <1>4, <1>5, <1>6, <1>7, <1>8, <1>9 DEF Next, ServerNext, ServerStep

(* The server keeps the contract with its listener: every connection is shown
   once, served from a true answer on, and disconnected once before Run() returns. *)
THEOREM ContractKept == Spec => ImplementsContract
<1>1. Init => Contract!Init
  BY DEF Init, Contract!Init
<1>2. IInv /\ IInv' /\ [Next]_vars => [Contract!Next]_(Contract!contractVars)
  BY ContractStep
<1>3. QED
  BY <1>1, <1>2, Invariance, PTL DEF Spec, ImplementsContract, Contract!Spec

=============================================================================
