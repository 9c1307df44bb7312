-------------------------- MODULE SockSelectProofs --------------------------
(***************************************************************************)
(* Proofs about sock_select.c for any set of descriptors, any number of     *)
(* clients and any backlog.                                                *)
(***************************************************************************)
EXTENDS SockSelect, FiniteSetTheorems, SequenceTheorems, WellFoundedInduction, TLAPS

(* A descriptor is the listener or one client's connection, each at most once. *)
OpenInv ==
  /\ pc = "start" => \A f \in Fds : owner[f] = Free
  /\ pc \in {"select", "for"} => listener \in Fds /\ owner[listener] = Listener
  /\ \A f, g \in Fds : owner[f] = owner[g] /\ owner[f] # Free => f = g

(* Who waits for accept() waits once, is known to the kernel and has no descriptor. *)
WaitInv ==
  /\ \A k, l \in DOMAIN queue : queue[k] = queue[l] => k = l
  /\ \A k \in DOMAIN queue : peer[queue[k]] # "idle" /\ \A f \in Fds : owner[f] # queue[k]
  /\ \A f \in Fds : owner[f] \in Clients => peer[owner[f]] # "idle"

IInv == TypeOK /\ OpenInv /\ WaitInv /\ MasterIsOpen /\ VisitsAreReady

-----------------------------------------------------------------------------
(* The least element of a finite set of integers, and the larger of two. *)

LEMMA MinFact ==
  ASSUME NEW S \in SUBSET Int, S # {}, IsFiniteSet(S)
  PROVE  Min(S) \in S /\ \A x \in S : Min(S) <= x
<1> DEFINE HasMin(T) == \E x \in T : \A y \in T : x =< y
           Bad == { T \in SUBSET S : T # {} /\ ~ HasMin(T) }
<1>1. SUFFICES ASSUME Bad # {} PROVE FALSE
  BY DEF Min
<1>2. Bad \subseteq FiniteSubsetsOf(S)
  BY FS_Subset DEF FiniteSubsetsOf
<1>3. PICK T \in Bad : \A U \in Bad : ~ (<<U, T>> \in StrictSubsetOrdering(S))
  <2>1. IsWellFoundedOn(StrictSubsetOrdering(S), FiniteSubsetsOf(S))
    BY FS_StrictSubsetOrderingWellFounded
  <2>2. QED
    BY <1>1, <1>2, <2>1, WFMin, Zenon
<1>4. PICK x \in T : TRUE
  OBVIOUS
<1>5. T \ {x} \notin Bad
  BY <1>3, <1>4 DEF StrictSubsetOrdering
<1>6. CASE T \ {x} = {}
  BY <1>4, <1>6
<1>7. CASE HasMin(T \ {x})
  <2>1. PICK m \in T \ {x} : \A y \in T \ {x} : m =< y
    BY <1>7
  <2>2. CASE m =< x
    BY <2>1, <2>2
  <2>3. CASE x =< m
    BY <1>4, <2>1, <2>3
  <2>4. QED
    BY <1>4, <2>1, <2>2, <2>3
<1>8. QED
  BY <1>5, <1>6, <1>7

(* A set has one largest element. *)
LEMMA MaxIs ==
  ASSUME NEW S \in SUBSET Int, NEW m \in S, \A x \in S : x <= m
  PROVE  Max(S) = m
<1>1. \E x \in S : \A y \in S : x >= y
  OBVIOUS
<1>2. Max(S) \in S /\ m <= Max(S)
  BY <1>1 DEF Max
<1>3. Max(S) \in Int /\ m \in Int
  BY <1>2
<1>4. QED
  BY <1>2, <1>3

LEMMA MaxOfTwo ==
  ASSUME NEW a \in Int, NEW b \in Int
  PROVE  Max({a, b}) \in {a, b} /\ a <= Max({a, b}) /\ b <= Max({a, b})
<1>1. CASE a <= b
  BY <1>1, MaxIs
<1>2. CASE b <= a
  BY <1>2, MaxIs
<1>3. QED
  BY <1>1, <1>2

LEMMA SomeFds ==
  ASSUME NEW S, S \subseteq Fds
  PROVE  S \in SUBSET Int /\ IsFiniteSet(S)
<1>1. \A x \in S : x \in Int
  BY FdsAssumption
<1>2. IsFiniteSet(S)
  BY FdsAssumption, FS_Subset
<1>3. QED
  BY <1>1, <1>2

LEMMA FreeFact ==
  ASSUME NEW g \in Fds, owner[g] = Free
  PROVE  /\ LowestFree \in Fds
         /\ owner[LowestFree] = Free
         /\ \A f \in Fds : owner[f] = Free => LowestFree <= f
<1> DEFINE F == { f \in Fds : owner[f] = Free }
<1>1. F \subseteq Fds /\ F # {}
  OBVIOUS
<1>2. F \in SUBSET Int /\ IsFiniteSet(F)
  BY <1>1, SomeFds
<1>3. QED
  BY <1>1, <1>2, MinFact DEF LowestFree

LEMMA InitInv == Init => IInv
<1> SUFFICES ASSUME Init PROVE IInv
  OBVIOUS
<1> USE ClientsAssumption DEF Init, Free, Listener
<1>1. TypeOK
  BY DEF TypeOK
<1>2. OpenInv /\ WaitInv
  BY DEF OpenInv, WaitInv
<1>3. MasterIsOpen /\ VisitsAreReady
  BY DEF MasterIsOpen, VisitsAreReady
<1>4. QED
  BY <1>1, <1>2, <1>3 DEF IInv

-----------------------------------------------------------------------------
(* The clients. *)

LEMMA ConnectInv ==
  ASSUME IInv, NEW c \in Clients, Connect(c)
  PROVE  IInv'
<1> USE ClientsAssumption DEF Free, Listener
<1>1. /\ peer[c] = "idle" /\ queue' = Append(queue, c) /\ peer' = [peer EXCEPT ![c] = "open"]
      /\ UNCHANGED <<pc, listener, master, read_fds, fdmax, ret, i, tv_sec, owner, unread>>
  BY DEF Connect, serverVars
<1>2. /\ queue' \in Seq(Clients) /\ Len(queue) \in Nat /\ DOMAIN queue = 1 .. Len(queue)
      /\ DOMAIN queue' = 1 .. Len(queue) + 1 /\ queue'[Len(queue) + 1] = c
      /\ \A k \in 1 .. Len(queue) : queue'[k] = queue[k] /\ queue[k] \in Clients
  BY <1>1, AppendProperties DEF IInv, TypeOK
<1>3. peer' \in [Clients -> {"idle", "open", "fin", "done"}]
  BY <1>1 DEF IInv, TypeOK
<1>4. TypeOK'
  BY <1>1, <1>2, <1>3 DEF IInv, TypeOK
<1>5. OpenInv' /\ MasterIsOpen'
  BY <1>1 DEF IInv, OpenInv, MasterIsOpen
<1>6. WaitInv'
  <2>1. \A k \in 1 .. Len(queue) : queue[k] # c
    BY <1>1, <1>2 DEF IInv, WaitInv
  <2>2. \A k, l \in DOMAIN queue' : queue'[k] = queue'[l] => k = l
    BY <1>2, <2>1 DEF IInv, WaitInv
  <2>3. peer'[c] = "open" /\ \A d \in Clients : peer'[d] # "idle" \/ peer'[d] = peer[d]
    BY <1>1 DEF IInv, TypeOK
  <2>4. \A f \in Fds : owner[f] # c
    BY <1>1 DEF IInv, WaitInv
  <2>5. ASSUME NEW k \in DOMAIN queue'
        PROVE  peer'[queue'[k]] # "idle" /\ \A f \in Fds : owner'[f] # queue'[k]
    <3>1. CASE k = Len(queue) + 1
      BY <1>1, <1>2, <2>3, <2>4, <3>1
    <3>2. CASE k \in 1 .. Len(queue)
      BY <1>1, <1>2, <2>3, <3>2 DEF IInv, WaitInv
    <3>3. QED
      BY <1>2, <3>1, <3>2
  <2>6. \A f \in Fds : owner'[f] \in Clients => peer'[owner'[f]] # "idle"
    BY <1>1, <2>3 DEF IInv, WaitInv
  <2>7. QED
    BY <2>2, <2>5, <2>6 DEF WaitInv
<1>7. VisitsAreReady'
  <2>1. queue' # <<>>
    BY <1>2
  <2>2. \A f \in Fds : Readable(f) => Readable(f)'
    BY <1>1, <2>1 DEF IInv, TypeOK, WaitInv, Readable
  <2>3. QED
    BY <1>1, <2>2 DEF IInv, TypeOK, VisitsAreReady, Visit
<1>8. QED
  BY <1>4, <1>5, <1>6, <1>7 DEF IInv

LEMMA SendInv ==
  ASSUME IInv, NEW c \in Clients, Send(c)
  PROVE  IInv'
<1>1. /\ unread' = unread \cup {c}
      /\ UNCHANGED <<pc, listener, master, read_fds, fdmax, ret, i, tv_sec, owner, queue, peer>>
  BY DEF Send, serverVars
<1>2. TypeOK' /\ OpenInv' /\ WaitInv' /\ MasterIsOpen'
  BY <1>1 DEF IInv, TypeOK, OpenInv, WaitInv, MasterIsOpen
<1>3. \A f \in Fds : Readable(f) => Readable(f)'
  BY <1>1 DEF Readable
<1>4. QED
  BY <1>1, <1>2, <1>3 DEF IInv, TypeOK, VisitsAreReady, Visit

(* What a reset takes away leaves recv() with an answer all the same. *)
LEMMA LeaveInv ==
  ASSUME IInv, NEW c \in Clients, Leave(c)
  PROVE  IInv'
<1>1. /\ peer[c] = "open" /\ peer' = [peer EXCEPT ![c] = "fin"] /\ unread' \in {unread, unread \ {c}}
      /\ UNCHANGED <<pc, listener, master, read_fds, fdmax, ret, i, tv_sec, owner, queue>>
  BY DEF Leave, serverVars
<1>2. /\ peer' \in [Clients -> {"idle", "open", "fin", "done"}] /\ peer'[c] = "fin"
      /\ \A d \in Clients \ {c} : peer'[d] = peer[d]
  BY <1>1 DEF IInv, TypeOK
<1>3. TypeOK' /\ OpenInv' /\ MasterIsOpen'
  BY <1>1, <1>2 DEF IInv, TypeOK, OpenInv, MasterIsOpen
<1>4. WaitInv'
  <2>1. \A k \in DOMAIN queue : queue[k] \in Clients
    BY DEF IInv, TypeOK
  <2>2. QED
    BY <1>1, <1>2, <2>1 DEF IInv, WaitInv
<1>5. \A f \in Fds : Readable(f) => Readable(f)'
  BY <1>1, <1>2 DEF Readable
<1>6. QED
  BY <1>1, <1>3, <1>4, <1>5 DEF IInv, TypeOK, VisitsAreReady, Visit

-----------------------------------------------------------------------------
(* The server before and between its passes. *)

LEMMA StartInv ==
  ASSUME IInv, Start
  PROVE  IInv'
<1> USE ClientsAssumption DEF Free, Listener
<1>1. /\ pc = "start" /\ pc' = "select" /\ listener' = LowestFree
      /\ owner' = [owner EXCEPT ![LowestFree] = Listener]
      /\ master' = {LowestFree} /\ fdmax' = LowestFree
      /\ UNCHANGED <<read_fds, ret, i, tv_sec, queue, unread, peer>>
  BY DEF Start
<1>2. \A f \in Fds : owner[f] = Free
  BY <1>1 DEF IInv, OpenInv
<1>3. LowestFree \in Fds /\ LowestFree \in Int
  <2>1. PICK g \in Fds : TRUE
    BY FdsAssumption
  <2>2. LowestFree \in Fds
    BY <1>2, <2>1, FreeFact
  <2>3. QED
    BY <2>2, FdsAssumption
<1> HIDE DEF Free, Listener
<1>4. /\ owner' \in [Fds -> Clients \cup {Free, Listener}] /\ owner'[LowestFree] = Listener
      /\ \A f \in Fds \ {LowestFree} : owner'[f] = Free
  BY <1>1, <1>2, <1>3 DEF IInv, TypeOK
<1>5. TypeOK'
  BY <1>1, <1>3, <1>4 DEF IInv, TypeOK
<1>6. Free # Listener /\ Free \notin Clients /\ Listener \notin Clients
  BY DEF Free, Listener
<1>7. OpenInv'
  BY <1>1, <1>3, <1>4, <1>6 DEF OpenInv
<1>8. WaitInv'
  <2>1. \A k \in DOMAIN queue : queue[k] \in Clients
    BY DEF IInv, TypeOK
  <2>2. \A g \in Fds : owner'[g] \notin Clients
    BY <1>4, <1>6
  <2>3. QED
    BY <1>1, <2>1, <2>2 DEF IInv, WaitInv
<1>9. MasterIsOpen'
  <2>1. master' = { f \in Fds : owner'[f] # Free }
    BY <1>1, <1>3, <1>4, <1>6
  <2>2. /\ \A f \in master' : f <= fdmax'
        /\ \A f, g \in master' : owner'[f] = owner'[g] => f = g
    BY <1>1, <1>3
  <2>3. QED
    BY <2>1, <2>2 DEF MasterIsOpen
<1>10. VisitsAreReady'
  BY <1>1 DEF VisitsAreReady
<1>11. QED
  BY <1>5, <1>7, <1>8, <1>9, <1>10 DEF IInv

LEMMA SelectInv ==
  ASSUME IInv, Select
  PROVE  IInv'
<1>1. /\ pc = "select" /\ pc' = "for" /\ i' = 0 /\ ret' = Cardinality(read_fds')
      /\ read_fds' = { f \in Watched : Readable(f) } /\ tv_sec' \in 0 .. tv_sec
      /\ UNCHANGED <<listener, master, fdmax, owner, queue, unread, peer>>
  BY DEF Select, kernelVars
<1>2. read_fds' \subseteq Fds
  BY <1>1 DEF IInv, TypeOK, Watched
<1>3. ret' \in Nat
  BY <1>1, <1>2, SomeFds, FS_CardinalityType
<1>4. tv_sec' \in 0 .. 2
  BY <1>1 DEF IInv, TypeOK
<1>5. TypeOK'
  BY <1>1, <1>2, <1>3, <1>4 DEF IInv, TypeOK
<1>6. OpenInv' /\ WaitInv' /\ MasterIsOpen'
  BY <1>1 DEF IInv, OpenInv, WaitInv, MasterIsOpen
<1>7. VisitsAreReady'
  BY <1>1 DEF VisitsAreReady, Visit, Readable
<1>8. QED
  BY <1>5, <1>6, <1>7 DEF IInv

LEMMA OtherInv ==
  ASSUME IInv, StartFails \/ SelectTimeout \/ SelectFails \/ EndFor
  PROVE  IInv'
<1>1. /\ UNCHANGED <<listener, master, fdmax, i, owner, queue, unread, peer>>
      /\ read_fds' \in {read_fds, {}} /\ ret' \in {ret, 0} /\ tv_sec' \in {tv_sec, 2}
      /\ pc' \in {"select", "exit"} /\ (pc' = "select" => pc \in {"select", "for"})
  BY DEF StartFails, SelectTimeout, SelectFails, EndFor, kernelVars
<1>2. TypeOK'
  BY <1>1 DEF IInv, TypeOK
<1>3. OpenInv' /\ WaitInv' /\ MasterIsOpen' /\ VisitsAreReady'
  BY <1>1 DEF IInv, OpenInv, WaitInv, MasterIsOpen, VisitsAreReady
<1>4. QED
  BY <1>2, <1>3 DEF IInv

-----------------------------------------------------------------------------
(* The iterations of the for loop. *)

LEMMA HandleFacts ==
  ASSUME IInv, NEW f \in Fds, Handle(f)
  PROVE  /\ pc = "for" /\ f \in Visit /\ Readable(f) /\ i' = f + 1 /\ i' \in Nat
         /\ read_fds' = read_fds /\ ret' = ret => \A g \in Visit' : g \in Visit /\ g # f
<1>1. pc = "for" /\ Visit # {} /\ f = Min(Visit) /\ i' = f + 1 /\ f \in Nat
  BY FdsAssumption DEF Handle
<1>2. Visit \subseteq Fds
  BY DEF IInv, TypeOK, Visit
<1>3. f \in Visit
  BY <1>1, <1>2, SomeFds, MinFact
<1>4. Readable(f)
  BY <1>1, <1>3 DEF IInv, VisitsAreReady
<1>5. ASSUME read_fds' = read_fds, ret' = ret, NEW g \in Visit'
      PROVE  g \in Visit /\ g # f
  <2>1. g \in read_fds /\ g \in Int /\ f + 1 <= g /\ g <= ret /\ i <= f /\ i \in Nat
    BY <1>1, <1>3, <1>5, FdsAssumption DEF IInv, TypeOK, Visit
  <2>2. QED
    BY <1>1, <2>1 DEF Visit
<1>6. QED
  BY <1>1, <1>3, <1>4, <1>5

LEMMA AcceptFailsInv ==
  ASSUME IInv, NEW f \in Fds, AcceptFails(f)
  PROVE  IInv'
<1>1. /\ Handle(f)
      /\ UNCHANGED <<pc, listener, master, read_fds, fdmax, ret, tv_sec, owner, queue, unread, peer>>
  BY DEF AcceptFails, kernelVars
<1>2. i' \in Nat /\ pc = "for" /\ \A g \in Visit' : g \in Visit
  BY <1>1, HandleFacts
<1>3. TypeOK' /\ OpenInv' /\ WaitInv' /\ MasterIsOpen'
  BY <1>1, <1>2 DEF IInv, TypeOK, OpenInv, WaitInv, MasterIsOpen
<1>4. VisitsAreReady'
  BY <1>1, <1>2 DEF IInv, VisitsAreReady, Readable
<1>5. QED
  BY <1>3, <1>4 DEF IInv

(* The new connection gets a descriptor that is in no one's way: it was free, so the
   pass does not visit it. *)
LEMMA AcceptInv ==
  ASSUME IInv, NEW f \in Fds, Accept(f)
  PROVE  IInv'
<1> DEFINE n == LowestFree
           c == Head(queue)
<1>1. /\ Handle(f) /\ f = listener /\ queue # <<>> /\ queue' = Tail(queue)
      /\ owner' = [owner EXCEPT ![n] = c] /\ master' = master \cup {n} /\ fdmax' = Max({fdmax, n})
      /\ UNCHANGED <<pc, listener, read_fds, ret, tv_sec, unread, peer>>
      /\ \E d \in Fds : owner[d] = Free
  BY DEF Accept
<1>2. n \in Fds /\ owner[n] = Free /\ n \in Int
  BY <1>1, FreeFact, FdsAssumption
<1>3. pc = "for" /\ i' \in Nat /\ \A g \in Visit' : g \in Visit /\ g # f
  BY <1>1, HandleFacts
<1>4. /\ c \in Clients /\ queue' \in Seq(Clients) /\ Len(queue) \in Nat \ {0} /\ queue[1] = c
      /\ DOMAIN queue = 1 .. Len(queue) /\ DOMAIN queue' = 1 .. Len(queue) - 1
      /\ \A k \in 1 .. Len(queue) - 1 : queue'[k] = queue[k + 1]
  BY <1>1, HeadTailProperties DEF IInv, TypeOK
<1>5. Free # Listener /\ Free \notin Clients /\ Listener \notin Clients
  BY ClientsAssumption DEF Free, Listener
<1>6. peer[c] # "idle" /\ \A g \in Fds : owner[g] # c
  BY <1>4 DEF IInv, WaitInv
<1> HIDE DEF n, c
<1>7. /\ owner' \in [Fds -> Clients \cup {Free, Listener}] /\ owner'[n] = c
      /\ \A g \in Fds \ {n} : owner'[g] = owner[g]
  BY <1>1, <1>2, <1>4 DEF IInv, TypeOK
<1>8. fdmax \in Int /\ fdmax' \in Fds /\ fdmax <= fdmax' /\ n <= fdmax'
  <2>1. listener \in master /\ fdmax \in Int /\ listener <= fdmax
    <3>1. listener \in Fds /\ owner[listener] # Free
      BY <1>3, <1>5 DEF IInv, OpenInv
    <3>2. fdmax \in Fds \cup {-1} /\ \A g \in Fds : g \in Int
      BY FdsAssumption DEF IInv, TypeOK
    <3>3. QED
      BY <1>3, <3>1, <3>2 DEF IInv, MasterIsOpen
  <2>2. listener \in Nat
    BY <1>1, FdsAssumption
  <2>3. fdmax \in Fds
    BY <2>1, <2>2 DEF IInv, TypeOK
  <2>4. Max({fdmax, n}) \in {fdmax, n} /\ fdmax <= Max({fdmax, n}) /\ n <= Max({fdmax, n})
    BY <1>2, <2>1, MaxOfTwo
  <2>5. QED
    BY <1>1, <1>2, <2>1, <2>3, <2>4
<1>9. TypeOK'
  BY <1>1, <1>2, <1>3, <1>4, <1>7, <1>8 DEF IInv, TypeOK
<1>10. OpenInv'
  <2>1. \A g, h \in Fds : owner'[g] = owner'[h] /\ owner'[g] # Free => g = h
    BY <1>6, <1>7 DEF IInv, OpenInv
  <2>2. listener \in Fds /\ owner[listener] = Listener /\ listener # n
    BY <1>2, <1>3, <1>5 DEF IInv, OpenInv
  <2>3. QED
    BY <1>1, <1>3, <1>7, <2>1, <2>2 DEF OpenInv
<1>11. WaitInv'
  <2>1. ASSUME NEW k \in DOMAIN queue'
        PROVE  k + 1 \in DOMAIN queue /\ queue'[k] = queue[k + 1] /\ queue[k + 1] # c /\ k \in Int
    BY <1>4 DEF IInv, WaitInv
  <2>2. ASSUME NEW k \in DOMAIN queue', NEW l \in DOMAIN queue', queue'[k] = queue'[l]
        PROVE  k = l
    <3>1. k + 1 = l + 1
      BY <2>1, <2>2 DEF IInv, WaitInv
    <3>2. QED
      BY <2>1, <3>1
  <2>3. \A k \in DOMAIN queue' : peer'[queue'[k]] # "idle" /\ \A g \in Fds : owner'[g] # queue'[k]
    BY <1>1, <1>7, <2>1 DEF IInv, WaitInv
  <2>4. \A g \in Fds : owner'[g] \in Clients => peer'[owner'[g]] # "idle"
    BY <1>1, <1>6, <1>7 DEF IInv, WaitInv
  <2>5. QED
    BY <2>2, <2>3, <2>4 DEF WaitInv
<1>12. MasterIsOpen'
  <2>1. master = { g \in Fds : owner[g] # Free } /\ \A g \in master : g <= fdmax
    BY <1>3 DEF IInv, MasterIsOpen
  <2>2. master' = { g \in Fds : owner'[g] # Free }
    BY <1>1, <1>2, <1>4, <1>5, <1>7, <2>1
  <2>3. \A g \in master' : g <= fdmax'
    <3>1. \A g \in master : g \in Int
      BY <2>1, FdsAssumption
    <3>2. fdmax' \in Int
      BY <1>8, FdsAssumption
    <3>3. QED
      BY <1>1, <1>8, <2>1, <3>1, <3>2
  <2>4. \A g, h \in master' : owner'[g] = owner'[h] => g = h
    BY <1>10, <2>2 DEF OpenInv
  <2>5. QED
    BY <2>2, <2>3, <2>4 DEF MasterIsOpen
<1>13. VisitsAreReady'
  <2>1. ASSUME NEW g \in Visit'
        PROVE  Readable(g)'
    <3>1. g \in Visit /\ g # f /\ g \in Fds /\ Readable(g)
      BY <1>3 DEF IInv, TypeOK, VisitsAreReady, Visit
    <3>2. owner[g] # Free /\ owner[g] # Listener /\ g # n
      BY <1>1, <1>2, <1>3, <1>5, <3>1 DEF IInv, OpenInv, Readable
    <3>3. QED
      BY <1>1, <1>7, <3>1, <3>2 DEF Readable
  <2>2. QED
    BY <2>1 DEF VisitsAreReady
<1>14. QED
  BY <1>9, <1>10, <1>11, <1>12, <1>13 DEF IInv

LEMMA ReceiveInv ==
  ASSUME IInv, NEW f \in Fds, Receive(f)
  PROVE  IInv'
<1>1. /\ Handle(f) /\ owner[f] \in unread /\ unread' = unread \ {owner[f]}
      /\ UNCHANGED <<pc, listener, master, read_fds, fdmax, ret, tv_sec, owner, queue, peer>>
  BY DEF Receive
<1>2. pc = "for" /\ i' \in Nat /\ \A g \in Visit' : g \in Visit /\ g # f
  BY <1>1, HandleFacts
<1>3. TypeOK' /\ OpenInv' /\ WaitInv' /\ MasterIsOpen'
  BY <1>1, <1>2 DEF IInv, TypeOK, OpenInv, WaitInv, MasterIsOpen
<1>4. VisitsAreReady'
  <2>1. ASSUME NEW g \in Visit'
        PROVE  Readable(g)'
    <3>1. g \in Visit /\ g # f /\ g \in Fds /\ Readable(g)
      BY <1>2 DEF IInv, TypeOK, VisitsAreReady, Visit
    <3>2. owner[f] \in Clients /\ owner[f] # Free
      BY <1>1, ClientsAssumption DEF IInv, TypeOK
    <3>3. owner[g] # owner[f]
      BY <3>1, <3>2 DEF IInv, OpenInv
    <3>4. QED
      BY <1>1, <3>1, <3>3 DEF Readable
  <2>2. QED
    BY <2>1 DEF VisitsAreReady
<1>5. QED
  BY <1>3, <1>4 DEF IInv

LEMMA HangUpInv ==
  ASSUME IInv, NEW f \in Fds, HangUp(f)
  PROVE  IInv'
<1>1. /\ Handle(f) /\ f # listener /\ owner[f] \in Clients
      /\ owner' = [owner EXCEPT ![f] = Free] /\ peer' = [peer EXCEPT ![owner[f]] = "done"]
      /\ master' = master \ {f}
      /\ UNCHANGED <<pc, listener, read_fds, fdmax, ret, tv_sec, queue, unread>>
  BY DEF HangUp
<1>2. pc = "for" /\ i' \in Nat /\ \A g \in Visit' : g \in Visit /\ g # f
  BY <1>1, HandleFacts
<1>3. Free # Listener /\ Free \notin Clients /\ Listener \notin Clients
  BY ClientsAssumption DEF Free, Listener
<1>4. /\ owner' \in [Fds -> Clients \cup {Free, Listener}] /\ owner'[f] = Free
      /\ \A g \in Fds \ {f} : owner'[g] = owner[g]
  BY <1>1 DEF IInv, TypeOK
<1>5. /\ peer' \in [Clients -> {"idle", "open", "fin", "done"}]
      /\ \A c \in Clients : peer'[c] = peer[c] \/ peer'[c] # "idle"
      /\ \A c \in Clients : c # owner[f] => peer'[c] = peer[c]
  BY <1>1 DEF IInv, TypeOK
<1>6. TypeOK'
  BY <1>1, <1>2, <1>4, <1>5 DEF IInv, TypeOK
<1>7. OpenInv'
  <2>1. \A g, h \in Fds : owner'[g] = owner'[h] /\ owner'[g] # Free => g = h
    BY <1>4 DEF IInv, OpenInv
  <2>2. listener \in Fds /\ owner'[listener] = Listener
    BY <1>1, <1>2, <1>4 DEF IInv, OpenInv
  <2>3. QED
    BY <1>1, <1>2, <2>1, <2>2 DEF OpenInv
<1>8. WaitInv'
  <2>1. \A k \in DOMAIN queue : queue[k] \in Clients
    BY DEF IInv, TypeOK
  <2>2. \A k \in DOMAIN queue' : peer'[queue'[k]] # "idle" /\ \A g \in Fds : owner'[g] # queue'[k]
    BY <1>1, <1>3, <1>4, <1>5, <2>1 DEF IInv, WaitInv
  <2>3. \A g \in Fds : owner'[g] \in Clients => peer'[owner'[g]] # "idle"
    BY <1>3, <1>4, <1>5 DEF IInv, WaitInv
  <2>4. QED
    BY <1>1, <2>2, <2>3 DEF IInv, WaitInv
<1>9. MasterIsOpen'
  BY <1>1, <1>2, <1>4 DEF IInv, MasterIsOpen
<1>10. VisitsAreReady'
  <2>1. ASSUME NEW g \in Visit'
        PROVE  Readable(g)'
    <3>1. g \in Visit /\ g # f /\ g \in Fds /\ Readable(g)
      BY <1>2 DEF IInv, TypeOK, VisitsAreReady, Visit
    <3>2. owner'[g] = owner[g] /\ owner[g] # owner[f]
      BY <1>1, <1>3, <1>4, <3>1 DEF IInv, OpenInv
    <3>3. owner[g] \in Clients => peer'[owner[g]] = peer[owner[g]]
      BY <1>5, <3>2
    <3>4. QED
      BY <1>1, <3>1, <3>2, <3>3 DEF Readable
  <2>2. QED
    BY <2>1 DEF VisitsAreReady
<1>11. QED
  BY <1>6, <1>7, <1>8, <1>9, <1>10 DEF IInv

-----------------------------------------------------------------------------
LEMMA StepInv == IInv /\ [Next]_vars => IInv'
<1> SUFFICES ASSUME IInv, [Next]_vars PROVE IInv'
  OBVIOUS
<1>1. CASE UNCHANGED vars
  BY <1>1 DEF vars, serverVars, kernelVars, IInv, TypeOK, OpenInv, WaitInv, MasterIsOpen,
     VisitsAreReady, Visit, Readable
<1>2. ASSUME NEW c \in Clients, ClientNext(c) PROVE IInv'
  BY <1>2, ConnectInv, SendInv, LeaveInv DEF ClientNext
<1>3. CASE ServerNext
  BY <1>3, StartInv, SelectInv, OtherInv, AcceptFailsInv, AcceptInv, ReceiveInv, HangUpInv
  DEF ServerNext
<1>4. QED
  BY <1>1, <1>2, <1>3 DEF Next, Exited

(* Together these parts are inductive. *)
THEOREM Invariance == Spec => []IInv
  BY InitInv, StepInv, PTL DEF Spec

(* What the server's variables and the kernel's range over. *)
THEOREM TypeCorrect == Spec => []TypeOK
<1>1. IInv => TypeOK
  BY DEF IInv
<1>2. QED
  BY <1>1, Invariance, PTL

(* master is exactly what is open, and fdmax covers it, however connections come and
   go. *)
THEOREM MasterCorrect == Spec => []MasterIsOpen
<1>1. IInv => MasterIsOpen
  BY DEF IInv
<1>2. QED
  BY <1>1, Invariance, PTL

(* What select() reported is still ready when the loop comes to it. *)
THEOREM VisitsNeverBlock == Spec => []VisitsAreReady
<1>1. IInv => VisitsAreReady
  BY DEF IInv
<1>2. QED
  BY <1>1, Invariance, PTL

=============================================================================
