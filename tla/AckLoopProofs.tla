--------------------------- MODULE AckLoopProofs ---------------------------
(***************************************************************************)
(* Proofs about the acks that a receiver sends to itself, for any number of *)
(* packets, any size of the socket's buffer and any AckEvery above 1.       *)
(***************************************************************************)
EXTENDS AckLoop, FiniteSetTheorems, SequenceTheorems, TLAPS

AckPlaces(q) == { k \in DOMAIN q : q[k].front = "ack" }
AckCount(q) == Cardinality(AckPlaces(q))
One(packet) == IF packet.front = "ack" THEN 1 ELSE 0

LEMMA AckPlacesFinite ==
  ASSUME NEW q \in Seq(Packets)
  PROVE  IsFiniteSet(AckPlaces(q)) /\ AckCount(q) \in Nat
<1>1. IsFiniteSet(1 .. Len(q))
  BY FS_Interval
<1>2. AckPlaces(q) \subseteq 1 .. Len(q)
  BY DEF AckPlaces
<1>3. QED
  BY <1>1, <1>2, FS_Subset, FS_CardinalityType DEF AckCount

LEMMA AckCountEmpty == AckCount(<<>>) = 0
<1>1. AckPlaces(<<>>) = {}
  BY DEF AckPlaces
<1>2. QED
  BY <1>1, FS_EmptySet DEF AckCount

(* What joins the queue counts by its front, and so does what leaves it. *)
LEMMA AckCountAppend ==
  ASSUME NEW q \in Seq(Packets), NEW e \in Packets
  PROVE  AckCount(Append(q, e)) = AckCount(q) + One(e)
<1> DEFINE n == Len(q) + 1
<1>1. /\ n \notin AckPlaces(q) /\ IsFiniteSet(AckPlaces(q))
      /\ e.front = "ack" => AckPlaces(Append(q, e)) = AckPlaces(q) \cup {n}
      /\ e.front # "ack" => AckPlaces(Append(q, e)) = AckPlaces(q)
  <2>1. Len(q) \in Nat /\ AckPlaces(q) = { k \in 1 .. Len(q) : q[k].front = "ack" }
    BY DEF AckPlaces
  <2>2. /\ Append(q, e) \in Seq(Packets) /\ Len(Append(q, e)) = n /\ Append(q, e)[n] = e
        /\ \A k \in 1 .. Len(q) : Append(q, e)[k] = q[k]
    BY AppendProperties
  <2>3. AckPlaces(Append(q, e)) = { k \in 1 .. n : Append(q, e)[k].front = "ack" }
    BY <2>2 DEF AckPlaces
  <2>4. 1 .. n = (1 .. Len(q)) \cup {n} /\ n \notin 1 .. Len(q)
    BY <2>1
  <2>5. ASSUME e.front = "ack" PROVE AckPlaces(Append(q, e)) = AckPlaces(q) \cup {n}
    BY <2>1, <2>2, <2>3, <2>4, <2>5
  <2>6. ASSUME e.front # "ack" PROVE AckPlaces(Append(q, e)) = AckPlaces(q)
    BY <2>1, <2>2, <2>3, <2>4, <2>6
  <2>7. QED
    BY <2>1, <2>4, <2>5, <2>6, AckPlacesFinite
<1>2. CASE e.front = "ack"
  BY <1>1, <1>2, FS_AddElement DEF AckCount, One
<1>3. CASE e.front # "ack"
  BY <1>1, <1>3, AckPlacesFinite DEF AckCount, One
<1>4. QED
  BY <1>2, <1>3

LEMMA AckCountTail ==
  ASSUME NEW q \in Seq(Packets), q # <<>>
  PROVE  AckCount(q) = AckCount(Tail(q)) + One(Head(q))
<1> DEFINE S == AckPlaces(Tail(q))
           T == { k \in AckPlaces(q) : k # 1 }
           f == [k \in S |-> k + 1]
<1>1. /\ Tail(q) \in Seq(Packets) /\ Len(Tail(q)) = Len(q) - 1 /\ Len(q) \in Nat \ {0}
      /\ \A k \in 1 .. Len(q) - 1 : Tail(q)[k] = q[k + 1]
  BY HeadTailProperties
<1>2. S = { k \in 1 .. Len(q) - 1 : q[k + 1].front = "ack" }
  BY <1>1 DEF AckPlaces
<1>3. T = { k \in 2 .. Len(q) : q[k].front = "ack" }
  BY <1>1 DEF AckPlaces
<1>4. f \in Bijection(S, T)
  <2>1. f \in [S -> T] /\ \A a, b \in S : f[a] = f[b] => a = b
    BY <1>1, <1>2, <1>3
  <2>2. \A k \in T : k - 1 \in S /\ f[k - 1] = k
    BY <1>1, <1>2, <1>3
  <2>3. QED
    BY <2>1, <2>2 DEF Bijection, Injection, Surjection, IsInjective
<1> HIDE DEF S, T, f
<1>5. IsFiniteSet(S) /\ IsFiniteSet(T) /\ Cardinality(S) = Cardinality(T) /\ Cardinality(T) \in Nat
  BY <1>1, <1>4, AckPlacesFinite, FS_Bijection, FS_CardinalityType DEF S, ExistsBijection
<1>6. CASE Head(q).front = "ack"
  <2>1. AckPlaces(q) = T \cup {1} /\ 1 \notin T
    BY <1>1, <1>6 DEF T, AckPlaces
  <2>2. QED
    BY <2>1, <1>5, <1>6, FS_AddElement DEF S, AckCount, One
<1>7. CASE Head(q).front # "ack"
  <2>1. AckPlaces(q) = T
    BY <1>1, <1>7 DEF T, AckPlaces
  <2>2. QED
    BY <2>1, <1>5, <1>7 DEF S, AckCount, One
<1>8. QED
  BY <1>6, <1>7

-----------------------------------------------------------------------------
(* Facts about integers. *)

LEMMA OneMore ==
  ASSUME NEW d \in Nat, NEW a \in Nat
  PROVE  d * (a + 1) = d * a + d /\ d * a \in Nat
  BY SMT

LEMMA OneLess ==
  ASSUME NEW d \in Nat \ {0}, NEW a \in Nat
  PROVE  (d - 1) * a = d * a - a
  BY SMT

LEMMA Quotient ==
  ASSUME NEW d \in Nat \ {0}, NEW a \in Nat, NEW r \in 0 .. d - 1
  PROVE  (d * a + r) \div d = a
  BY SMT

LEMMA Square ==
  ASSUME NEW m \in Nat \ {0}
  PROVE  m * m \in Nat \ {0}
  BY SMT

(* Two digits that change places are two digits still. *)
LEMMA TwoDigits ==
  ASSUME NEW m \in Nat \ {0}, NEW x \in 0 .. m - 1, NEW y \in 0 .. m - 1
  PROVE  x * m + y \in 0 .. m * m - 1 /\ m * y + x \in 0 .. m * m - 1
<1>1. x * m + m <= m * m /\ m * y + m <= m * m /\ x * m \in Nat /\ m * y \in Nat
  BY SMT
<1>2. QED
  BY <1>1, Square

LEMMA Digits ==
  ASSUME NEW m \in Nat \ {0}, NEW n \in 0 .. m * m - 1
  PROVE  n % m \in 0 .. m - 1 /\ n \div m \in 0 .. m - 1
  BY SMT

LEMMA SwappedType ==
  ASSUME NEW m \in Nat \ {0}, NEW n \in 0 .. m * m - 1
  PROVE  Swapped(n, m) \in 0 .. m * m - 1
  BY Digits, TwoDigits DEF Swapped

LEMMA SeqModPositive == Half \in Nat \ {0} /\ SeqMod \in Nat \ {0}
  BY ByteAssumption, Square DEF Half, SeqMod

(* A number that ntohl() made is a number. *)
LEMMA NtohlType ==
  ASSUME NEW n \in Numbers
  PROVE  Ntohl(n) \in Numbers
<1>1. n \in 0 .. Half * Half - 1
  BY DEF Numbers, SeqMod
<1>2. n % Half \in 0 .. Half - 1 /\ n \div Half \in 0 .. Half - 1
  BY <1>1, SeqModPositive, Digits
<1>3. /\ Swapped(n % Half, Byte) \in 0 .. Half - 1
      /\ Swapped(n \div Half, Byte) \in 0 .. Half - 1
  BY <1>2, ByteAssumption, SwappedType DEF Half
<1>4. Swapped(n % Half, Byte) + Half * Swapped(n \div Half, Byte) \in 0 .. Half * Half - 1
  <2>1. \A x, y \in 0 .. Half - 1 : Half * y + x \in 0 .. Half * Half - 1 /\ x + Half * y = Half * y + x
    BY SeqModPositive, TwoDigits
  <2>2. QED
    BY <1>3, <2>1
<1>5. QED
  BY <1>4, SeqModPositive, SwappedType DEF Ntohl, Numbers, SeqMod

-----------------------------------------------------------------------------
(* The inductive invariant. *)

(* The packet received and not yet counted. *)
Pending == IF rpc = "sleep" THEN 1 ELSE 0

(* Nothing has happened before the socket is bound, and a length that is too short
   does not outlive the first recvfrom(). *)
StartInv ==
  /\ rpc \in {"start", "exit"} =>
       packet_count = 0 /\ greeted = 0 /\ echoed = 0 /\ acked = 0
  /\ addr_len = 0 => rpc # "sleep" /\ packet_count = 0 /\ greeted = 0 /\ echoed = 0
  /\ acked > 0 => Answers

(* Every packet received is one of those before an ack, or counted since. *)
CountInv == Answers => AckEvery * acked + packet_count + Pending = greeted + echoed

(* An ack that was sent has been received, is lost or waits. *)
EchoInv == echoed + lost + AckCount(inbox) = acked

(* Right after an ack it is not received yet. *)
RoundInv == packet_count + Pending = 0 /\ acked > 0 => echoed < acked

IInv == TypeOK /\ StartInv /\ CountInv /\ EchoInv /\ RoundInv

LEMMA InitInv == Init => IInv
<1> SUFFICES ASSUME Init PROVE IInv
  OBVIOUS
<1> USE GreetingsAssumption, AckEveryAssumption, SeqModPositive DEF Init
<1>1. TypeOK
  BY DEF TypeOK, Contents, Numbers, SockaddrLen, Nothing
<1>2. StartInv /\ CountInv /\ RoundInv
  BY DEF StartInv, CountInv, RoundInv, Pending, Answers
<1>3. EchoInv
  BY AckCountEmpty DEF EchoInv
<1>4. QED
  BY <1>1, <1>2, <1>3 DEF IInv

(* What a delivery does to the acks in the socket. *)
LEMMA Delivered ==
  ASSUME TypeOK, NEW packet \in Packets, Deliver(packet)
  PROVE  /\ inbox' \in Seq(Packets)
         /\ AckCount(inbox) \in Nat /\ AckCount(inbox') \in Nat
         /\ AckCount(inbox') = AckCount(inbox) + (IF Fits THEN One(packet) ELSE 0)
<1>1. inbox \in Seq(Packets)
  BY DEF TypeOK
<1>2. CASE Fits
  <2>1. inbox' = Append(inbox, packet)
    BY <1>2 DEF Deliver
  <2>2. QED
    BY <1>1, <1>2, <2>1, AppendProperties, AckCountAppend, AckPlacesFinite
<1>3. CASE ~ Fits
  <2>1. inbox' = inbox
    BY <1>3 DEF Deliver
  <2>2. QED
    BY <1>1, <1>3, <2>1, AckPlacesFinite
<1>4. QED
  BY <1>2, <1>3

(* What a packet and a header leave of the types. *)
LEMMA ReceivedType ==
  ASSUME TypeOK, NEW packet \in Packets
  PROVE  Filled(packet) \in Contents
<1>1. CASE packet = Greeting
  BY <1>1 DEF TypeOK, Contents, Filled, Greeting
<1>2. CASE packet # Greeting
  <2>1. PICK n \in Numbers : packet = Ack(n)
    BY <1>2 DEF Packets
  <2>2. QED
    BY <1>2, <2>1 DEF Contents, Filled, Ack
<1>3. QED
  BY <1>1, <1>2

LEMMA HeaderType ==
  ASSUME TypeOK, buffer' \in Contents, ReadHeader
  PROVE  header' \in Contents
<1>1. buffer'.number # Nothing => Ntohl(buffer'.number) \in Numbers
  BY NtohlType DEF Contents
<1>2. QED
  BY <1>1 DEF TypeOK, Contents, ReadHeader

LEMMA StepInv == IInv /\ [Next]_vars => IInv'
<1> SUFFICES ASSUME IInv, [Next]_vars PROVE IInv'
  OBVIOUS
<1> USE GreetingsAssumption, AckEveryAssumption, SeqModPositive
<1>0. inbox \in Seq(Packets) /\ AckCount(inbox) \in Nat
  BY AckPlacesFinite DEF IInv, TypeOK
<1>1. ASSUME NEW s \in Senders, Greet(s) PROVE IInv'
  <2>1. Greeting \in Packets /\ One(Greeting) = 0 /\ Deliver(Greeting)
    BY <1>1 DEF Greeting, Packets, One, Greet
  <2>2. inbox' \in Seq(Packets) /\ AckCount(inbox') = AckCount(inbox)
    BY <1>0, <2>1, Delivered DEF IInv
  <2>3. i' \in [Senders -> 0 .. Greetings]
    BY <1>1 DEF IInv, TypeOK, Greet
  <2>4. UNCHANGED <<program, receiverVars, history>>
    BY <1>1 DEF Greet
  <2>5. QED
    BY <2>2, <2>3, <2>4 DEF IInv, TypeOK, StartInv, CountInv, EchoInv, RoundInv, Pending, Answers,
       receiverVars, history
<1>2. ASSUME NEW s \in Senders, GreetFails(s) PROVE IInv'
  <2>1. i' \in [Senders -> 0 .. Greetings]
    BY <1>2 DEF IInv, TypeOK, GreetFails
  <2>2. QED
    BY <1>2, <2>1 DEF GreetFails, IInv, TypeOK, StartInv, CountInv, EchoInv, RoundInv, Pending, Answers,
       receiverVars, history
<1>3. ASSUME Start \/ StartFails PROVE IInv'
  BY <1>3 DEF Start, StartFails, IInv, TypeOK, StartInv, CountInv, EchoInv, RoundInv, Pending, Answers,
     history
<1>4. CASE Receive
  <2>1. /\ inbox' = Tail(inbox) /\ inbox # <<>>
        /\ inbox' \in Seq(Packets) /\ Head(inbox) \in Packets
    BY <1>0, <1>4, HeadTailProperties DEF Receive
  <2>2. AckCount(inbox) = AckCount(inbox') + One(Head(inbox)) /\ AckCount(inbox') \in Nat
    BY <1>0, <2>1, AckCountTail, AckPlacesFinite
  <2>3. /\ greeted' = greeted + 1 - One(Head(inbox)) /\ echoed' = echoed + One(Head(inbox))
        /\ One(Head(inbox)) \in {0, 1}
    BY <1>4, <2>1 DEF Receive, Packets, Greeting, Ack, One, IInv, TypeOK
  <2>4. TypeOK'
    <3>1. buffer' \in Contents
      BY <1>4, <2>1, ReceivedType DEF Receive, IInv
    <3>2. header' \in Contents
      BY <1>4, <3>1, HeaderType DEF Receive, IInv
    <3>3. QED
      BY <1>4, <2>1, <2>3, <3>1, <3>2 DEF IInv, TypeOK, Receive, SockaddrLen
  <2>5. rpc = "recv" /\ rpc' = "sleep" /\ UNCHANGED <<program, packet_count, acked, lost>>
        /\ addr_len' = IF addr_len < 0 THEN addr_len ELSE SockaddrLen
    BY <1>4 DEF Receive
  <2>6. StartInv' /\ (Answers' <=> Answers)
    BY <2>5 DEF IInv, TypeOK, StartInv, Answers, SockaddrLen
  <2>7. CountInv'
    <3>1. AckEvery * acked \in Nat /\ packet_count \in Nat /\ greeted \in Nat /\ echoed \in Nat
      BY OneMore DEF IInv, TypeOK
    <3>2. greeted' + echoed' = greeted + echoed + 1 /\ Pending = 0 /\ Pending' = 1
      BY <2>3, <2>5, <3>1 DEF Pending
    <3>3. Answers => AckEvery * acked + packet_count + 1 = greeted + echoed + 1
      BY <3>1, <3>2 DEF IInv, CountInv
    <3>4. QED
      BY <2>5, <2>6, <3>2, <3>3 DEF CountInv
  <2>8. EchoInv'
    <3>1. echoed + lost + AckCount(inbox) = acked /\ echoed \in Nat /\ lost \in Nat /\ acked \in Nat
      BY DEF IInv, TypeOK, EchoInv
    <3>2. AckCount(inbox') \in Nat /\ One(Head(inbox)) \in {0, 1}
      BY <2>2, <2>3
    <3>3. echoed + One(Head(inbox)) + lost + AckCount(inbox') = acked
      BY <2>2, <3>1, <3>2
    <3>4. QED
      BY <2>3, <2>5, <3>3 DEF EchoInv
  <2>9. RoundInv'
    BY <2>5 DEF IInv, TypeOK, RoundInv, Pending
  <2>10. QED
    BY <2>4, <2>6, <2>7, <2>8, <2>9 DEF IInv
<1>5. CASE Count
  BY <1>5 DEF Count, IInv, TypeOK, StartInv, CountInv, EchoInv, RoundInv, Pending, Answers, history
<1>6. CASE Answer
  <2>1. /\ rpc = "sleep" /\ rpc' = "recv" /\ packet_count = AckEvery - 1 /\ packet_count' = 0
        /\ UNCHANGED <<program, addr_len, buffer, header, i, first, greeted, echoed>>
    BY <1>6 DEF Answer, NextRound, IInv, TypeOK
  <2>2. pkt_seq_no' \in Numbers
    BY <1>6 DEF Answer, SetAck, IInv, TypeOK, Numbers
  <2>3. addr_len \in {-1, SockaddrLen}
    BY <2>1 DEF IInv, TypeOK, StartInv
  <2>4. CASE Answers
    <3>1. /\ acked' = acked + 1
          /\ lost' = lost + (IF Fits THEN 0 ELSE 1)
          /\ Deliver(Ack(pkt_seq_no'))
      BY <1>6, <2>3, <2>4 DEF Answer, Answers, SockaddrLen
    <3>2. Ack(pkt_seq_no') \in Packets /\ One(Ack(pkt_seq_no')) = 1
      BY <2>2 DEF Ack, Packets, One
    <3>3. /\ inbox' \in Seq(Packets)
          /\ AckCount(inbox') = AckCount(inbox) + (IF Fits THEN 1 ELSE 0)
      BY <3>1, <3>2, Delivered DEF IInv
    <3>4. TypeOK'
      BY <2>1, <2>2, <3>1, <3>3 DEF IInv, TypeOK
    <3>5. StartInv'
      BY <2>1, <2>3, <2>4, <3>1 DEF IInv, TypeOK, StartInv, Answers, SockaddrLen
    <3>6. AckEvery * acked' = AckEvery * acked + AckEvery /\ AckEvery * acked \in Nat
      BY <3>1, OneMore DEF IInv, TypeOK
    <3>7. CountInv'
      BY <2>1, <2>4, <3>6 DEF IInv, TypeOK, CountInv, Pending, Answers
    <3>8. EchoInv'
      BY <1>0, <2>1, <3>1, <3>3 DEF IInv, TypeOK, EchoInv
    <3>9. RoundInv'
      BY <1>0, <2>1, <3>1 DEF IInv, TypeOK, RoundInv, EchoInv
    <3>10. QED
      BY <3>4, <3>5, <3>7, <3>8, <3>9 DEF IInv
  <2>5. CASE ~ Answers
    <3>1. UNCHANGED <<acked, lost, inbox>>
      BY <1>6, <2>5 DEF Answer, Answers, SockaddrLen
    <3>2. acked = 0
      BY <2>5 DEF IInv, TypeOK, StartInv
    <3>3. TypeOK'
      BY <2>1, <2>2, <3>1 DEF IInv, TypeOK
    <3>4. StartInv' /\ CountInv' /\ RoundInv'
      BY <2>1, <2>3, <2>5, <3>1, <3>2
      DEF IInv, StartInv, CountInv, RoundInv, Answers, SockaddrLen
    <3>5. QED
      BY <2>1, <3>1, <3>3, <3>4 DEF IInv, EchoInv
  <2>6. QED
    BY <2>4, <2>5
<1>7. CASE UNCHANGED vars
  BY <1>7 DEF vars, receiverVars, history, IInv, TypeOK, StartInv, CountInv, EchoInv, RoundInv, Pending, Answers
<1>8. QED
  BY <1>1, <1>2, <1>3, <1>4, <1>5, <1>6, <1>7 DEF Next, ReceiverNext

LEMMA AlwaysIInv == Spec => []IInv
  BY InitInv, StepInv, PTL DEF Spec

(* What the receiver's variables, its socket and the counts range over. *)
THEOREM TypeCorrect == Spec => []TypeOK
<1>1. IInv => TypeOK
  BY DEF IInv
<1>2. QED
  BY <1>1, AlwaysIInv, PTL

LEMMA RateFacts ==
  ASSUME IInv, Answers
  PROVE  /\ greeted = (AckEvery - 1) * acked + (acked - echoed) + packet_count + Pending
         /\ echoed <= acked /\ (AckEvery - 1) * acked \in Nat
         /\ AckEvery * (acked + 1) = AckEvery * acked + AckEvery /\ AckEvery * acked \in Nat
<1> USE AckEveryAssumption
<1>1. acked \in Nat /\ echoed \in Nat /\ lost \in Nat /\ AckCount(inbox) \in Nat
  BY AckPlacesFinite DEF IInv, TypeOK
<1>2. (AckEvery - 1) * acked = AckEvery * acked - acked /\ (AckEvery - 1) * acked \in Nat
  BY <1>1, OneLess, OneMore
<1>3. AckEvery * (acked + 1) = AckEvery * acked + AckEvery /\ AckEvery * acked \in Nat
  BY <1>1, OneMore
<1>4. QED
  BY <1>1, <1>2, <1>3 DEF IInv, TypeOK, CountInv, EchoInv, Pending

(* The rate of acks stays between one for every 15 and one for every 16 of the
   sender's packets, for any number of senders and any loss. *)
THEOREM Rate == Spec => []AckRate
<1>1. IInv => AckRate
  <2> SUFFICES ASSUME IInv PROVE AckRate
    OBVIOUS
  <2> USE AckEveryAssumption
  <2>1. ASSUME acked > 0 PROVE (AckEvery - 1) * acked < greeted
    <3>1. Answers
      BY <2>1 DEF IInv, StartInv
    <3>2. echoed < acked \/ packet_count + Pending > 0
      BY <2>1 DEF IInv, TypeOK, RoundInv, Pending
    <3>3. QED
      BY <3>1, <3>2, RateFacts DEF IInv, TypeOK, Pending
  <2>2. ASSUME Answers, rpc = "recv" PROVE greeted < AckEvery * (acked + 1)
    BY <2>2, RateFacts DEF IInv, TypeOK, CountInv, Pending
  <2>3. QED
    BY <2>1, <2>2 DEF AckRate
<1>2. QED
  BY <1>1, AlwaysIInv, PTL

(* How many acks there are once the socket is drained. *)
THEOREM Drained == Spec => []DrainedCount
<1>1. IInv => DrainedCount
  <2> SUFFICES ASSUME IInv, Answers, rpc = "recv", inbox = <<>>, lost = 0, greeted > 0
               PROVE  acked = (greeted - 1) \div (AckEvery - 1)
    BY DEF DrainedCount
  <2> USE AckEveryAssumption
  <2>1. echoed = acked
    BY AckCountEmpty DEF IInv, TypeOK, EchoInv
  <2>2. greeted = (AckEvery - 1) * acked + packet_count
    BY <2>1, RateFacts DEF IInv, TypeOK, Pending
  <2>3. packet_count > 0
    <3>1. CASE acked = 0
      BY <2>2, <3>1 DEF IInv, TypeOK
    <3>2. CASE acked > 0
      BY <2>1, <3>2 DEF IInv, TypeOK, RoundInv, Pending
    <3>3. QED
      BY <3>1, <3>2 DEF IInv, TypeOK
  <2>4. /\ packet_count - 1 \in 0 .. (AckEvery - 1) - 1 /\ AckEvery - 1 \in Nat \ {0} /\ acked \in Nat
        /\ (AckEvery - 1) * acked \in Nat
    BY <2>3, RateFacts DEF IInv, TypeOK
  <2>5. greeted - 1 = (AckEvery - 1) * acked + (packet_count - 1)
    BY <2>2, <2>4 DEF IInv, TypeOK
  <2>6. ((AckEvery - 1) * acked + (packet_count - 1)) \div (AckEvery - 1) = acked
    BY <2>4, Quotient
  <2>7. QED
    BY <2>5, <2>6
<1>2. QED
  BY <1>1, AlwaysIInv, PTL

-----------------------------------------------------------------------------
(* The numbers of the acks that go round. *)

(* The acks among the first k packets of a queue. *)
Upto(q, k) == AckCount(SubSeq(q, 1, k))

LEMMA Prefix ==
  ASSUME NEW q \in Seq(Packets), NEW k \in 0 .. Len(q)
  PROVE  /\ SubSeq(q, 1, k) \in Seq(Packets) /\ Len(SubSeq(q, 1, k)) = k
         /\ \A j \in 1 .. k : SubSeq(q, 1, k)[j] = q[j]
<1>1. Len(q) \in Nat /\ k \in Int /\ \A j \in 1 .. k : q[j] \in Packets
  OBVIOUS
<1>2. QED
  BY <1>1, SubSeqProperties

LEMMA UptoAppend ==
  ASSUME NEW q \in Seq(Packets), NEW e \in Packets
  PROVE  /\ \A k \in 1 .. Len(q) : Upto(Append(q, e), k) = Upto(q, k)
         /\ Upto(Append(q, e), Len(q) + 1) = AckCount(q) + One(e)
<1> DEFINE p == Append(q, e)
<1>1. /\ p \in Seq(Packets) /\ Len(p) = Len(q) + 1 /\ Len(q) \in Nat
      /\ \A j \in 1 .. Len(q) : p[j] = q[j]
  BY AppendProperties
<1>2. ASSUME NEW k \in 1 .. Len(q)
      PROVE  SubSeq(p, 1, k) = SubSeq(q, 1, k)
  <2>1. /\ SubSeq(q, 1, k) \in Seq(Packets) /\ Len(SubSeq(q, 1, k)) = k
        /\ \A j \in 1 .. k : SubSeq(q, 1, k)[j] = q[j]
    BY <1>1, Prefix
  <2>2. /\ SubSeq(p, 1, k) \in Seq(Packets) /\ Len(SubSeq(p, 1, k)) = k
        /\ \A j \in 1 .. k : SubSeq(p, 1, k)[j] = p[j]
    <3>1. k \in 0 .. Len(p)
      BY <1>1
    <3>2. QED
      BY <1>1, <3>1, Prefix
  <2>3. \A j \in 1 .. k : SubSeq(p, 1, k)[j] = SubSeq(q, 1, k)[j]
    BY <1>1, <2>1, <2>2
  <2>4. QED
    BY <2>1, <2>2, <2>3, SeqEqual
<1>3. SubSeq(p, 1, Len(q) + 1) = p
  <2>1. Len(q) + 1 \in 0 .. Len(p)
    BY <1>1
  <2>2. /\ SubSeq(p, 1, Len(q) + 1) \in Seq(Packets) /\ Len(SubSeq(p, 1, Len(q) + 1)) = Len(q) + 1
        /\ \A j \in 1 .. Len(q) + 1 : SubSeq(p, 1, Len(q) + 1)[j] = p[j]
    BY <1>1, <2>1, Prefix
  <2>3. QED
    BY <1>1, <2>2, SeqEqual
<1>4. QED
  BY <1>2, <1>3, AckCountAppend DEF Upto

LEMMA UptoTail ==
  ASSUME NEW q \in Seq(Packets), q # <<>>
  PROVE  /\ \A k \in 1 .. Len(q) - 1 : Upto(q, k + 1) = Upto(Tail(q), k) + One(Head(q))
         /\ Upto(q, 1) = One(Head(q))
         /\ \A k \in 1 .. Len(q) - 1 : Upto(Tail(q), k) \in Nat
<1>1. /\ Tail(q) \in Seq(Packets) /\ Len(Tail(q)) = Len(q) - 1 /\ Len(q) \in Nat \ {0}
      /\ \A k \in 1 .. Len(q) - 1 : Tail(q)[k] = q[k + 1]
      /\ Head(q) = q[1]
  BY HeadTailProperties
<1>2. ASSUME NEW k \in 0 .. Len(q) - 1
      PROVE  /\ AckCount(SubSeq(q, 1, k + 1)) = AckCount(SubSeq(Tail(q), 1, k)) + One(Head(q))
             /\ SubSeq(Tail(q), 1, k) \in Seq(Packets) /\ Len(SubSeq(Tail(q), 1, k)) = k
  <2> DEFINE p == SubSeq(q, 1, k + 1)
             r == SubSeq(Tail(q), 1, k)
  <2>1. p \in Seq(Packets) /\ Len(p) = k + 1 /\ \A j \in 1 .. k + 1 : p[j] = q[j]
    <3>1. k + 1 \in 0 .. Len(q)
      BY <1>1
    <3>2. QED
      BY <3>1, Prefix
  <2>2. r \in Seq(Packets) /\ Len(r) = k /\ \A j \in 1 .. k : r[j] = Tail(q)[j]
    <3>1. k \in 0 .. Len(Tail(q))
      BY <1>1
    <3>2. QED
      BY <1>1, <3>1, Prefix
  <2> HIDE DEF p, r
  <2>3. /\ p # <<>> /\ Head(p) = p[1] /\ Tail(p) \in Seq(Packets) /\ Len(Tail(p)) = k
        /\ \A j \in 1 .. k : Tail(p)[j] = p[j + 1]
    <3>1. p # <<>>
      BY <2>1
    <3>2. QED
      BY <2>1, <3>1, HeadTailProperties
  <2>4. \A j \in 1 .. k : Tail(p)[j] = r[j]
    BY <1>1, <2>1, <2>2, <2>3
  <2>5. Tail(p) = r
    BY <2>2, <2>3, <2>4, SeqEqual
  <2>6. Head(p) = Head(q)
    BY <1>1, <2>1, <2>3
  <2>7. AckCount(p) = AckCount(r) + One(Head(q))
    BY <2>1, <2>3, <2>5, <2>6, AckCountTail
  <2>8. QED
    BY <2>2, <2>7 DEF p, r
<1>3. ASSUME NEW k \in 1 .. Len(q) - 1
      PROVE  Upto(q, k + 1) = Upto(Tail(q), k) + One(Head(q)) /\ Upto(Tail(q), k) \in Nat
  <2>1. k \in 0 .. Len(q) - 1
    BY <1>1
  <2>2. /\ AckCount(SubSeq(q, 1, k + 1)) = AckCount(SubSeq(Tail(q), 1, k)) + One(Head(q))
        /\ SubSeq(Tail(q), 1, k) \in Seq(Packets)
    BY <1>2, <2>1
  <2>3. QED
    BY <2>2, AckPlacesFinite DEF Upto
<1>4. Upto(q, 1) = One(Head(q))
  <2>1. 0 \in 0 .. Len(q) - 1
    BY <1>1
  <2>2. /\ AckCount(SubSeq(q, 1, 0 + 1)) = AckCount(SubSeq(Tail(q), 1, 0)) + One(Head(q))
        /\ SubSeq(Tail(q), 1, 0) \in Seq(Packets) /\ Len(SubSeq(Tail(q), 1, 0)) = 0
    BY <1>2, <2>1
  <2>3. SubSeq(Tail(q), 1, 0) = <<>>
    BY <2>2
  <2>4. 0 + 1 = 1 /\ One(Head(q)) \in Int
    BY DEF One
  <2>5. 0 + One(Head(q)) = One(Head(q))
    BY <2>4
  <2>6. QED
    BY <2>2, <2>3, <2>4, <2>5, AckCountEmpty DEF Upto
<1>5. QED
  BY <1>3, <1>4

LEMMA Remainder ==
  ASSUME NEW m \in Nat \ {0}, NEW n \in Nat
  PROVE  n = m * (n \div m) + (n % m) /\ n \div m \in Nat /\ n % m \in 0 .. m - 1
  BY SMT

LEMMA ModOf ==
  ASSUME NEW m \in Nat \ {0}, NEW a \in Nat, NEW r \in 0 .. m - 1
  PROVE  (m * a + r) % m = r
  BY SMT

LEMMA ModNext ==
  ASSUME NEW m \in Nat \ {0}, NEW n \in Nat
  PROVE  ((n % m) + 1) % m = (n + 1) % m
<1> DEFINE d == n \div m
           r == n % m
<1>1. n = m * d + r /\ d \in Nat /\ r \in 0 .. m - 1
  BY Remainder
<1> HIDE DEF d, r
<1>2. m * (d + 1) = m * d + m /\ m * d \in Nat /\ m * 0 = 0
  BY <1>1, OneMore
<1>3. CASE r + 1 < m
  <2>1. r + 1 \in 0 .. m - 1 /\ n + 1 = m * d + (r + 1) /\ r + 1 = m * 0 + (r + 1)
    BY <1>1, <1>2, <1>3
  <2>2. (m * d + (r + 1)) % m = r + 1 /\ (m * 0 + (r + 1)) % m = r + 1
    BY <1>1, <2>1, ModOf
  <2>3. QED
    BY <2>1, <2>2 DEF r
<1>4. CASE r + 1 = m
  <2>1. 0 \in 0 .. m - 1 /\ n + 1 = m * (d + 1) + 0 /\ m = m * 1 + 0
    BY <1>1, <1>2, <1>4
  <2>2. (m * (d + 1) + 0) % m = 0 /\ (m * 1 + 0) % m = 0
    BY <1>1, <2>1, ModOf
  <2>3. QED
    BY <1>4, <2>1, <2>2 DEF r
<1>5. QED
  BY <1>1, <1>3, <1>4

(* The j-th ack of the socket has the number that comes j after n, or up to l more. *)
Numbered(s, n, l) ==
  \A j \in AckPlaces(s) :
    \E k \in n + Upto(s, j) .. n + Upto(s, j) + l : s[j].number = k % SeqMod

(* The number set in the next ack, those of the acks in the socket and the one in the
   header follow on each other but for those that were lost; what lies in the buffer
   and in the header behind a greeting is an ack's as soon as there was one. *)
HeaderInv ==
  program = "old_udpreceiver" =>
    /\ Answers => pkt_seq_no = (first + acked) % SeqMod
    /\ Numbered(inbox, first + echoed, lost)
    /\ header.front = "ack" =>
         \E k \in first + echoed .. first + echoed + lost : header.number = Ntohl(k % SeqMod)
    /\ buffer.rest = "ack" <=> echoed > 0
    /\ header.rest = "ack" <=> echoed > 0

LEMMA HeaderInit == Init => HeaderInv
<1> SUFFICES ASSUME Init PROVE HeaderInv
  OBVIOUS
<1> USE SeqModPositive
<1>1. first \in 0 .. SeqMod - 1 /\ pkt_seq_no = first /\ acked = 0 /\ SeqMod * 0 = 0
  BY DEF Init, Numbers
<1>2. (SeqMod * 0 + first) % SeqMod = first
  BY <1>1, ModOf
<1>3. AckPlaces(inbox) = {}
  BY DEF Init, AckPlaces
<1>4. pkt_seq_no = (first + acked) % SeqMod
  BY <1>1, <1>2
<1>5. QED
  BY <1>3, <1>4 DEF Init, HeaderInv, Numbered

(* A packet at the end of the socket leaves the acks before it what they are. *)
LEMMA NumbersAppend ==
  ASSUME NEW s \in Seq(Packets), NEW e \in Packets, NEW n \in Nat, NEW l \in Nat,
         Numbered(s, n, l),
         e.front = "ack" => e.number = (n + (AckCount(s) + 1) + l) % SeqMod
  PROVE  Numbered(Append(s, e), n, l)
<1>1. /\ Len(Append(s, e)) = Len(s) + 1 /\ Len(s) \in Nat /\ Append(s, e)[Len(s) + 1] = e
      /\ \A j \in 1 .. Len(s) : Append(s, e)[j] = s[j]
      /\ Append(s, e) \in Seq(Packets)
  BY AppendProperties
<1>2. ASSUME NEW j \in AckPlaces(Append(s, e)), j \in 1 .. Len(s)
      PROVE  \E k \in n + Upto(Append(s, e), j) .. n + Upto(Append(s, e), j) + l :
               Append(s, e)[j].number = k % SeqMod
  <2>1. j \in AckPlaces(s) /\ Append(s, e)[j] = s[j]
    BY <1>1, <1>2 DEF AckPlaces
  <2>2. Upto(Append(s, e), j) = Upto(s, j)
    BY <1>2, UptoAppend
  <2>3. QED
    BY <2>1, <2>2 DEF Numbered
<1>3. ASSUME NEW j \in AckPlaces(Append(s, e)), j = Len(s) + 1
      PROVE  \E k \in n + Upto(Append(s, e), j) .. n + Upto(Append(s, e), j) + l :
               Append(s, e)[j].number = k % SeqMod
  <2>1. e.front = "ack" /\ Append(s, e)[j] = e
    BY <1>1, <1>3 DEF AckPlaces
  <2>2. Upto(Append(s, e), j) = AckCount(s) + 1 /\ AckCount(s) \in Nat
    BY <1>3, <2>1, UptoAppend, AckPlacesFinite DEF One
  <2>3. n + (AckCount(s) + 1) + l \in n + Upto(Append(s, e), j) .. n + Upto(Append(s, e), j) + l
    BY <2>2
  <2>4. QED
    BY <2>1, <2>3
<1>4. \A j \in AckPlaces(Append(s, e)) : j \in 1 .. Len(s) \/ j = Len(s) + 1
  BY <1>1 DEF AckPlaces
<1>5. QED
  BY <1>2, <1>3, <1>4 DEF Numbered

(* What is taken from the front is counted as received instead. *)
LEMMA NumbersTail ==
  ASSUME NEW s \in Seq(Packets), s # <<>>, NEW n \in Nat, NEW l \in Nat, Numbered(s, n, l)
  PROVE  /\ Numbered(Tail(s), n + One(Head(s)), l)
         /\ Head(s).front = "ack" => \E k \in n + 1 .. n + 1 + l : Head(s).number = k % SeqMod
<1>1. /\ Tail(s) \in Seq(Packets) /\ Len(Tail(s)) = Len(s) - 1 /\ Len(s) \in Nat \ {0}
      /\ \A j \in 1 .. Len(s) - 1 : Tail(s)[j] = s[j + 1]
      /\ Head(s) = s[1]
  BY HeadTailProperties
<1>2. ASSUME NEW j \in AckPlaces(Tail(s))
      PROVE  LET m == n + One(Head(s)) + Upto(Tail(s), j)
             IN  \E k \in m .. m + l : Tail(s)[j].number = k % SeqMod
  <2>1. j \in 1 .. Len(s) - 1 /\ Tail(s)[j] = s[j + 1] /\ j + 1 \in AckPlaces(s)
    BY <1>1 DEF AckPlaces
  <2>2. Upto(s, j + 1) = Upto(Tail(s), j) + One(Head(s)) /\ Upto(Tail(s), j) \in Nat
    BY <2>1, UptoTail
  <2>3. n + Upto(s, j + 1) = n + One(Head(s)) + Upto(Tail(s), j)
    BY <2>2 DEF One
  <2>4. QED
    BY <2>1, <2>3 DEF Numbered
<1>3. ASSUME Head(s).front = "ack"
      PROVE  \E k \in n + 1 .. n + 1 + l : Head(s).number = k % SeqMod
  <2>1. 1 \in AckPlaces(s) /\ Upto(s, 1) = 1
    BY <1>1, <1>3, UptoTail DEF AckPlaces, One
  <2>2. QED
    BY <1>1, <2>1 DEF Numbered
<1>4. QED
  BY <1>2, <1>3 DEF Numbered

(* One more that is lost allows more. *)
LEMMA NumbersLost ==
  ASSUME NEW s \in Seq(Packets), NEW n \in Nat, NEW l \in Nat, Numbered(s, n, l)
  PROVE  Numbered(s, n, l + 1)
<1> SUFFICES ASSUME NEW j \in AckPlaces(s)
             PROVE  \E k \in n + Upto(s, j) .. n + Upto(s, j) + (l + 1) : s[j].number = k % SeqMod
  BY DEF Numbered
<1>1. Upto(s, j) \in Nat
  <2>1. j \in 0 .. Len(s)
    BY DEF AckPlaces
  <2>2. QED
    BY <2>1, Prefix, AckPlacesFinite DEF Upto
<1>2. PICK k \in n + Upto(s, j) .. n + Upto(s, j) + l : s[j].number = k % SeqMod
  BY DEF Numbered
<1>3. k \in n + Upto(s, j) .. n + Upto(s, j) + (l + 1)
  BY <1>1
<1>4. QED
  BY <1>2, <1>3

LEMMA HeaderStep == IInv /\ HeaderInv /\ [Next]_vars => HeaderInv'
<1> SUFFICES ASSUME IInv, HeaderInv, [Next]_vars, program' = "old_udpreceiver"
             PROVE  HeaderInv'
  BY DEF HeaderInv
<1> USE SeqModPositive
<1>0. /\ inbox \in Seq(Packets) /\ AckCount(inbox) \in Nat /\ first \in Nat /\ echoed \in Nat
      /\ acked \in Nat /\ lost \in Nat /\ first + echoed \in Nat
  BY AckPlacesFinite DEF IInv, TypeOK, Numbers
<1>1. ASSUME NEW s \in Senders, Greet(s) PROVE HeaderInv'
  <2>1. /\ UNCHANGED <<program, addr_len, buffer, header, pkt_seq_no, first, echoed, acked, lost>>
        /\ Deliver(Greeting) /\ Greeting \in Packets /\ Greeting.front # "ack"
    BY <1>1 DEF Greet, receiverVars, history, Greeting, Packets
  <2>2. Numbered(inbox, first + echoed, lost)
    BY <2>1 DEF HeaderInv
  <2>3. Numbered(inbox', first + echoed, lost)
    <3>1. CASE inbox' = inbox
      BY <2>2, <3>1
    <3>2. CASE inbox' = Append(inbox, Greeting)
      BY <1>0, <2>1, <2>2, <3>2, NumbersAppend
    <3>3. QED
      BY <2>1, <3>1, <3>2 DEF Deliver
  <2>4. QED
    BY <2>1, <2>3 DEF HeaderInv, Answers
<1>2. CASE Receive
  <2>1. /\ inbox' = Tail(inbox) /\ inbox # <<>> /\ Head(inbox) \in Packets
        /\ UNCHANGED <<program, pkt_seq_no, first, acked, lost>>
        /\ program = "old_udpreceiver" /\ buffer' = Filled(Head(inbox))
        /\ header' = [buffer' EXCEPT !.number = IF @ = Nothing THEN Nothing ELSE Ntohl(@)]
        /\ addr_len' = IF addr_len < 0 THEN addr_len ELSE SockaddrLen
    BY <1>0, <1>2, HeadTailProperties DEF Receive, ReadHeader
  <2>2. echoed' = echoed + One(Head(inbox))
    BY <1>2, <2>1 DEF Receive, Packets, Greeting, Ack, One, IInv, TypeOK
  <2>3. /\ Numbered(inbox', first + echoed + One(Head(inbox)), lost)
        /\ Head(inbox).front = "ack" =>
             \E k \in first + echoed + 1 .. first + echoed + 1 + lost : Head(inbox).number = k % SeqMod
    BY <1>0, <2>1, NumbersTail DEF HeaderInv
  <2>4. first + echoed + One(Head(inbox)) = first' + echoed'
    BY <1>0, <2>1, <2>2 DEF One
  <2>5. buffer' \in Contents
    BY <2>1, ReceivedType DEF IInv
  <2>6. header'.front = buffer'.front /\ header'.rest = buffer'.rest
    BY <2>1, <2>5 DEF Contents
  <2>7. /\ header'.front = "ack" =>
             \E k \in first' + echoed' .. first' + echoed' + lost' : header'.number = Ntohl(k % SeqMod)
        /\ buffer'.rest = "ack" <=> echoed' > 0
    <3>1. CASE Head(inbox) = Greeting
      <4>1. /\ buffer'.front # "ack" /\ buffer'.rest = buffer.rest /\ echoed' = echoed
        BY <1>0, <2>1, <2>2, <3>1 DEF Filled, Greeting, One
      <4>2. QED
        BY <2>1, <2>6, <4>1 DEF HeaderInv
    <3>2. CASE Head(inbox) # Greeting
      <4>1. PICK n \in Numbers : Head(inbox) = Ack(n)
        BY <2>1, <3>2 DEF Packets
      <4>2. buffer' = Ack(n) /\ n # Nothing /\ Head(inbox).front = "ack" /\ Head(inbox).number = n
        BY <2>1, <3>2, <4>1 DEF Filled, Ack, Numbers, Nothing
      <4>3. header'.number = Ntohl(n) /\ buffer'.rest = "ack"
        BY <2>1, <4>2 DEF Ack
      <4>4. echoed' = echoed + 1 /\ echoed' > 0 /\ first' + echoed' = first + echoed + 1
        <5>1. One(Head(inbox)) = 1
          BY <4>2 DEF One
        <5>2. QED
          BY <1>0, <2>2, <2>4, <5>1
      <4>5. PICK k \in first + echoed + 1 .. first + echoed + 1 + lost : n = k % SeqMod
        BY <2>3, <4>2
      <4>6. k \in first' + echoed' .. first' + echoed' + lost'
        BY <2>1, <4>4, <4>5
      <4>7. QED
        BY <4>3, <4>4, <4>5, <4>6
    <3>3. QED
      BY <3>1, <3>2
  <2>8. Answers' => pkt_seq_no' = (first' + acked') % SeqMod
    <3>1. addr_len \in {-1, 0, SockaddrLen}
      BY DEF IInv, TypeOK
    <3>2. Answers' => Answers
      BY <2>1, <3>1 DEF Answers, SockaddrLen
    <3>3. QED
      BY <2>1, <3>2 DEF HeaderInv
  <2>9. Numbered(inbox', first' + echoed', lost')
    BY <2>1, <2>3, <2>4
  <2>10. QED
    BY <2>6, <2>7, <2>8, <2>9 DEF HeaderInv
<1>3. CASE Answer
  <2>1. /\ UNCHANGED <<program, addr_len, buffer, header, first, echoed>>
        /\ program = "old_udpreceiver" /\ pkt_seq_no' = (pkt_seq_no + 1) % SeqMod /\ rpc = "sleep"
        /\ addr_len \in {-1, SockaddrLen}
    BY <1>3 DEF Answer, SetAck, IInv, TypeOK, StartInv
  <2>2. Numbered(inbox, first + echoed, lost)
    BY <2>1 DEF HeaderInv
  <2>3. CASE Answers
    <3>1. /\ acked' = acked + 1 /\ lost' = lost + (IF Fits THEN 0 ELSE 1)
          /\ Deliver(Ack(pkt_seq_no'))
      BY <1>3, <2>1, <2>3 DEF Answer, Answers, SockaddrLen
    <3>2. pkt_seq_no' = (first + acked + 1) % SeqMod /\ pkt_seq_no' \in Numbers
      <4>1. pkt_seq_no = (first + acked) % SeqMod
        BY <2>1, <2>3 DEF HeaderInv
      <4>2. first + acked \in Nat
        BY <1>0
      <4>3. (((first + acked) % SeqMod) + 1) % SeqMod = (first + acked + 1) % SeqMod
        BY <4>2, ModNext
      <4>4. QED
        BY <1>0, <2>1, <4>1, <4>3 DEF IInv, TypeOK, Numbers
    <3>3. first + acked + 1 = first + echoed + (AckCount(inbox) + 1) + lost
      BY <1>0 DEF IInv, EchoInv
    <3>4. Numbered(inbox', first + echoed, lost')
      <4>1. CASE Fits
        <5>1. inbox' = Append(inbox, Ack(pkt_seq_no')) /\ lost' = lost
          BY <1>0, <3>1, <4>1 DEF Deliver
        <5>2. /\ Ack(pkt_seq_no') \in Packets
              /\ Ack(pkt_seq_no').number = (first + echoed + (AckCount(inbox) + 1) + lost) % SeqMod
          BY <3>2, <3>3 DEF Ack, Packets
        <5>3. QED
          BY <1>0, <2>2, <5>1, <5>2, NumbersAppend
      <4>2. CASE ~ Fits
        <5>1. inbox' = inbox /\ lost' = lost + 1
          BY <3>1, <4>2 DEF Deliver
        <5>2. QED
          BY <1>0, <2>2, <5>1, NumbersLost
      <4>3. QED
        BY <4>1, <4>2
    <3>5. header'.front = "ack" =>
            \E k \in first + echoed .. first + echoed + lost' : header'.number = Ntohl(k % SeqMod)
      <4>1. lost' = lost \/ lost' = lost + 1
        BY <1>0, <3>1
      <4>2. first + echoed .. first + echoed + lost \subseteq first + echoed .. first + echoed + lost'
        BY <1>0, <4>1
      <4>3. QED
        BY <2>1, <4>2 DEF HeaderInv
    <3>6. pkt_seq_no' = (first' + acked') % SeqMod
      <4>1. first' + acked' = first + acked + 1
        BY <1>0, <2>1, <3>1
      <4>2. QED
        BY <3>2, <4>1
    <3>7. QED
      BY <2>1, <3>4, <3>5, <3>6 DEF HeaderInv
  <2>4. CASE ~ Answers
    <3>1. UNCHANGED <<acked, lost, inbox>>
      BY <1>3, <2>1, <2>4 DEF Answer, Answers, SockaddrLen
    <3>2. QED
      BY <2>1, <2>4, <3>1 DEF HeaderInv, Answers
  <2>5. QED
    BY <2>3, <2>4
<1>4. CASE UNCHANGED <<program, addr_len, buffer, header, pkt_seq_no, inbox, history>>
  BY <1>4 DEF history, HeaderInv, Answers
<1>5. QED
  BY <1>1, <1>2, <1>3, <1>4
  DEF Next, ReceiverNext, GreetFails, Start, StartFails, Count, receiverVars, vars

(* What is read of an ack carries its number, which no wrap and no lost ack puts out of
   order, and what is read behind a greeting is an ack's, for any number of acks. *)
THEOREM HeadersReadCorrect == Spec => []HeadersRead
<1>1. Init => IInv /\ HeaderInv
  BY InitInv, HeaderInit
<1>2. (IInv /\ HeaderInv) /\ [Next]_vars => (IInv /\ HeaderInv)'
  BY StepInv, HeaderStep
<1>3. IInv /\ HeaderInv => HeadersRead
  <2> SUFFICES ASSUME IInv, HeaderInv, program = "old_udpreceiver", header.front = "ack"
               PROVE  \E k \in echoed .. echoed + lost : header.number = Ntohl((first + k) % SeqMod)
    BY DEF HeaderInv, HeadersRead
  <2>1. first \in Nat /\ echoed \in Nat /\ lost \in Nat
    BY DEF IInv, TypeOK, Numbers
  <2>2. PICK k \in first + echoed .. first + echoed + lost : header.number = Ntohl(k % SeqMod)
    BY DEF HeaderInv
  <2>3. k - first \in echoed .. echoed + lost /\ first + (k - first) = k
    BY <2>1
  <2>4. QED
    BY <2>2, <2>3
<1>4. QED
  BY <1>1, <1>2, <1>3, PTL DEF Spec

=============================================================================
