------------------------------ MODULE AckLoop ------------------------------
(***************************************************************************)
(* The first receivers of fpgas/, old_udpreceiver.c and udpreceiver.c, and  *)
(* the sender they were tried with, testsender.c.  The receiver listens on  *)
(* port 9000 and sends its acks to port 9000 of 127.0.0.1: to itself.  It    *)
(* counts them like any other packet.                                       *)
(*                                                                         *)
(* A greeting is 9 bytes long, an ack 24 and the header that read_header()  *)
(* reads 32, whatever was received.  Of a packet there is what it begins    *)
(* with, the number in its bytes 4 to 7 (Nothing if there is text) and what *)
(* its bytes 9 to 23 are: those of every ack are the same, a greeting does  *)
(* not reach them.                                                         *)
(***************************************************************************)
EXTENDS Integers, Sequences

CONSTANTS Senders,    \* runs of testsender
          Greetings,  \* 5
          AckEvery,   \* 16
          RcvBuf,     \* packets that wait in the socket
          Byte        \* 256, the values of a byte

ASSUME GreetingsAssumption == Greetings \in Nat
ASSUME AckEveryAssumption == AckEvery \in Nat \ {0, 1}
ASSUME RcvBufAssumption == RcvBuf \in Nat \ {0}
ASSUME ByteAssumption == Byte \in Nat \ {0, 1}

(* The numbers of four bytes, and ntohl() of a host with the lowest byte first: the
   bytes of each half change places, and then the halves. *)
Half == Byte * Byte
SeqMod == Half * Half
Swapped(n, digit) == (n % digit) * digit + n \div digit
Ntohl(n) == Swapped(Swapped(n % Half, Byte) + Half * Swapped(n \div Half, Byte), Half)

Nothing == -1
Numbers == 0 .. SeqMod - 1
Greeting == [front |-> "greeting", number |-> Nothing, rest |-> "none"]
Ack(n) == [front |-> "ack", number |-> n, rest |-> "ack"]
Packets == {Greeting} \cup { Ack(n) : n \in Numbers }

SockaddrLen == 16

VARIABLES
  program,       \* "old_udpreceiver" or "udpreceiver", which does not answer
  rpc,           \* the receiver: "start", "recv", "sleep" or "exit"
  addr_len,      \* read by recvfrom() and never set before
  buffer,        \* the same three parts of it
  header,        \* and of the last header read
  packet_count,
  pkt_seq_no,    \* of the ack packet; never set before it is counted up
  i,             \* of each sender: greetings sent
  inbox,         \* kernel: the receiver's socket
  first,         \* history: pkt_seq_no at the start
  greeted,       \* history: greetings received
  echoed,        \* history: acks received
  acked,         \* history: acks that sendto() took
  lost           \* history: acks of those that found the socket full

receiverVars == <<rpc, addr_len, buffer, header, packet_count, pkt_seq_no>>
history == <<first, greeted, echoed, acked, lost>>
vars == <<program, receiverVars, i, inbox, history>>

(* What is not set is anything; of the lengths, a negative one is told from one that
   is too short and one that will do. *)
Init ==
  /\ program \in {"old_udpreceiver", "udpreceiver"}
  /\ rpc = "start"
  /\ addr_len \in {-1, 0, SockaddrLen}
  /\ buffer = [front |-> "unset", number |-> Nothing, rest |-> "unset"]
  /\ header = buffer
  /\ packet_count = 0
  /\ pkt_seq_no \in Numbers
  /\ i = [s \in Senders |-> 0]
  /\ inbox = <<>>
  /\ first = pkt_seq_no
  /\ greeted = 0 /\ echoed = 0 /\ acked = 0 /\ lost = 0

(* A packet for port 9000 is dropped when the socket is full, or there is none. *)
Fits == rpc \in {"recv", "sleep"} /\ Len(inbox) < RcvBuf
Deliver(packet) == inbox' = IF Fits THEN Append(inbox, packet) ELSE inbox

-----------------------------------------------------------------------------
(* testsender.c *)

Greet(s) ==
  /\ i[s] < Greetings
  /\ i' = [i EXCEPT ![s] = @ + 1]
  /\ Deliver(Greeting)
  /\ UNCHANGED <<program, receiverVars, history>>

(* socket() or sendto() fails: return, or break, which is the end as well. *)
GreetFails(s) ==
  /\ i[s] < Greetings
  /\ i' = [i EXCEPT ![s] = Greetings]
  /\ UNCHANGED <<program, receiverVars, inbox, history>>

-----------------------------------------------------------------------------
(* The receiver. *)

Start ==
  /\ rpc = "start"
  /\ rpc' = "recv"
  /\ UNCHANGED <<program, addr_len, buffer, header, packet_count, pkt_seq_no, i, inbox, history>>

(* socket() or bind() fails. *)
StartFails ==
  /\ rpc = "start"
  /\ rpc' = "exit"
  /\ UNCHANGED <<program, addr_len, buffer, header, packet_count, pkt_seq_no, i, inbox, history>>

(* The packet covers the beginning of the buffer, the number included; behind a
   greeting the rest stays. *)
Filled(packet) ==
  [packet EXCEPT !.rest = IF packet = Greeting THEN buffer.rest ELSE packet.rest]

(* read_header(): 32 bytes of the buffer, however many came.  That of udpreceiver.c
   reads no further than the magic number. *)
ReadHeader ==
  header' = IF program = "old_udpreceiver"
            THEN [buffer' EXCEPT !.number = IF @ = Nothing THEN Nothing ELSE Ntohl(@)]
            ELSE [header EXCEPT !.front = buffer'.front]

(* recvfrom() takes the packet and then fails if addr_len is negative, else sets it to
   the length of the sender's address; recsize is only printed. *)
Receive ==
  /\ rpc = "recv"
  /\ inbox # <<>>
  /\ inbox' = Tail(inbox)
  /\ buffer' = Filled(Head(inbox))
  /\ ReadHeader
  /\ addr_len' = IF addr_len < 0 THEN addr_len ELSE SockaddrLen
  /\ rpc' = "sleep"
  /\ greeted' = greeted + (IF Head(inbox) = Greeting THEN 1 ELSE 0)
  /\ echoed' = echoed + (IF Head(inbox) = Greeting THEN 0 ELSE 1)
  /\ UNCHANGED <<program, packet_count, pkt_seq_no, i, first, acked, lost>>

(* sleep(1) is over. *)
Count ==
  /\ rpc = "sleep"
  /\ packet_count + 1 # AckEvery
  /\ packet_count' = packet_count + 1
  /\ rpc' = "recv"
  /\ UNCHANGED <<program, addr_len, buffer, header, pkt_seq_no, i, inbox, history>>

(* Mutants: the ack is counted at once; the receiver gives up when sendto() fails. *)
NextRoundAtOne == packet_count' = 1 /\ rpc' = "recv"
NextRoundOrExit == packet_count' = 0 /\ rpc' = IF addr_len < 0 THEN "exit" ELSE "recv"

NextRound == packet_count' = 0 /\ rpc' = "recv"

(* Mutant: the ack is a variable of the loop's body, cleared in each round. *)
SetAckAnew == pkt_seq_no' = 1

(* set_ack(): the one ack packet of the program, counted up in the host's order. *)
SetAck == pkt_seq_no' = (pkt_seq_no + 1) % SeqMod

(* set_ack() and sendto(), which fails for an address that is no address.  The
   sendto() of udpreceiver.c is commented out. *)
Answer ==
  /\ rpc = "sleep"
  /\ packet_count + 1 = AckEvery
  /\ NextRound
  /\ IF program = "old_udpreceiver" THEN SetAck ELSE UNCHANGED pkt_seq_no
  /\ IF program = "old_udpreceiver" /\ addr_len = SockaddrLen
     THEN /\ acked' = acked + 1
          /\ lost' = lost + (IF Fits THEN 0 ELSE 1)
          /\ Deliver(Ack(pkt_seq_no'))
     ELSE UNCHANGED <<acked, lost, inbox>>
  /\ UNCHANGED <<program, addr_len, buffer, header, i, first, greeted, echoed>>

ReceiverNext == Receive \/ Count \/ Answer

Next ==
  \/ \E s \in Senders : Greet(s) \/ GreetFails(s)
  \/ Start \/ StartFails \/ ReceiverNext

(* The receiver, once it runs, runs on; nobody need send anything. *)
Spec == Init /\ [][Next]_vars /\ WF_vars(ReceiverNext)

-----------------------------------------------------------------------------
(* What the state is made of. *)
Contents == [front : {"unset", "greeting", "ack"}, number : Numbers \cup {Nothing},
             rest : {"unset", "ack"}]

TypeOK ==
  /\ program \in {"old_udpreceiver", "udpreceiver"}
  /\ rpc \in {"start", "recv", "sleep", "exit"}
  /\ addr_len \in {-1, 0, SockaddrLen}
  /\ buffer \in Contents /\ header \in Contents
  /\ packet_count \in 0 .. AckEvery - 1
  /\ pkt_seq_no \in Numbers /\ first \in Numbers
  /\ i \in [Senders -> 0 .. Greetings]
  /\ inbox \in Seq(Packets)
  /\ greeted \in Nat /\ echoed \in Nat /\ acked \in Nat /\ lost \in Nat

Answers == program = "old_udpreceiver" /\ addr_len >= 0

(* "Send an Act Packet every 16 successive received packets": of the sender's packets
   alone there are at most 16 and at least 15 to an ack (its own acks fill the
   count up), whatever the socket loses and although it never looks at recsize.  The
   lower bound needs an addr_len that happened not to be negative. *)
AckRate ==
  /\ acked > 0 => (AckEvery - 1) * acked < greeted
  /\ Answers /\ rpc = "recv" => greeted < AckEvery * (acked + 1)

(* With no ack lost, the receiver waiting for the next packet has sent exactly one ack
   for every 15 of the sender's packets after the first, in whatever order its own
   came in between. *)
DrainedCount ==
  Answers /\ rpc = "recv" /\ inbox = <<>> /\ lost = 0 /\ greeted > 0 =>
    acked = (greeted - 1) \div (AckEvery - 1)

(* What old_udpreceiver.c reads of its own acks: after the echoed-th of them the header
   has, in the other byte order, the number of an ack that was sent, that very one if
   none was lost and else at most as many later as were lost; and a greeting, which is
   shorter than a header, is read with what the last ack left behind it, or with what
   was never set before there was one. *)
HeadersRead ==
  program = "old_udpreceiver" =>
    /\ header.front = "ack" =>
         \E k \in echoed .. echoed + lost : header.number = Ntohl((first + k) % SeqMod)
    /\ header.rest = "ack" <=> echoed > 0

(* The receiver's answers to its own answers come to an end, and no failing call ends
   it: once the senders are silent it waits in recvfrom() and nothing is left in the
   socket. *)
Quiesces == rpc = "recv" ~> [](rpc = "recv" /\ inbox = <<>>)

=============================================================================
