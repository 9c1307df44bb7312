--------------------------- MODULE ByteLoopsProofs ---------------------------
(***************************************************************************)
(* Proofs about the small functions over bytes, for any size of memory and  *)
(* any legal call: one loop invariant for each function.                   *)
(***************************************************************************)
EXTENDS ByteLoops, FiniteSetTheorems, SequenceTheorems, WellFoundedInduction, TLAPS

Bytes == 0 .. Memory

(* What the arguments of a legal call are, and what it never changes. *)
CallInv ==
  /\ start \in [Addresses -> Bytes] /\ mem \in [Addresses -> Bytes]
  /\ Swapping => call.ptr \in Nat /\ call.length \in Nat /\ call.ptr + call.length <= Memory
  /\ Measuring => call.str = NULL \/ (call.str \in Addresses /\ IsString(start, call.str))
  /\ Copying => \/ call.src = NULL
                \/ /\ call.src \in Addresses /\ call.dest \in Addresses
                   /\ IsString(start, call.src)
                   /\ call.dest + EndOf(start, call.src) - call.src < Memory
                   /\ call.dest <= call.src \/ call.dest > EndOf(start, call.src)
  /\ Reading => call.filesize \in 0 .. Memory
  /\ pc \in {"enter", "loop", "returned", "endless"}

(* The words before tmp are reversed, the rest is as it was. *)
SwapInv ==
  Swapping =>
    /\ pc = "enter" => mem = start
    /\ pc = "loop" =>
         /\ call.length % 8 = 0
         /\ i \in 1 .. call.length \div 8 + 1
         /\ p = call.ptr + 8 * (i - 1)
         /\ \A a \in Addresses :
              mem[a] = IF a \in call.ptr .. p - 1 THEN start[Reversed(a)] ELSE start[a]
    /\ SwapReverses

(* No 0 lies behind the pointer, which is i from the beginning. *)
LenInv ==
  Measuring =>
    /\ mem = start
    /\ pc = "enter" => i = 0
    /\ pc = "loop" => /\ call.str # NULL /\ p \in call.str .. EndOf(start, call.str)
                      /\ i = p - call.str
    /\ pc = "returned" => result = IF call.str = NULL THEN -1 ELSE EndOf(start, call.str) - call.str

(* What lies behind the two pointers has been copied, and nothing else has changed. *)
CopyInv ==
  Copying =>
    /\ pc = "enter" => mem = start
    /\ pc = "loop" =>
         /\ call.src # NULL /\ p \in call.src .. EndOf(start, call.src)
         /\ q = call.dest + (p - call.src)
         /\ \A a \in Addresses :
              mem[a] = IF a \in call.dest .. q - 1 THEN start[call.src + a - call.dest] ELSE start[a]
    /\ StringsRight

(* The string is what lies before the get pointer, until the end was met: then it has
   one character more. *)
ReadInv ==
  Reading =>
    /\ mem = start
    /\ pc = "enter" => str = <<>> /\ ~ eof /\ result = 0
    /\ pc = "loop" =>
         /\ result = 0
         /\ p \in 0 .. call.filesize
         /\ IF eof THEN p = call.filesize /\ str = Append(File(p), c)
                   ELSE str = File(p)
    /\ FileComesFirst
    /\ pc = "returned" /\ result = 0 => Len(str) = call.filesize + 1

IInv == CallInv /\ SwapInv /\ LenInv /\ CopyInv /\ ReadInv /\ ShiftsReverse

-----------------------------------------------------------------------------
LEMMA MinFact ==
  ASSUME NEW S \in SUBSET Int, S # {}, IsFiniteSet(S)
  PROVE  Min(S) \in S /\ \A x \in S : Min(S) <= x
<1> DEFINE HasMin(T) == \E x \in T : \A y \in T : x =< y
           Bad == { T \in SUBSET S : T # {} /\ ~ HasMin(T) }
<1>1. SUFFICES ASSUME Bad # {} PROVE FALSE
  BY DEF Min
<1>2. Bad \subseteq FiniteSubsetsOf(S)
  BY FS_Subset DEF FiniteSubsetsOf
<1>3. PICK T \in Bad : \A U \in Bad : ~ (<<U, T>> \in StrictSubsetOrdering(S))
  <2>1. IsWellFoundedOn(StrictSubsetOrdering(S), FiniteSubsetsOf(S))
    BY FS_StrictSubsetOrderingWellFounded
  <2>2. QED
    BY <1>1, <1>2, <2>1, WFMin, Zenon
<1>4. PICK x \in T : TRUE
  OBVIOUS
<1>5. T \ {x} \notin Bad
  BY <1>3, <1>4 DEF StrictSubsetOrdering
<1>6. CASE T \ {x} = {}
  BY <1>4, <1>6
<1>7. CASE HasMin(T \ {x})
  <2>1. PICK m \in T \ {x} : \A y \in T \ {x} : m =< y
    BY <1>7
  <2>2. CASE m =< x
    BY <2>1, <2>2
  <2>3. CASE x =< m
    BY <1>4, <2>1, <2>3
  <2>4. QED
    BY <1>4, <2>1, <2>2, <2>3
<1>8. QED
  BY <1>5, <1>6, <1>7

(* The end of a string is its first 0. *)
LEMMA EndFacts ==
  ASSUME NEW m \in [Addresses -> Bytes], NEW a \in Addresses, IsString(m, a)
  PROVE  /\ EndOf(m, a) \in Addresses /\ a <= EndOf(m, a) /\ m[EndOf(m, a)] = 0
         /\ \A e \in Addresses : a <= e /\ m[e] = 0 => EndOf(m, a) <= e
<1> DEFINE E == { e \in Addresses : a <= e /\ m[e] = 0 }
<1>1. Addresses \subseteq Int /\ IsFiniteSet(Addresses)
  BY MemoryAssumption, FS_Interval DEF Addresses
<1>2. E \in SUBSET Int /\ IsFiniteSet(E)
  BY <1>1, FS_Subset
<1>3. E # {}
  BY DEF IsString
<1>4. Min(E) \in E /\ \A x \in E : Min(E) <= x
  BY <1>2, <1>3, MinFact
<1>5. EndOf(m, a) = Min(E)
  BY DEF EndOf
<1>6. QED
  BY <1>4, <1>5

(* A step of one function says nothing about the others. *)
LEMMA OneFunction ==
  /\ Swapping => ~ Measuring /\ ~ Copying /\ ~ Reading /\ ~ Shifting
  /\ Measuring => ~ Copying /\ ~ Reading /\ ~ Shifting
  /\ Copying => ~ Reading /\ ~ Shifting
  /\ Reading => ~ Shifting
  BY DEF Swapping, Measuring, Copying, Reading, Shifting

LEMMA SameCall ==
  ASSUME call' = call
  PROVE  /\ Swapping' = Swapping /\ Measuring' = Measuring /\ Copying' = Copying
         /\ Reading' = Reading /\ Shifting' = Shifting
  BY DEF Swapping, Measuring, Copying, Reading, Shifting

LEMMA CallKept ==
  ASSUME CallInv, call' = call, start' = start, mem' \in [Addresses -> Bytes],
         pc' \in {"enter", "loop", "returned", "endless"}
  PROVE  CallInv'
  BY SameCall DEF CallInv

LEMMA InitInv == Init => IInv
<1> SUFFICES ASSUME Init PROVE IInv
  OBVIOUS
<1>1. mem = start /\ pc = "enter" /\ i = 0 /\ str = <<>> /\ ~ eof /\ result = 0 /\ Legal(call, start)
  BY DEF Init
<1>2. start \in [Addresses -> Bytes]
  <2>1. \E zeros : start \in Memories(zeros)
    BY DEF Init
  <2>2. \E z : start = [a \in Addresses |-> IF a \in z THEN 0 ELSE a + 1]
    BY <2>1 DEF Memories
  <2>3. QED
    BY <2>2, MemoryAssumption DEF Addresses, Bytes
<1>3. call \in SwapCalls \cup ShiftCalls \cup ReadCalls \cup StringCalls
  BY DEF Init
<1>4. Swapping => call.ptr \in Nat /\ call.length \in Nat /\ call.ptr + call.length <= Memory
  <2>1. ASSUME Swapping PROVE call \in SwapCalls
    BY <1>3, <2>1 DEF Swapping, ShiftCalls, ReadCalls, StringCalls
  <2>2. ASSUME Swapping PROVE call.ptr \in Nat /\ call.length \in Nat
    BY <2>1, <2>2, MemoryAssumption DEF SwapCalls, Addresses
  <2>3. ASSUME Swapping PROVE call.ptr + call.length <= Memory
    BY <1>1, <2>3 DEF Swapping, Legal
  <2>4. QED
    BY <2>2, <2>3
<1>5. Measuring => call.str = NULL \/ (call.str \in Addresses /\ IsString(start, call.str))
  <2>1. ASSUME Measuring PROVE call.str \in Addresses \cup {NULL}
    BY <1>3, <2>1 DEF Measuring, SwapCalls, ShiftCalls, ReadCalls, StringCalls
  <2>2. ASSUME Measuring PROVE call.str = NULL \/ IsString(start, call.str)
    BY <1>1, <2>2 DEF Measuring, Legal
  <2>3. QED
    BY <2>1, <2>2
<1>6. Copying => \/ call.src = NULL
                 \/ /\ call.src \in Addresses /\ call.dest \in Addresses
                    /\ IsString(start, call.src)
                    /\ call.dest + EndOf(start, call.src) - call.src < Memory
                    /\ call.dest <= call.src \/ call.dest > EndOf(start, call.src)
  <2>1. ASSUME Copying PROVE call.src \in Addresses \cup {NULL} /\ call.dest \in Addresses
    BY <1>3, <2>1 DEF Copying, SwapCalls, ShiftCalls, ReadCalls, StringCalls
  <2>2. ASSUME Copying
        PROVE  \/ call.src = NULL
               \/ /\ IsString(start, call.src)
                  /\ call.dest + EndOf(start, call.src) - call.src < Memory
                  /\ call.dest <= call.src \/ call.dest > EndOf(start, call.src)
    BY <1>1, <2>2 DEF Copying, Legal
  <2>3. QED
    BY <2>1, <2>2
<1>7. Reading => call.filesize \in 0 .. Memory
  BY <1>3 DEF Reading, SwapCalls, ShiftCalls, ReadCalls, StringCalls
<1>8. CallInv
  BY <1>1, <1>2, <1>4, <1>5, <1>6, <1>7 DEF CallInv
<1>9. SwapInv /\ LenInv /\ CopyInv /\ ReadInv /\ ShiftsReverse
  BY <1>1 DEF SwapInv, LenInv, CopyInv, ReadInv, SwapReverses, StringsRight, FileComesFirst, ShiftsReverse
<1>10. QED
  BY <1>8, <1>9 DEF IInv

-----------------------------------------------------------------------------
(* swap_every_64bit() *)

(* The four swaps turn the eight bytes around. *)
LEMMA WordReversed ==
  ASSUME NEW m \in [Addresses -> Bytes], NEW x \in Nat, x + 7 < Memory
  PROVE  LET w == SWAP(SWAP(SWAP(SWAP(m, x, x + 7), x + 1, x + 6), x + 2, x + 5), x + 3, x + 4)
         IN  /\ w \in [Addresses -> Bytes]
             /\ \A j \in Word : w[x + j] = m[x + (7 - j)]
             /\ \A a \in Addresses : a < x \/ x + 7 < a => w[a] = m[a]
<1> DEFINE w1 == SWAP(m, x, x + 7)
           w2 == SWAP(w1, x + 1, x + 6)
           w3 == SWAP(w2, x + 2, x + 5)
           w4 == SWAP(w3, x + 3, x + 4)
<1>1. \A a \in x .. x + 7 : a \in Addresses
  BY MemoryAssumption DEF Addresses
<1>2. ASSUME NEW u \in [Addresses -> Bytes], NEW a \in Addresses, NEW b \in Addresses, a # b
      PROVE  /\ SWAP(u, a, b) \in [Addresses -> Bytes]
             /\ SWAP(u, a, b)[a] = u[b] /\ SWAP(u, a, b)[b] = u[a]
             /\ \A d \in Addresses \ {a, b} : SWAP(u, a, b)[d] = u[d]
  BY <1>2 DEF SWAP
<1>3. /\ w1 \in [Addresses -> Bytes] /\ w1[x] = m[x + 7] /\ w1[x + 7] = m[x]
      /\ \A d \in Addresses \ {x, x + 7} : w1[d] = m[d]
  BY <1>1, <1>2
<1> HIDE DEF w1
<1>4. /\ w2 \in [Addresses -> Bytes] /\ w2[x + 1] = w1[x + 6] /\ w2[x + 6] = w1[x + 1]
      /\ \A d \in Addresses \ {x + 1, x + 6} : w2[d] = w1[d]
  BY <1>1, <1>2, <1>3
<1> HIDE DEF w2
<1>5. /\ w3 \in [Addresses -> Bytes] /\ w3[x + 2] = w2[x + 5] /\ w3[x + 5] = w2[x + 2]
      /\ \A d \in Addresses \ {x + 2, x + 5} : w3[d] = w2[d]
  BY <1>1, <1>2, <1>4
<1> HIDE DEF w3
<1>6. /\ w4 \in [Addresses -> Bytes] /\ w4[x + 3] = w3[x + 4] /\ w4[x + 4] = w3[x + 3]
      /\ \A d \in Addresses \ {x + 3, x + 4} : w4[d] = w3[d]
  BY <1>1, <1>2, <1>5
<1>7. w4 = SWAP(SWAP(SWAP(SWAP(m, x, x + 7), x + 1, x + 6), x + 2, x + 5), x + 3, x + 4)
  BY DEF w1, w2, w3
<1> HIDE DEF w4
<1>8. \A a \in Addresses : a < x \/ x + 7 < a => w4[a] = m[a]
  BY <1>3, <1>4, <1>5, <1>6 DEF Addresses
<1>9. ASSUME NEW j \in Word PROVE w4[x + j] = m[x + (7 - j)]
  <2>1. /\ x + 0 = x /\ x \in Addresses /\ x + 1 \in Addresses /\ x + 2 \in Addresses /\ x + 3 \in Addresses
        /\ x + 4 \in Addresses /\ x + 5 \in Addresses /\ x + 6 \in Addresses /\ x + 7 \in Addresses
    BY <1>1
  <2>2. w4[x] = m[x + 7] /\ w4[x + 7] = m[x]
    BY <1>3, <1>4, <1>5, <1>6, <2>1
  <2>3. w4[x + 1] = m[x + 6] /\ w4[x + 6] = m[x + 1]
    BY <1>3, <1>4, <1>5, <1>6, <2>1
  <2>4. w4[x + 2] = m[x + 5] /\ w4[x + 5] = m[x + 2]
    BY <1>3, <1>4, <1>5, <1>6, <2>1
  <2>5. w4[x + 3] = m[x + 4] /\ w4[x + 4] = m[x + 3]
    BY <1>3, <1>4, <1>5, <1>6, <2>1
  <2>6. j \in {0, 1, 2, 3, 4, 5, 6, 7}
    BY DEF Word
  <2>7. QED
    BY <2>2, <2>3, <2>4, <2>5, <2>6
<1>10. QED
  BY <1>6, <1>7, <1>8, <1>9

LEMMA SwapStep ==
  ASSUME IInv, SwapEnter \/ SwapWord \/ SwapLast
  PROVE  CallInv' /\ Swapping /\ SwapInv' /\ call' = call
<1> USE MemoryAssumption
<1>0. /\ Swapping /\ call' = call /\ start' = start /\ Swapping'
      /\ start \in [Addresses -> Bytes] /\ mem \in [Addresses -> Bytes]
      /\ call.ptr \in Nat /\ call.length \in Nat /\ call.ptr + call.length <= Memory
  BY SameCall DEF SwapEnter, SwapWord, SwapLast, IInv, CallInv
<1>1. CASE SwapEnter
  <2>1. /\ pc = "enter" /\ mem = start /\ mem' = start
        /\ IF call.length % 8 # 0 \/ call.length = 0
           THEN pc' = "returned" ELSE pc' = "loop" /\ p' = call.ptr /\ i' = 1
    BY <1>0, <1>1 DEF SwapEnter, Return, IInv, SwapInv
  <2>2. CallInv'
    BY <1>0, <2>1, CallKept DEF IInv
  <2>3. CASE pc' = "returned"
    <3>1. SwapReverses'
      BY <1>0, <2>1, <2>3 DEF SwapReverses, Addresses
    <3>2. QED
      BY <1>0, <2>2, <2>3, <3>1 DEF SwapInv
  <2>4. CASE pc' = "loop"
    <3>1. /\ call.length % 8 = 0 /\ p' = call.ptr /\ i' = 1
          /\ i' \in 1 .. call.length \div 8 + 1 /\ p' = call.ptr + 8 * (i' - 1)
      BY <1>0, <2>1, <2>4
    <3>2. \A a \in Addresses : mem'[a] = start'[a] /\ a \notin call.ptr .. p' - 1
      BY <1>0, <2>1, <3>1 DEF Addresses
    <3>3. QED
      BY <1>0, <2>2, <2>4, <3>1, <3>2 DEF SwapInv, SwapReverses
  <2>5. QED
    BY <2>1, <2>3, <2>4
<1>2. CASE SwapWord
  <2>1. /\ pc = "loop" /\ pc' = "loop" /\ i <= call.length \div 8 /\ p' = p + 8 /\ i' = i + 1
        /\ mem' = SWAP(SWAP(SWAP(SWAP(mem, p, p + 7), p + 1, p + 6), p + 2, p + 5), p + 3, p + 4)
    BY <1>2 DEF SwapWord
  <2>2. /\ call.length % 8 = 0 /\ i \in 1 .. call.length \div 8 + 1
        /\ p = call.ptr + 8 * (i - 1)
        /\ \A a \in Addresses :
             mem[a] = IF a \in call.ptr .. p - 1 THEN start[Reversed(a)] ELSE start[a]
    BY <1>0, <2>1 DEF IInv, SwapInv
  <2>3. p \in Nat /\ p + 7 < Memory /\ i \in Nat
    BY <1>0, <2>1, <2>2
  <2>4. /\ mem' \in [Addresses -> Bytes]
        /\ \A j \in Word : mem'[p + j] = mem[p + (7 - j)]
        /\ \A a \in Addresses : a < p \/ p + 7 < a => mem'[a] = mem[a]
    BY <1>0, <2>1, <2>3, WordReversed
  <2>5. CallInv'
    BY <1>0, <2>1, <2>4, CallKept DEF IInv
  <2>6. i' \in 1 .. call.length \div 8 + 1 /\ p' = call.ptr + 8 * (i' - 1)
    BY <1>0, <2>1, <2>2
  <2>7. ASSUME NEW a \in Addresses
        PROVE  mem'[a] = IF a \in call.ptr .. p' - 1 THEN start[Reversed(a)] ELSE start[a]
    <3>1. CASE a < p \/ p + 7 < a
      <4>1. mem'[a] = mem[a] /\ a \in Int
        BY <2>4, <3>1 DEF Addresses
      <4>2. a \in call.ptr .. p - 1 <=> a \in call.ptr .. p' - 1
        BY <1>0, <2>1, <2>3, <3>1, <4>1
      <4>3. QED
        BY <2>2, <4>1, <4>2
    <3>2. CASE a \in p .. p + 7
      <4>1. PICK j \in Word : a = p + j
        <5>1. a - p \in Word /\ a = p + (a - p)
          BY <2>3, <3>2 DEF Word
        <5>2. QED
          BY <5>1
      <4>2. mem'[a] = mem[p + (7 - j)]
        BY <2>4, <4>1
      <4>3. p + (7 - j) \in Addresses /\ p + (7 - j) \notin call.ptr .. p - 1 /\ j \in 0 .. 7
        BY <2>3, <4>1 DEF Addresses, Word
      <4>4. mem'[a] = start[p + (7 - j)]
        BY <2>2, <4>2, <4>3
      <4>5. Reversed(a) = p + (7 - j)
        <5>1. a - call.ptr = 8 * (i - 1) + j
          BY <1>0, <2>2, <2>3, <4>1, <4>3
        <5>2. (8 * (i - 1) + j) \div 8 = i - 1 /\ (8 * (i - 1) + j) % 8 = j
          BY <2>2, <2>3, <4>3
        <5>3. QED
          BY <1>0, <2>2, <2>3, <4>3, <5>1, <5>2 DEF Reversed
      <4>6. a \in call.ptr .. p' - 1
        BY <1>0, <2>1, <2>2, <2>3, <4>1, <4>3
      <4>7. QED
        BY <4>4, <4>5, <4>6
    <3>3. QED
      BY <2>3, <3>1, <3>2 DEF Addresses
  <2>8. \A a : Reversed(a)' = Reversed(a)
    BY <1>0 DEF Reversed
  <2>9. QED
    BY <1>0, <2>1, <2>2, <2>5, <2>6, <2>7, <2>8 DEF SwapInv, SwapReverses
<1>3. CASE SwapLast
  <2>1. pc = "loop" /\ pc' = "returned" /\ i > call.length \div 8 /\ mem' = mem
    BY <1>3 DEF SwapLast, Return
  <2>2. /\ call.length % 8 = 0 /\ i \in 1 .. call.length \div 8 + 1
        /\ p = call.ptr + 8 * (i - 1)
        /\ \A a \in Addresses :
             mem[a] = IF a \in call.ptr .. p - 1 THEN start[Reversed(a)] ELSE start[a]
    BY <1>0, <2>1 DEF IInv, SwapInv
  <2>3. p = call.ptr + call.length
    BY <1>0, <2>1, <2>2
  <2>4. \A a : Reversed(a)' = Reversed(a)
    BY <1>0 DEF Reversed
  <2>5. SwapReverses'
    BY <1>0, <2>1, <2>2, <2>3, <2>4 DEF SwapReverses
  <2>6. CallInv'
    BY <1>0, <2>1, CallKept DEF IInv
  <2>7. QED
    BY <1>0, <2>1, <2>5, <2>6 DEF SwapInv
<1>4. QED
  BY <1>1, <1>2, <1>3

-----------------------------------------------------------------------------
(* strlen_w() *)

LEMMA LenStep ==
  ASSUME IInv, LenEnter \/ LenNext \/ LenLast
  PROVE  CallInv' /\ Measuring /\ LenInv' /\ call' = call
<1>0. /\ Measuring /\ Measuring' /\ call' = call /\ start' = start /\ mem' = mem /\ mem = start
      /\ start \in [Addresses -> Bytes] /\ mem \in [Addresses -> Bytes]
      /\ call.str = NULL \/ (call.str \in Addresses /\ IsString(start, call.str))
  BY SameCall DEF LenEnter, LenNext, LenLast, IInv, CallInv, LenInv
<1>1. call.str # NULL =>
        /\ EndOf(start, call.str) \in Addresses /\ call.str \in Addresses
        /\ call.str <= EndOf(start, call.str) /\ start[EndOf(start, call.str)] = 0
        /\ \A e \in Addresses : call.str <= e /\ start[e] = 0 => EndOf(start, call.str) <= e
  BY <1>0, EndFacts
<1>2. \A e \in Addresses : e \in Int
  BY DEF Addresses
<1> DEFINE z == EndOf(start, call.str)
<1>3. CASE LenEnter
  <2>1. pc = "enter" /\ i = 0 /\ i' = 0
    BY <1>0, <1>3 DEF LenEnter, IInv, LenInv
  <2>2. CASE call.str = NULL
    <3>1. pc' = "returned" /\ result' = -1
      BY <1>3, <2>2 DEF LenEnter, Return
    <3>2. QED
      BY <1>0, <2>2, <3>1, CallKept DEF IInv, LenInv
  <2>3. CASE call.str # NULL /\ mem[call.str] = 0
    <3>1. pc' = "returned" /\ result' = 0
      BY <1>3, <2>1, <2>3 DEF LenEnter, Return
    <3>2. z = call.str /\ z \in Int
      BY <1>0, <1>1, <1>2, <2>3
    <3>3. z - call.str = 0
      BY <3>2
    <3>4. QED
      BY <1>0, <2>3, <3>1, <3>3, CallKept DEF IInv, LenInv
  <2>4. CASE call.str # NULL /\ mem[call.str] # 0
    <3>1. pc' = "loop" /\ p' = call.str
      BY <1>3, <2>4 DEF LenEnter, Return
    <3>2. p' \in call.str .. z /\ i' = p' - call.str
      BY <1>1, <1>2, <2>1, <2>4, <3>1
    <3>3. QED
      BY <1>0, <2>4, <3>1, <3>2, CallKept DEF IInv, LenInv
  <2>5. QED
    BY <2>2, <2>3, <2>4
<1>4. CASE LenNext \/ LenLast
  <2>1. pc = "loop" /\ call.str # NULL /\ p \in call.str .. z /\ i = p - call.str
    BY <1>0, <1>4 DEF LenNext, LenLast, IInv, LenInv
  <2>2. z \in Int /\ call.str \in Int /\ p \in Addresses
    BY <1>1, <1>2, <2>1, MemoryAssumption DEF Addresses
  <2>3. CASE LenNext
    <3>1. pc' = "loop" /\ p' = p + 1 /\ i' = i + 1 /\ start[p] # 0
      BY <1>0, <2>1, <2>3 DEF LenNext
    <3>2. p # z
      BY <1>1, <2>1, <3>1
    <3>3. p' \in call.str .. z /\ i' = p' - call.str
      BY <2>1, <2>2, <3>1, <3>2
    <3>4. QED
      BY <1>0, <2>1, <3>1, <3>3, CallKept DEF IInv, LenInv
  <2>4. CASE LenLast
    <3>1. pc' = "returned" /\ result' = i /\ start[p] = 0
      BY <1>0, <2>4 DEF LenLast, Return
    <3>2. z <= p
      BY <1>1, <2>1, <2>2, <3>1
    <3>3. p = z
      BY <2>1, <2>2, <3>2
    <3>4. result' = z - call.str
      BY <2>1, <3>1, <3>3
    <3>5. QED
      BY <1>0, <2>1, <3>1, <3>4, CallKept DEF IInv, LenInv
  <2>5. QED
    BY <1>4, <2>3, <2>4
<1>5. QED
  BY <1>3, <1>4

-----------------------------------------------------------------------------
(* strcpy_w() *)

LEMMA CopyStep ==
  ASSUME IInv, CopyEnter \/ CopyNext \/ CopyLast
  PROVE  CallInv' /\ Copying /\ CopyInv' /\ call' = call
<1>0. /\ Copying /\ Copying' /\ ~ Measuring' /\ call' = call /\ start' = start
      /\ start \in [Addresses -> Bytes] /\ mem \in [Addresses -> Bytes]
  BY SameCall, OneFunction DEF CopyEnter, CopyNext, CopyLast, IInv, CallInv
<1> DEFINE z == EndOf(start, call.src)
<1>1. call.src # NULL =>
        /\ z \in Addresses /\ call.src \in Addresses /\ call.dest \in Addresses
        /\ call.src <= z /\ start[z] = 0
        /\ \A e \in Addresses : call.src <= e /\ start[e] = 0 => z <= e
        /\ call.dest + z - call.src < Memory
        /\ call.dest <= call.src \/ call.dest > z
  BY <1>0, EndFacts DEF IInv, CallInv
<1> HIDE DEF z
<1>2. Memory \in Int /\ \A e \in Addresses : e \in Int /\ 0 <= e /\ e < Memory
  BY MemoryAssumption DEF Addresses
<1>3. CASE CopyEnter
  <2>1. pc = "enter" /\ mem = start /\ mem' = mem
    BY <1>0, <1>3 DEF CopyEnter, IInv, CopyInv
  <2>2. CASE call.src = NULL
    <3>1. pc' = "returned" /\ result' = NULL
      BY <1>3, <2>2 DEF CopyEnter, Return
    <3>2. QED
      BY <1>0, <2>1, <2>2, <3>1, CallKept DEF IInv, CopyInv, StringsRight
  <2>3. CASE call.src # NULL
    <3>1. pc' = "loop" /\ p' = call.src /\ q' = call.dest
      BY <1>3, <2>3 DEF CopyEnter, Return
    <3>2. p' \in call.src .. z /\ q' = call.dest + (p' - call.src) /\ q' \in Int
      BY <1>1, <1>2, <2>3, <3>1
    <3>3. \A a \in Addresses : a \notin call.dest .. q' - 1
      BY <1>2, <3>1, <3>2
    <3>4. QED
      BY <1>0, <2>1, <2>3, <3>1, <3>2, <3>3, CallKept DEF IInv, CopyInv, StringsRight, z
  <2>4. QED
    BY <2>2, <2>3
<1>4. CASE CopyNext \/ CopyLast
  <2>1. /\ pc = "loop" /\ call.src # NULL /\ p \in call.src .. z /\ q = call.dest + (p - call.src)
        /\ \A a \in Addresses :
             mem[a] = IF a \in call.dest .. q - 1 THEN start[call.src + a - call.dest] ELSE start[a]
    BY <1>0, <1>4 DEF CopyNext, CopyLast, IInv, CopyInv, z
  <2>2. /\ p \in Int /\ q \in Int /\ z \in Int /\ call.src \in Int /\ call.dest \in Int
        /\ p \in Addresses /\ q \in Addresses
    BY <1>1, <1>2, <2>1 DEF Addresses
  <2>3. p \notin call.dest .. q - 1
    BY <1>1, <1>2, <2>1, <2>2
  <2>4. mem[p] = start[p]
    BY <2>1, <2>2, <2>3
  <2>5. call.src + q - call.dest = p
    BY <2>1, <2>2
  <2>6. CASE CopyNext
    <3>1. /\ pc' = "loop" /\ mem[p] # 0 /\ p' = p + 1 /\ q' = q + 1
          /\ mem' = [mem EXCEPT ![q] = mem[p]]
      BY <2>6 DEF CopyNext
    <3>2. p # z
      BY <1>1, <2>1, <2>4, <3>1
    <3>3. p' \in call.src .. z /\ q' = call.dest + (p' - call.src)
      BY <2>1, <2>2, <3>1, <3>2
    <3>4. ASSUME NEW a \in Addresses
          PROVE  mem'[a] = IF a \in call.dest .. q' - 1 THEN start[call.src + a - call.dest] ELSE start[a]
      <4>1. CASE a = q
        <5>1. mem'[a] = start[p] /\ a \in call.dest .. q' - 1
          BY <1>0, <1>1, <2>1, <2>2, <2>4, <3>1, <4>1
        <5>2. QED
          BY <2>5, <4>1, <5>1
      <4>2. CASE a # q
        <5>1. mem'[a] = mem[a]
          BY <1>0, <2>2, <3>1, <4>2
        <5>2. a \in call.dest .. q' - 1 <=> a \in call.dest .. q - 1
          BY <1>2, <2>2, <3>1, <4>2
        <5>3. QED
          BY <2>1, <5>1, <5>2
      <4>3. QED
        BY <4>1, <4>2
    <3>5. mem' \in [Addresses -> Bytes]
      BY <1>0, <2>2, <3>1
    <3>6. CallInv'
      BY <1>0, <3>1, <3>5, CallKept DEF IInv
    <3>7. QED
      BY <1>0, <2>1, <3>1, <3>3, <3>4, <3>6 DEF CopyInv, StringsRight, z
  <2>7. CASE CopyLast
    <3>1. /\ pc' = "returned" /\ result' = call.dest /\ mem[p] = 0
          /\ mem' = [mem EXCEPT ![q] = 0]
      BY <2>7 DEF CopyLast, Return
    <3>2. z <= p
      BY <1>1, <2>1, <2>2, <2>4, <3>1
    <3>3. p = z /\ q = call.dest + (z - call.src)
      BY <2>1, <2>2, <3>2
    <3>4. ASSUME NEW a \in Addresses
          PROVE  mem'[a] = IF a \in call.dest .. call.dest + (z - call.src)
                           THEN start[call.src + a - call.dest] ELSE start[a]
      <4>1. CASE a = q
        <5>1. mem'[a] = start[p] /\ a \in call.dest .. call.dest + (z - call.src)
          BY <1>0, <1>1, <2>1, <2>2, <2>4, <3>1, <3>3, <4>1
        <5>2. QED
          BY <2>5, <4>1, <5>1
      <4>2. CASE a # q
        <5>1. mem'[a] = mem[a]
          BY <1>0, <2>2, <3>1, <4>2
        <5>2. a \in call.dest .. call.dest + (z - call.src) <=> a \in call.dest .. q - 1
          BY <1>2, <2>2, <3>3, <4>2
        <5>3. QED
          BY <2>1, <5>1, <5>2
      <4>3. QED
        BY <4>1, <4>2
    <3>5. mem' \in [Addresses -> Bytes]
      BY <1>0, <2>2, <3>1, MemoryAssumption DEF Bytes
    <3>6. CallInv'
      BY <1>0, <3>1, <3>5, CallKept DEF IInv
    <3>7. StringsRight'
      BY <1>0, <2>1, <3>1, <3>4 DEF StringsRight, z
    <3>8. QED
      BY <1>0, <3>1, <3>6, <3>7 DEF CopyInv
  <2>8. QED
    BY <1>4, <2>6, <2>7
<1>5. QED
  BY <1>3, <1>4

-----------------------------------------------------------------------------
(* The swaps by shifting. *)

LEMMA ShiftStep ==
  ASSUME IInv, Shift
  PROVE  CallInv' /\ Shifting /\ ShiftsReverse' /\ call' = call
<1>0. /\ Shifting /\ call' = call /\ start' = start /\ mem' = mem /\ pc' = "returned" /\ Shifting'
      /\ result' = CASE call.function = "swap_64bit" -> Swap64(Operand)
                     [] call.function = "swap_endian_short" -> SwapShort(Operand)
                     [] call.function = "swap_endian_short2" -> SwapShort2(Operand)
  BY SameCall DEF Shift, Return
<1>1. CallInv'
  BY <1>0, CallKept DEF IInv, CallInv
<1>2. Operand' = Operand
  BY <1>0 DEF Operand
<1>3. CASE call.function = "swap_64bit"
  <2>1. result' = Swap64(Operand) /\ DOMAIN Operand = Word
    BY <1>0, <1>3 DEF Operand
  <2>2. \A b \in Word : Swap64(Operand)[b] = Operand[7 - b]
    <3>1. SUFFICES ASSUME NEW b \in Word PROVE Swap64(Operand)[b] = Operand[7 - b]
      OBVIOUS
    <3>2. b \in {0, 1, 2, 3, 4, 5, 6, 7}
      BY DEF Word
    <3>3. QED
      BY <3>2 DEF Swap64, ByteOf, Word
  <2>3. QED
    BY <1>0, <1>1, <1>2, <1>3, <2>1, <2>2 DEF ShiftsReverse
<1>4. CASE call.function = "swap_endian_short"
  <2>1. result' = SwapShort(Operand) /\ DOMAIN Operand = 0 .. 1
    BY <1>0, <1>4 DEF Operand
  <2>2. \A b \in 0 .. 1 : SwapShort(Operand)[b] = Operand[1 - b]
    BY DEF SwapShort
  <2>3. QED
    BY <1>0, <1>1, <1>2, <1>4, <2>1, <2>2 DEF ShiftsReverse
<1>5. CASE call.function = "swap_endian_short2"
  <2>1. result' = SwapShort2(Operand) /\ DOMAIN Operand = 0 .. 1
    BY <1>0, <1>5 DEF Operand
  <2>2. \A b \in 0 .. 1 : SwapShort2(Operand)[b] = IF b = 0 THEN 0 ELSE Operand[1 - b]
    BY DEF SwapShort2
  <2>3. QED
    BY <1>0, <1>1, <1>2, <1>5, <2>1, <2>2 DEF ShiftsReverse
<1>6. QED
  BY <1>0, <1>3, <1>4, <1>5 DEF Shifting

-----------------------------------------------------------------------------
(* The reading loop of toggle-comment.cc *)

LEMMA FileNext ==
  ASSUME start \in [Addresses -> Bytes], NEW n \in Nat
  PROVE  File(0) = <<>> /\ Append(File(n), start[n]) = File(n + 1)
<1> DEFINE S == { start[j - 1] : j \in 1 .. n + 1 }
<1>1. /\ File(n) \in Seq(S) /\ Len(File(n)) = n
      /\ File(n + 1) \in Seq(S) /\ Len(File(n + 1)) = n + 1
      /\ start[n] \in S
  <2>1. \A j \in 1 .. n : start[j - 1] \in S
    OBVIOUS
  <2>2. \A j \in 1 .. n + 1 : start[j - 1] \in S
    OBVIOUS
  <2>3. start[n] \in S
    <3>1. n + 1 \in 1 .. n + 1 /\ (n + 1) - 1 = n
      OBVIOUS
    <3>2. QED
      BY <3>1, <2>2
  <2> HIDE DEF S
  <2>4. File(n) \in Seq(S) /\ Len(File(n)) = n
    BY <2>1 DEF File
  <2>5. File(n + 1) \in Seq(S) /\ Len(File(n + 1)) = n + 1
    BY <2>2 DEF File
  <2>6. QED
    BY <2>3, <2>4, <2>5
<1> HIDE DEF S
<1>2. /\ Append(File(n), start[n]) \in Seq(S) /\ Len(Append(File(n), start[n])) = n + 1
      /\ \A j \in 1 .. n : Append(File(n), start[n])[j] = File(n)[j]
      /\ Append(File(n), start[n])[n + 1] = start[n]
  BY <1>1, AppendProperties
<1>3. \A j \in 1 .. n + 1 : Append(File(n), start[n])[j] = File(n + 1)[j]
  BY <1>2 DEF File
<1>4. Append(File(n), start[n]) = File(n + 1)
  BY <1>1, <1>2, <1>3, SeqEqual
<1>5. File(0) = <<>>
  BY DEF File
<1>6. QED
  BY <1>4, <1>5

(* What a character more does to the string. *)
LEMMA OneMoreCharacter ==
  ASSUME NEW n \in Nat, NEW e
  PROVE  /\ Len(File(n)) = n /\ Len(Append(File(n), e)) = n + 1
         /\ \A j \in 1 .. n : Append(File(n), e)[j] = File(n)[j]
  BY DEF File

LEMMA ReadStep ==
  ASSUME IInv, ReadEnter \/ ReadNext \/ ReadEnd \/ ReadFails \/ ReadLast
  PROVE  CallInv' /\ Reading /\ ReadInv' /\ call' = call
<1>0. /\ Reading /\ Reading' /\ call' = call /\ start' = start /\ mem' = mem /\ mem = start
      /\ start \in [Addresses -> Bytes] /\ mem \in [Addresses -> Bytes]
      /\ call.filesize \in Nat /\ call.filesize <= Memory
  BY SameCall, MemoryAssumption
  DEF ReadEnter, ReadNext, ReadEnd, ReadFails, ReadLast, IInv, CallInv, ReadInv
<1>1. \A n : File(n)' = File(n)
  BY <1>0 DEF File
<1>2. pc' \in {"loop", "returned", "endless"} => CallInv'
  BY <1>0, CallKept DEF IInv
<1>3. CASE ReadEnter
  <2>1. str = <<>> /\ ~ eof /\ result = 0 /\ str' = str /\ eof' = eof
    BY <1>0, <1>3 DEF ReadEnter, fileVars, IInv, ReadInv
  <2>2. CASE pc' = "loop" /\ p' = 0 /\ result' = result
    <3>1. p' \in 0 .. call.filesize /\ str' = File(p') /\ Len(str') >= p' /\ 1 .. p' = {}
      BY <1>0, <2>1, <2>2, FileNext
    <3>2. QED
      BY <1>0, <1>1, <1>2, <2>1, <2>2, <3>1 DEF ReadInv, FileComesFirst
  <2>3. CASE pc' = "returned" /\ result' = -1
    BY <1>0, <1>2, <2>3 DEF ReadInv, FileComesFirst
  <2>4. QED
    BY <1>3, <2>2, <2>3 DEF ReadEnter, Return
<1>4. CASE ReadNext \/ ReadEnd \/ ReadFails \/ ReadLast
  <2>1. /\ pc = "loop" /\ p \in 0 .. call.filesize /\ p \in Nat /\ result = 0
        /\ IF eof THEN p = call.filesize /\ str = Append(File(p), c) ELSE str = File(p)
    BY <1>0, <1>4 DEF ReadNext, ReadEnd, ReadFails, ReadLast, IInv, ReadInv
  <2>2. CASE ReadNext
    <3>1. /\ ~ eof /\ ~ eof' /\ p < call.filesize /\ p' = p + 1
          /\ str' = Append(str, start[p]) /\ pc' = "loop" /\ result' = result
      BY <1>0, <2>1, <2>2 DEF ReadNext
    <3>2. p' \in 0 .. call.filesize /\ p' \in Nat
      BY <1>0, <2>1, <3>1
    <3>3. str' = File(p')
      BY <1>0, <2>1, <3>1, <3>2, FileNext
    <3>4. Len(str') >= p'
      BY <3>2, <3>3, OneMoreCharacter
    <3>5. QED
      BY <1>0, <1>1, <1>2, <2>1, <3>1, <3>2, <3>3, <3>4 DEF ReadInv, FileComesFirst
  <2>3. CASE ReadEnd \/ ReadFails
    <3>1. /\ ~ eof /\ p' = p /\ c' = c /\ str' = Append(File(p), c) /\ result' = result
          /\ \/ pc' = "loop" /\ eof' /\ p = call.filesize
             \/ pc' = "endless"
      BY <2>1, <2>3 DEF ReadEnd, ReadFails
    <3>2. Len(str') >= p /\ \A j \in 1 .. p : str'[j] = File(p)[j]
      BY <2>1, <3>1, OneMoreCharacter
    <3>3. QED
      BY <1>0, <1>1, <1>2, <2>1, <3>1, <3>2 DEF ReadInv, FileComesFirst
  <2>4. CASE ReadLast
    <3>1. eof /\ pc' = "returned" /\ str' = str /\ p' = p
      BY <2>4 DEF ReadLast, Return, fileVars
    <3>2. /\ p = call.filesize /\ Len(str) >= p /\ \A j \in 1 .. p : str[j] = File(p)[j]
          /\ Len(str) = call.filesize + 1
      <4>1. p = call.filesize /\ str = Append(File(p), c) /\ p \in Nat
        BY <2>1, <3>1
      <4>2. Len(str) = p + 1 /\ \A j \in 1 .. p : str[j] = File(p)[j]
        BY <4>1, OneMoreCharacter
      <4>3. QED
        BY <4>1, <4>2
    <3>3. QED
      BY <1>0, <1>1, <1>2, <3>1, <3>2 DEF ReadInv, FileComesFirst
  <2>5. QED
    BY <1>4, <2>2, <2>3, <2>4
<1>5. QED
  BY <1>3, <1>4

-----------------------------------------------------------------------------
LEMMA StepInv == IInv /\ [Next]_vars => IInv'
<1> SUFFICES ASSUME IInv, [Next]_vars PROVE IInv'
  OBVIOUS
<1>1. CASE UNCHANGED vars
  <2>1. UNCHANGED <<call, start, mem, pc, p, q, i, result, str, c, eof>>
    BY <1>1 DEF vars, fileVars
  <2>2. CallInv' /\ LenInv' /\ ReadInv'
    BY <2>1 DEF IInv, CallInv, Swapping, Measuring, Copying, Reading, LenInv, ReadInv, File,
       FileComesFirst
  <2>3. SwapInv' /\ CopyInv'
    BY <2>1 DEF IInv, SwapInv, CopyInv, Swapping, Measuring, Copying, SwapReverses, StringsRight, Reversed
  <2>4. ShiftsReverse'
    BY <2>1 DEF IInv, Shifting, ShiftsReverse, Operand
  <2>5. QED
    BY <2>2, <2>3, <2>4 DEF IInv
<1>2. CASE SwapEnter \/ SwapWord \/ SwapLast
  BY <1>2, SwapStep, OneFunction, SameCall DEF IInv, LenInv, CopyInv, ReadInv, ShiftsReverse
<1>3. CASE LenEnter \/ LenNext \/ LenLast
  BY <1>3, LenStep, OneFunction, SameCall DEF IInv, SwapInv, CopyInv, ReadInv, ShiftsReverse
<1>4. CASE CopyEnter \/ CopyNext \/ CopyLast
  BY <1>4, CopyStep, OneFunction, SameCall DEF IInv, SwapInv, LenInv, ReadInv, ShiftsReverse
<1>5. CASE Shift
  BY <1>5, ShiftStep, OneFunction, SameCall DEF IInv, SwapInv, LenInv, CopyInv, ReadInv
<1>6. CASE ReadEnter \/ ReadNext \/ ReadEnd \/ ReadFails \/ ReadLast
  BY <1>6, ReadStep, OneFunction, SameCall DEF IInv, SwapInv, LenInv, CopyInv, ShiftsReverse
<1>7. QED
  BY <1>1, <1>2, <1>3, <1>4, <1>5, <1>6 DEF Next, Returned

(* The loop invariants of all functions hold throughout every legal call. *)
THEOREM Invariance == Spec => []IInv
  BY InitInv, StepInv, PTL DEF Spec

(* swap_every_64bit() reverses every word of any block of memory and no other byte. *)
THEOREM SwapCorrect == Spec => []SwapReverses
<1>1. IInv => SwapReverses
  BY DEF IInv, SwapInv, SwapReverses
<1>2. QED
  BY <1>1, Invariance, PTL

(* The swaps by shifting reverse their word, one of them only half of it. *)
THEOREM ShiftsCorrect == Spec => []ShiftsReverse
<1>1. IInv => ShiftsReverse
  BY DEF IInv
<1>2. QED
  BY <1>1, Invariance, PTL

(* strlen_w() and strcpy_w() do what they are named for, overlapping or not. *)
THEOREM StringsCorrect == Spec => []StringsRight
<1>1. IInv => StringsRight
  BY OneFunction DEF IInv, LenInv, CopyInv, StringsRight
<1>2. QED
  BY <1>1, Invariance, PTL

(* The string begins with what was read of the file, and at the end with all of it, for
   a file of any size and wherever reading fails. *)
THEOREM ReadingCorrect == Spec => []FileComesFirst
<1>1. IInv => FileComesFirst
  BY DEF IInv, ReadInv, FileComesFirst
<1>2. QED
  BY <1>1, Invariance, PTL

(* "read file into a string by stream iterator, you can also use infile.get(char)"
   (toggle-comment.cc:59, and lines 2-4): the string is the file. *)
FileIntoString == str = File(call.filesize)

(* The comment is true of no file, of whatever size: when the program has read one to
   its end, the string is not the file, which has one character less. *)
THEOREM NeverIntoString == Spec => [](Reading /\ pc = "returned" /\ result = 0 => ~ FileIntoString)
<1>1. IInv => (Reading /\ pc = "returned" /\ result = 0 => ~ FileIntoString)
  <2> SUFFICES ASSUME IInv, Reading, pc = "returned", result = 0 PROVE str # File(call.filesize)
    BY DEF FileIntoString
  <2>1. Len(str) = call.filesize + 1 /\ call.filesize \in Nat
    BY MemoryAssumption DEF IInv, CallInv, ReadInv
  <2>2. Len(File(call.filesize)) = call.filesize
    BY <2>1, OneMoreCharacter
  <2>3. QED
    BY <2>1, <2>2
<1>2. QED
  BY <1>1, Invariance, PTL

(* What the next step of each loop reads and writes is memory. *)
InBounds ==
  pc = "loop" =>
    /\ Swapping /\ i <= call.length \div 8 => p .. p + 7 \subseteq Addresses
    /\ Measuring => p \in Addresses
    /\ Copying => p \in Addresses /\ q \in Addresses
    /\ Reading /\ ~ eof /\ p < call.filesize => p \in Addresses

(* No loop leaves the memory that its arguments name. *)
THEOREM NeverOutside == Spec => []InBounds
<1>1. IInv => InBounds
  <2> SUFFICES ASSUME IInv, pc = "loop" PROVE InBounds
    BY DEF InBounds
  <2> USE MemoryAssumption
  <2>1. start \in [Addresses -> Bytes]
    BY DEF IInv, CallInv
  <2>2. ASSUME Swapping, i <= call.length \div 8 PROVE p .. p + 7 \subseteq Addresses
    <3>1. /\ call.ptr \in Nat /\ call.length \in Nat /\ call.ptr + call.length <= Memory
          /\ call.length % 8 = 0 /\ i \in 1 .. call.length \div 8 + 1 /\ p = call.ptr + 8 * (i - 1)
      BY <2>2 DEF IInv, CallInv, SwapInv
    <3>2. 0 <= p /\ p + 7 <= Memory - 1 /\ p \in Int
      BY <2>2, <3>1
    <3>3. QED
      BY <3>2 DEF Addresses
  <2>3. ASSUME Measuring PROVE p \in Addresses
    <3>1. /\ call.str \in Addresses /\ IsString(start, call.str)
          /\ p \in call.str .. EndOf(start, call.str)
      BY <2>3 DEF IInv, CallInv, LenInv
    <3>2. EndOf(start, call.str) \in Addresses
      BY <2>1, <3>1, EndFacts
    <3>3. QED
      BY <3>1, <3>2 DEF Addresses
  <2>4. ASSUME Copying PROVE p \in Addresses /\ q \in Addresses
    <3>1. /\ call.src \in Addresses /\ call.dest \in Addresses /\ IsString(start, call.src)
          /\ call.dest + EndOf(start, call.src) - call.src < Memory
          /\ p \in call.src .. EndOf(start, call.src) /\ q = call.dest + (p - call.src)
      BY <2>4 DEF IInv, CallInv, CopyInv
    <3>2. EndOf(start, call.src) \in Addresses
      BY <2>1, <3>1, EndFacts
    <3>3. QED
      BY <3>1, <3>2 DEF Addresses
  <2>5. ASSUME Reading, ~ eof, p < call.filesize PROVE p \in Addresses
    BY <2>5 DEF IInv, CallInv, ReadInv, Addresses
  <2>6. QED
    BY <2>2, <2>3, <2>4, <2>5 DEF InBounds
<1>2. QED
  BY <1>1, Invariance, PTL

=============================================================================
