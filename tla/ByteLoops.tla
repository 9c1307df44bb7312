----------------------------- MODULE ByteLoops -----------------------------
(***************************************************************************)
(* The small functions over bytes: swap_every_64bit() of swap_64bit.c, the  *)
(* swaps by shifting of swap_big_little.c, strlen_w() and strcpy_w(), and   *)
(* the reading loop of toggle-comment.cc.  A behaviour is one call; a step  *)
(* is one iteration.  Memory is a function from addresses to bytes, and so  *)
(* is a file; bytes that are not 0 only need to be told apart, so each is   *)
(* named after the address where it was at the call.                       *)
(***************************************************************************)
EXTENDS Integers, Sequences, FiniteSetsExt

CONSTANT Memory   \* how many bytes there are

ASSUME MemoryAssumption == Memory \in Nat \ {0}

NULL == -1
Unset == -1
Addresses == 0 .. Memory - 1

VARIABLES
  call,     \* the function and its arguments
  start,    \* history: memory when it was called
  mem,
  pc,       \* "enter", "loop" or "returned"
  p,        \* tmp of swap_every_64bit(); the argument that strlen_w() and strcpy_w() advance
  q,        \* tmp of strcpy_w()
  i,
  result,
  str, c, eof    \* of the reading loop: the string, the character, infile.eof()

fileVars == <<str, c, eof>>
vars == <<call, start, mem, pc, p, q, i, result, fileVars>>

(* Where the string at a ends. *)
EndOf(m, a) == Min({ e \in Addresses : a <= e /\ m[e] = 0 })
IsString(m, a) == \E e \in Addresses : a <= e /\ m[e] = 0

SwapCalls ==
  { [function |-> "swap_every_64bit", ptr |-> a, length |-> n] :
      a \in Addresses, n \in 0 .. Memory }

Word == 0 .. 7

ShiftCalls ==
  [function : {"swap_64bit"}, data : { a \in Addresses : a + 7 \in Addresses }]
    \cup [function : {"swap_endian_short", "swap_endian_short2"}, n : { a \in Addresses : a + 1 \in Addresses }]

ReadCalls == [function : {"read"}, filesize : 0 .. Memory]

StringCalls ==
  [function : {"strlen_w"}, str : Addresses \cup {NULL}]
    \cup [function : {"strcpy_w"}, dest : Addresses, src : Addresses \cup {NULL}]

(* What the functions ask of their callers, in words (strcpy_w.c:7) or by what they do:
   arguments are memory the callers own and strings end; the destination has room, and
   copying does not overwrite the end of the source before it is reached.  That they
   see to it is not claimed: main() of strcpy_w.c reads up to ten characters and a 0
   into ten bytes. *)
Legal(k, m) ==
  CASE k.function = "swap_every_64bit" -> k.ptr + k.length <= Memory
    [] k.function = "strlen_w" -> k.str = NULL \/ IsString(m, k.str)
    [] k.function = "strcpy_w" ->
         \/ k.src = NULL
         \/ /\ IsString(m, k.src)
            /\ k.dest + EndOf(m, k.src) - k.src < Memory
            /\ k.dest <= k.src \/ k.dest > EndOf(m, k.src)
    [] OTHER -> TRUE

(* Memory in which bytes differ and, for a call that looks for ends, at most two
   strings end (a bound: that of the source, and one more). *)
Memories(zeros) == { [a \in Addresses |-> IF a \in z THEN 0 ELSE a + 1] : z \in zeros }

Init ==
  /\ \/ call \in SwapCalls \cup ShiftCalls \cup ReadCalls /\ start \in Memories({{}})
     \/ call \in StringCalls /\ start \in Memories({ {a, b} : a, b \in Addresses })
  /\ Legal(call, start)
  /\ mem = start
  /\ pc = "enter"
  /\ p = NULL /\ q = NULL
  /\ i = 0
  /\ result = 0
  /\ str = <<>> /\ c = Unset /\ eof = FALSE

Return(value) == pc' = "returned" /\ result' = value

-----------------------------------------------------------------------------
(* swap_every_64bit(ptr, length) *)

Swapping == call.function = "swap_every_64bit"

SWAP(m, a, b) == [m EXCEPT ![a] = m[b], ![b] = m[a]]

SwapEnter ==
  /\ Swapping /\ pc = "enter"
  /\ IF call.length % 8 # 0 \/ call.length = 0
     THEN Return(0) /\ UNCHANGED <<p, i>>
     ELSE pc' = "loop" /\ p' = call.ptr /\ i' = 1 /\ UNCHANGED result
  /\ UNCHANGED <<call, start, mem, q, fileVars>>

SwapWord ==
  /\ Swapping /\ pc = "loop"
  /\ i <= call.length \div 8
  /\ mem' = SWAP(SWAP(SWAP(SWAP(mem, p, p + 7), p + 1, p + 6), p + 2, p + 5), p + 3, p + 4)
  /\ p' = p + 8
  /\ i' = i + 1
  /\ UNCHANGED <<call, start, pc, q, result, fileVars>>

(* Mutant: < for <= in the loop's condition. *)
SwapLastShort ==
  /\ Swapping /\ pc = "loop" /\ i >= call.length \div 8
  /\ Return(0)
  /\ UNCHANGED <<call, start, mem, p, q, i, fileVars>>

SwapLast ==
  /\ Swapping /\ pc = "loop"
  /\ i > call.length \div 8
  /\ Return(0)
  /\ UNCHANGED <<call, start, mem, p, q, i, fileVars>>

-----------------------------------------------------------------------------
(* strlen_w(str) *)

Measuring == call.function = "strlen_w"

LenEnter ==
  /\ Measuring /\ pc = "enter"
  /\ \/ call.str = NULL /\ Return(-1) /\ UNCHANGED p
     \/ call.str # NULL /\ mem[call.str] = 0 /\ Return(i) /\ UNCHANGED p
     \/ call.str # NULL /\ mem[call.str] # 0 /\ pc' = "loop" /\ p' = call.str /\ UNCHANGED result
  /\ UNCHANGED <<call, start, mem, q, i, fileVars>>

LenNext ==
  /\ Measuring /\ pc = "loop"
  /\ mem[p] # 0
  /\ p' = p + 1
  /\ i' = i + 1
  /\ UNCHANGED <<call, start, mem, pc, q, result, fileVars>>

(* Mutant: the terminating character is counted. *)
LenLastCounts ==
  /\ Measuring /\ pc = "loop" /\ mem[p] = 0
  /\ p' = p + 1 /\ Return(i + 1)
  /\ UNCHANGED <<call, start, mem, q, i, fileVars>>

LenLast ==
  /\ Measuring /\ pc = "loop"
  /\ mem[p] = 0
  /\ p' = p + 1
  /\ Return(i)
  /\ UNCHANGED <<call, start, mem, q, i, fileVars>>

-----------------------------------------------------------------------------
(* strcpy_w(dest, src) *)

Copying == call.function = "strcpy_w"

CopyEnter ==
  /\ Copying /\ pc = "enter"
  /\ \/ call.src = NULL /\ Return(NULL) /\ UNCHANGED <<p, q>>
     \/ call.src # NULL /\ pc' = "loop" /\ p' = call.src /\ q' = call.dest /\ UNCHANGED result
  /\ UNCHANGED <<call, start, mem, i, fileVars>>

CopyNext ==
  /\ Copying /\ pc = "loop"
  /\ mem[p] # 0
  /\ mem' = [mem EXCEPT ![q] = mem[p]]
  /\ p' = p + 1
  /\ q' = q + 1
  /\ UNCHANGED <<call, start, pc, i, result, fileVars>>

(* Mutant: *tmp = '\0' after the loop is missing. *)
CopyLastOpen ==
  /\ Copying /\ pc = "loop" /\ mem[p] = 0
  /\ Return(call.dest)
  /\ UNCHANGED <<call, start, mem, p, q, i, fileVars>>

CopyLast ==
  /\ Copying /\ pc = "loop"
  /\ mem[p] = 0
  /\ mem' = [mem EXCEPT ![q] = 0]
  /\ Return(call.dest)
  /\ UNCHANGED <<call, start, p, q, i, fileVars>>

-----------------------------------------------------------------------------
(* swap_big_little.c: a word is its bytes, the lowest first. *)

Shifting == call.function \in {"swap_64bit", "swap_endian_short", "swap_endian_short2"}

ByteOf(w, j) == IF j \in Word THEN w[j] ELSE 0

(* Byte b comes from the term that is masked with 0xFF << 8 * b: data << 56, 40, 24, 8
   for the upper four, data >> 8, 24, 40, 56 for the others. *)
Swap64(w) ==
  [b \in Word |-> ByteOf(w, b - (CASE b = 7 -> 7 [] b = 6 -> 5 [] b = 5 -> 3 [] b = 4 -> 1
                                   [] b = 3 -> -1 [] b = 2 -> -3 [] b = 1 -> -5 [] b = 0 -> -7))]

(* Mutant: the second function for the first. *)
SwapShortNarrow(w) == [b \in 0 .. 1 |-> IF b = 0 THEN 0 ELSE w[0]]

SwapShort(w) == [b \in 0 .. 1 |-> IF b = 0 THEN w[1] ELSE w[0]]

(* n << 8 is stored in one byte, as which it is 0. *)
SwapShort2(w) == [b \in 0 .. 1 |-> IF b = 0 THEN 0 ELSE w[0]]

Operand == IF call.function = "swap_64bit" THEN [b \in Word |-> start[call.data + b]]
                                           ELSE [b \in 0 .. 1 |-> start[call.n + b]]

Shift ==
  /\ Shifting /\ pc = "enter"
  /\ Return(CASE call.function = "swap_64bit" -> Swap64(Operand)
              [] call.function = "swap_endian_short" -> SwapShort(Operand)
              [] call.function = "swap_endian_short2" -> SwapShort2(Operand))
  /\ UNCHANGED <<call, start, mem, p, q, i, fileVars>>

-----------------------------------------------------------------------------
(* main() of toggle-comment.cc: the file is the first filesize bytes of memory and p
   the get pointer. *)

Reading == call.function = "read"

(* The file is open, or cannot be opened; if it has no size (a pipe), reserve() throws,
   which ends the program as well. *)
ReadEnter ==
  /\ Reading /\ pc = "enter"
  /\ \/ pc' = "loop" /\ p' = 0 /\ UNCHANGED result
     \/ Return(-1) /\ UNCHANGED p
  /\ UNCHANGED <<call, start, mem, q, i, fileVars>>

(* Mutant: the character is added before it is read. *)
ReadNextLate ==
  /\ Reading /\ pc = "loop" /\ ~ eof
  /\ p < call.filesize
  /\ c' = mem[p]
  /\ p' = p + 1
  /\ str' = Append(str, c)
  /\ UNCHANGED <<call, start, mem, pc, q, i, result, eof>>

ReadNext ==
  /\ Reading /\ pc = "loop" /\ ~ eof
  /\ p < call.filesize
  /\ c' = mem[p]
  /\ p' = p + 1
  /\ str' = Append(str, c')
  /\ UNCHANGED <<call, start, mem, pc, q, i, result, eof>>

(* get() finds the end, leaves c as it is, and c is added all the same. *)
ReadEnd ==
  /\ Reading /\ pc = "loop" /\ ~ eof
  /\ p = call.filesize
  /\ eof' = TRUE
  /\ str' = Append(str, c)
  /\ UNCHANGED <<call, start, mem, pc, p, q, i, result, c>>

(* get() fails for another reason: eof() stays false, and the loop goes on adding c
   until the memory is used up, which the model does not follow. *)
ReadFails ==
  /\ Reading /\ pc = "loop" /\ ~ eof
  /\ pc' = "endless"
  /\ str' = Append(str, c)
  /\ UNCHANGED <<call, start, mem, p, q, i, result, c, eof>>

ReadLast ==
  /\ Reading /\ pc = "loop" /\ eof
  /\ Return(0)
  /\ UNCHANGED <<call, start, mem, p, q, i, fileVars>>

Returned == pc \in {"returned", "endless"} /\ UNCHANGED vars

Next == \/ SwapEnter \/ SwapWord \/ SwapLast
        \/ LenEnter \/ LenNext \/ LenLast
        \/ CopyEnter \/ CopyNext \/ CopyLast
        \/ Shift
        \/ ReadEnter \/ ReadNext \/ ReadEnd \/ ReadFails \/ ReadLast
        \/ Returned

Spec == Init /\ [][Next]_vars

-----------------------------------------------------------------------------
(* Byte a of memory after the eight bytes of each word from ptr on changed places. *)
Reversed(a) ==
  LET k == a - call.ptr IN call.ptr + 8 * (k \div 8) + (7 - (k % 8))

(* "Reverse byte order every 64bits in memory content": whole words are reversed, all
   of them and each once, any other length changes nothing, and no byte outside of
   ptr .. ptr + length - 1 moves. *)
SwapReverses ==
  Swapping /\ pc = "returned" =>
    \A a \in Addresses :
      mem[a] = IF call.length % 8 = 0 /\ a \in call.ptr .. call.ptr + call.length - 1
               THEN start[Reversed(a)] ELSE start[a]

(* The swaps by shifting reverse a word's bytes as well; of what swap_endian_short2()
   makes the lower byte, nothing is claimed. *)
ShiftsReverse ==
  Shifting /\ pc = "returned" =>
    \A b \in DOMAIN Operand :
      \/ result[b] = Operand[IF call.function = "swap_64bit" THEN 7 - b ELSE 1 - b]
      \/ call.function = "swap_endian_short2" /\ b = 0

(* strlen_w() returns the distance to the first 0, or -1 for NULL; strcpy_w() leaves
   at dest the string that was at src, also when they overlap with dest below src,
   touches nothing behind it, and returns dest. *)
StringsRight ==
  /\ Measuring /\ pc = "returned" =>
       result = IF call.str = NULL THEN -1 ELSE EndOf(start, call.str) - call.str
  /\ Copying /\ pc = "returned" =>
       IF call.src = NULL THEN result = NULL /\ mem = start
       ELSE LET n == EndOf(start, call.src) - call.src
            IN  /\ result = call.dest
                /\ \A a \in Addresses :
                     mem[a] = IF a \in call.dest .. call.dest + n
                              THEN start[call.src + a - call.dest] ELSE start[a]

(* The file as a string, its first n characters. *)
File(n) == [j \in 1 .. n |-> start[j - 1]]

(* "read file into a string" (toggle-comment.cc:59), as far as it is true: however the
   loop goes on, what has been read of the file comes first in the string, in order and
   each character once, and the program does not end before it has read all of it.
   The string is more than that; see NeverIntoString in ByteLoopsProofs. *)
FileComesFirst ==
  Reading /\ pc # "enter" /\ result = 0 =>
    /\ Len(str) >= p /\ \A j \in 1 .. p : str[j] = File(p)[j]
    /\ pc = "returned" => p = call.filesize

=============================================================================
