------------------------------ MODULE Adler32 ------------------------------
(***************************************************************************)
(* The Adler-32 hash of mvt_hash_adler32.c: mvt_hash_init(), and           *)
(* mvt_hash_update() in its three implementations.  "c" goes byte by byte; *)
(* "swar" takes words of 8 bytes in 64-bit registers, "ssse3" words of 16  *)
(* bytes in vector registers, both with one 16-bit lane for each byte of a *)
(* word and a reduction modulo 65521 only after a block of words.          *)
(*                                                                         *)
(* ref is a history variable: the sums of the definition, one byte at a    *)
(* time and never reduced, since the last call.  Nothing depends on it.    *)
(***************************************************************************)
EXTENDS Integers

CONSTANT
  Kernels    \* the implementations that mvt_hash_class_adler32() may select

ASSUME HashAssumption == Kernels \subseteq {"c", "swar", "ssse3"}

VARIABLES
  kernel,    \* the implementation selected for the whole run
  hpc,       \* where mvt_hash_update() is
  value,     \* MvtHashAdler32.value, as its lower and its upper 16 bits
  s,         \* the local sums s1 and s2
  buf,       \* the data of the call
  pos,       \* buf of the code, as an index
  len,       \* bytes left; in a block, those after the block
  rlen,      \* bytes left before buf is aligned ("ssse3")
  word,      \* words of the block done
  words,     \* words of the block
  lane1,     \* a1 (odd lanes) and b1 (even lanes)
  lane2,     \* a2 and b2
  ref,       \* history: the sums of the definition
  narrow     \* history: some data of more than a byte ended before the alignment

hashVars == <<kernel, hpc, value, s, buf, pos, len, rlen, word, words, lane1,
              lane2, ref, narrow>>

UInt8 == 0..255

UInt16 == {n \in Nat : n < 65536}

Base == 65521

Sums(s1, s2) == [s1 |-> s1, s2 |-> s2]

(* Bytes of a word; words of a block, so that no lane of a2 overflows.     *)
WordSize == IF kernel = "swar" THEN 8 ELSE 16

(* A block of one word more: its lanes may overflow.                       *)
BlockWordsPlusOne == 24

BlockWords == 23

Lanes == 0..15

NoLanes == [p \in Lanes |-> 0]

(* (s2 << 16) | s1 in 32 bits, when s1 may have 17.                        *)
Pack(sums) ==
  LET carry == sums.s1 \div 65536
      high  == sums.s2 % 65536
  IN  [lo |-> sums.s1 % 65536,
       hi |-> IF high % 2 = 0 THEN high + carry ELSE high]

Unpack(packed) == Sums(packed.lo, packed.hi)

Reduced(sums) == Sums(sums.s1 % Base, sums.s2 % Base)

-----------------------------------------------------------------------------
(* The definition, and the macros DO1, DO2, DO4 and DO8                    *)

Add(sums, byte) == Sums(sums.s1 + byte, sums.s2 + sums.s1 + byte)

DO1(sums, b, i) == Add(sums, b[i])

DO2(sums, b, i) == DO1(DO1(sums, b, i), b, i + 1)

DO4(sums, b, i) == DO2(DO2(sums, b, i), b, i + 2)

DO8(sums, b, i) == DO4(DO4(sums, b, i), b, i + 4)

DO16(sums, b, i) == DO8(DO8(sums, b, i), b, i + 8)

-----------------------------------------------------------------------------
HashReady ==
  /\ kernel \in Kernels
  /\ hpc = "idle"
  /\ value = Pack(Sums(0, 0))
  /\ s = Sums(0, 0)
  /\ buf = <<>> /\ pos = 0 /\ len = 0 /\ rlen = 0
  /\ word = 0 /\ words = 0
  /\ lane1 = NoLanes /\ lane2 = NoLanes
  /\ ref = Sums(0, 0)
  /\ narrow = FALSE

(* mvt_hash_init(): ADLER32_INIT is 0.                                     *)
HashInit ==
  /\ hpc = "idle"
  /\ value' = Pack(Sums(0, 0))
  /\ ref' = Sums(0, 0)
  /\ narrow' = FALSE
  /\ UNCHANGED <<kernel, hpc, s, buf, pos, len, rlen, word, words, lane1, lane2>>

(* adler32_update_1(): one byte, reduced by subtraction.                   *)
LessBase(x) == IF x >= Base THEN x - Base ELSE x

Update1(byte) ==
  LET s1 == LessBase(value.lo + byte)
  IN  Pack(Sums(s1, LessBase(value.hi + s1)))

UpdateByte(data) ==
  /\ hpc = "idle" /\ kernel # "c"
  /\ value' = Update1(data[0])
  /\ ref' = DO1(Unpack(value), data, 0)
  /\ UNCHANGED <<kernel, hpc, s, buf, pos, len, rlen, word, words, lane1,
                 lane2, narrow>>

(* The start of a call with n bytes at an address with this remainder      *)
(* modulo 16.  With fewer bytes than the alignment takes, "ssse3" reads    *)
(* past the data and len wraps around.                                     *)
Start(data, n, misalignment) ==
  LET before == IF kernel = "ssse3" THEN (16 - misalignment) % 16 ELSE 0
  IN  /\ hpc = "idle"
      /\ n > 1 \/ kernel = "c"
      /\ hpc' = CASE kernel = "c"   -> "tail"
                  [] before > n     -> "overrun"
                  [] OTHER          -> "loop"
      /\ s' = Unpack(value)
      /\ ref' = Unpack(value)
      /\ buf' = data
      /\ pos' = 0
      /\ rlen' = before
      /\ len' = n
      /\ narrow' = (narrow \/ before >= n)
      /\ UNCHANGED <<kernel, value, word, words, lane1, lane2>>

(* if (rlen & 1) ... if (rlen & 8): the lowest bit first, nothing reduced. *)
Peel(size, sums) ==
  /\ hpc = "loop"
  /\ rlen % (2 * size) = size
  /\ s' = sums
  /\ pos' = pos + size
  /\ rlen' = rlen - size
  /\ len' = len - size

PeelBytes ==
  /\ \/ Peel(1, DO1(s, buf, pos)) /\ ref' = DO1(ref, buf, pos)
     \/ Peel(2, DO2(s, buf, pos)) /\ ref' = DO2(ref, buf, pos)
     \/ Peel(4, DO4(s, buf, pos)) /\ ref' = DO4(ref, buf, pos)
     \/ Peel(8, DO8(s, buf, pos)) /\ ref' = DO8(ref, buf, pos)
  /\ UNCHANGED <<kernel, hpc, value, buf, word, words, lane1, lane2, narrow>>

(* The head of the loop over blocks: "swar" leaves a last word of 8 bytes  *)
(* to the loop over bytes.                                                 *)
MoreBlocks == IF kernel = "swar" THEN len > 8 ELSE len >= 16

StartBlock ==
  LET n == IF len \div WordSize < BlockWords THEN len \div WordSize
                                             ELSE BlockWords
  IN  /\ hpc = "loop" /\ rlen = 0
      /\ MoreBlocks
      /\ hpc' = "words"
      /\ word' = 0
      /\ words' = n
      /\ len' = len - n * WordSize
      /\ lane1' = NoLanes /\ lane2' = NoLanes
      /\ UNCHANGED <<kernel, value, s, buf, pos, rlen, ref, narrow>>

EndBlocks ==
  /\ hpc = "loop" /\ rlen = 0
  /\ ~MoreBlocks
  /\ hpc' = "tail"
  /\ UNCHANGED <<kernel, value, s, buf, pos, len, rlen, word, words, lane1,
                 lane2, ref, narrow>>

(* One word: a2 += a1, then a1 += the bytes, in lanes of 16 bits.          *)
Accumulate ==
  /\ hpc = "words" /\ word < words
  /\ lane2' = [p \in Lanes |-> (lane2[p] + lane1[p]) % 65536]
  /\ lane1' = [p \in Lanes |-> IF p < WordSize
                 THEN (lane1[p] + buf[pos + p]) % 65536 ELSE 0]
  /\ ref' = IF kernel = "swar" THEN DO8(ref, buf, pos) ELSE DO16(ref, buf, pos)
  /\ pos' = pos + WordSize
  /\ word' = word + 1
  /\ UNCHANGED <<kernel, hpc, value, s, buf, len, rlen, words, narrow>>

-----------------------------------------------------------------------------
(* The sums over the lanes.  A sum that the code computes within 16 bits   *)
(* is taken modulo 2^16; the others have 32.                               *)

Even(l) == l[0] + l[2] + l[4] + l[6] + l[8] + l[10] + l[12] + l[14]

Odd(l) == l[1] + l[3] + l[5] + l[7] + l[9] + l[11] + l[13] + l[15]

LaneSum ==
  IF kernel = "swar" THEN (Even(lane1) + Odd(lane1)) % 65536
                     ELSE (Even(lane1) % 65536) + (Odd(lane1) % 65536)

(* The bytes of a word weighted 8, 7, ..., 1, with one multiplication by 2 *)
(* for two lanes.                                                          *)
SwarEven(l) == 4 * l[0] + 3 * l[2] + 2 * l[4] + l[6]

SwarOdd(l) == 3 * l[1] + 2 * l[3] + l[5]

SwarWeighted(l) ==
  2 * (SwarEven(l) % 65536) + 2 * (SwarOdd(l) % 65536) + (Odd(l) % 65536)

(* pmaddwd with 16, 14, ... and 15, 13, ...                                *)
VectorWeighted(l) ==
  16 * l[0] + 15 * l[1] + 14 * l[2] + 13 * l[3] + 12 * l[4] + 11 * l[5]
  + 10 * l[6] + 9 * l[7] + 8 * l[8] + 7 * l[9] + 6 * l[10] + 5 * l[11]
  + 4 * l[12] + 3 * l[13] + 2 * l[14] + l[15]

(* The weights of one vector register for the words of both sizes.         *)
VectorWeights == VectorWeighted(lane1)

Weighted ==
  IF kernel = "swar" THEN SwarWeighted(lane1) ELSE VectorWeighted(lane1)

(* The merge after a block.                                                *)
Reduce ==
  /\ hpc = "words" /\ word = words
  /\ s' = Reduced(Sums(s.s1 + LaneSum,
                       s.s2 + words * WordSize * s.s1 + Weighted
                         + WordSize * (Even(lane2) + Odd(lane2))))
  /\ hpc' = "loop"
  /\ UNCHANGED <<kernel, value, buf, pos, len, rlen, word, words, lane1, lane2,
                 ref, narrow>>

(* The last bytes, and all of them in the naive version.                   *)
TailByte ==
  /\ hpc = "tail" /\ len > 0
  /\ s' = Reduced(DO1(s, buf, pos))
  /\ ref' = DO1(ref, buf, pos)
  /\ pos' = pos + 1
  /\ len' = len - 1
  /\ UNCHANGED <<kernel, hpc, value, buf, rlen, word, words, lane1, lane2, narrow>>

Return ==
  /\ hpc = "tail" /\ len = 0
  /\ value' = Pack(s)
  /\ hpc' = "idle"
  /\ UNCHANGED <<kernel, s, buf, pos, len, rlen, word, words, lane1, lane2,
                 ref, narrow>>

HashStep ==
  PeelBytes \/ StartBlock \/ EndBlocks \/ Accumulate \/ Reduce \/ TailByte \/ Return

Data(n) == [0..n - 1 -> UInt8]

HashNext ==
  \/ HashInit
  \/ \E data \in Data(1) : UpdateByte(data)
  \/ \E n \in Nat \ {0}, misalignment \in 0..15 :
       \E data \in Data(n) : Start(data, n, misalignment)
  \/ HashStep

HashSpec == HashReady /\ [][HashNext]_hashVars

-----------------------------------------------------------------------------
(* Where the code stands in the data and in a block.                       *)
HashTypeOK ==
  /\ kernel \in Kernels
  /\ hpc \in {"idle", "loop", "words", "tail", "overrun"}
  /\ value \in [lo : UInt16, hi : UInt16]
  /\ s \in [s1 : Nat, s2 : Nat]
  /\ ref \in [s1 : Nat, s2 : Nat]
  /\ pos \in Nat /\ len \in Nat /\ rlen \in 0..15
  /\ word \in 0..words /\ words \in 0..BlockWords
  /\ lane1 \in [Lanes -> UInt16] /\ lane2 \in [Lanes -> UInt16]
  /\ narrow \in BOOLEAN

(* When mvt_hash_update() returns, the value is the Adler-32 of the data:  *)
(* the blocks, the lanes, the prefix and the loop over the last bytes add  *)
(* up to the definition, as long as the data reaches past the alignment.   *)
HashIsAdler32 ==
  hpc = "idle" /\ ~narrow => Unpack(value) = Reduced(ref)

(* "n is chosen so that 16-bit elements of a2 and b2 don't overflow": no   *)
(* lane, and no sum over lanes that is computed within 16 bits, wraps.     *)
LanesFit ==
  hpc = "words" =>
    /\ word < words => \A p \in Lanes : /\ lane1[p] + 255 <= 65535
                                        /\ lane2[p] + lane1[p] <= 65535
    /\ IF kernel = "swar"
         THEN /\ Even(lane1) + Odd(lane1) <= 65535
              /\ SwarEven(lane1) <= 65535 /\ SwarOdd(lane1) <= 65535
         ELSE Even(lane1) <= 65535 /\ Odd(lane1) <= 65535
=============================================================================
