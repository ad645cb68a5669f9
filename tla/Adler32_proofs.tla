--------------------------- MODULE Adler32_proofs ---------------------------
(***************************************************************************)
(* Proofs about Adler32, for data of every length at every alignment.      *)
(*                                                                         *)
(* The argument: inside a block the sums of the definition agree, modulo   *)
(* 65521, with s merged with the lanes so far (Merged); one word changes   *)
(* both by the same linear form, because no lane wraps around.  Everywhere *)
(* else they agree with s itself.                                          *)
(*                                                                         *)
(* Over a message that comes in several calls, the sums of the definition  *)
(* so far are those of a prefix of the message (Follows); that a sum over  *)
(* a set with one element more is the fold with that element added needs   *)
(* induction over the natural numbers, which Induction proves.             *)
(***************************************************************************)
EXTENDS Adler32, Functions, FiniteSetTheorems, TLAPS

SumsType == [s1 : Nat, s2 : Nat]

IsReduced(t) == t.s1 < Base /\ t.s2 < Base

(* The sums r and t are the same modulo Base, and r is the larger one.     *)
Agree(r, t) ==
  \E q1, q2 \in Nat : r.s1 = t.s1 + Base * q1 /\ r.s2 = t.s2 + Base * q2

(* The two sums over eight bytes, or lanes, from i on.                     *)
Total8(b, i) ==
  b[i] + b[i + 1] + b[i + 2] + b[i + 3] + b[i + 4] + b[i + 5] + b[i + 6] + b[i + 7]

Weights8(b, i) ==
  8 * b[i] + 7 * b[i + 1] + 6 * b[i + 2] + 5 * b[i + 3] + 4 * b[i + 4]
  + 3 * b[i + 5] + 2 * b[i + 6] + b[i + 7]

(* The two sums over a word, of 8 or of 16 bytes.                          *)
Total(l) == Total8(l, 0) + Total8(l, 8)

Weights(l) ==
  IF kernel = "swar" THEN Weights8(l, 0)
                     ELSE 8 * Total8(l, 0) + Weights8(l, 0) + Weights8(l, 8)

(* What s would be if the block ended here.                                *)
Merged ==
  Sums(s.s1 + Total(lane1),
       s.s2 + word * (WordSize * s.s1) + WordSize * Total(lane2) + Weights(lane1))

-----------------------------------------------------------------------------
(* The inductive invariant                                                 *)

(* What is being hashed lies in the data.                                  *)
BufferInv ==
  /\ hpc \in {"loop", "words"} => kernel \in {"swar", "ssse3"}
  /\ hpc = "loop" => len >= rlen
  /\ hpc \in {"words", "tail"} => rlen = 0
  /\ hpc \in {"loop", "tail"} => buf \in [0..pos + len - 1 -> UInt8]
  /\ hpc = "words" =>
       buf \in [0..pos + len + (words - word) * WordSize - 1 -> UInt8]

(* No lane has more than the words hashed in it can give.                  *)
LanesInv ==
  hpc = "words" =>
    \A p \in Lanes : /\ lane1[p] <= 255 * word
                     /\ 2 * lane2[p] <= 255 * (word * word) - 255 * word
                     /\ p >= WordSize => lane1[p] = 0 /\ lane2[p] = 0

(* Between the blocks the sums are below the base.                         *)
ReducedInv ==
  /\ ~narrow => value.lo < Base /\ value.hi < Base
  /\ hpc \in {"loop", "tail"} => s.s1 + 255 * rlen <= 69360
  /\ ~narrow /\ hpc = "loop" => len > rlen \/ (rlen = 0 /\ IsReduced(s))
  /\ ~narrow /\ hpc = "tail" => len > 0 \/ IsReduced(s)

(* The sums so far are those of the definition.                            *)
AgreeInv ==
  /\ hpc \in {"loop", "tail"} => Agree(ref, s)
  /\ hpc = "words" => Agree(ref, Merged)
  /\ hpc = "idle" /\ ~narrow => Unpack(value) = Reduced(ref)

HInv == HashTypeOK /\ BufferInv /\ LanesInv /\ ReducedInv /\ AgreeInv

-----------------------------------------------------------------------------
(* A number of 16 bits.                                                    *)
LEMMA UInt16Fact == \A n : n \in UInt16 <=> n \in Nat /\ n <= 65535
BY DEF UInt16

(* Lemmas about sums                                                       *)

(* Sums agree with themselves.                                             *)
LEMMA AgreeRefl ==
  ASSUME NEW t \in SumsType
  PROVE  Agree(t, t)
<1>1. t.s1 = t.s1 + Base * 0 /\ t.s2 = t.s2 + Base * 0
  BY DEF SumsType, Base
<1>. QED
  BY <1>1 DEF Agree

(* A step that adds a, and k times the first sum to the second, keeps them *)
(* in agreement.                                                           *)
LEMMA LinearAgrees ==
  ASSUME NEW r \in SumsType, NEW t \in SumsType,
         NEW k \in Nat, NEW a \in Nat, NEW c \in Nat, Agree(r, t)
  PROVE  Agree(Sums(r.s1 + a, r.s2 + k * r.s1 + c), Sums(t.s1 + a, t.s2 + k * t.s1 + c))
<1>1. PICK q1 \in Nat, q2 \in Nat :
        r.s1 = t.s1 + Base * q1 /\ r.s2 = t.s2 + Base * q2
  BY DEF Agree
<1>. DEFINE p2 == q2 + k * q1
<1>2. k * q1 \in Nat
  <2>. HIDE DEF p2
  <2>. QED OBVIOUS
<1>3. p2 \in Nat
  BY <1>2
<1>4. k * r.s1 = k * t.s1 + Base * (k * q1)
  <2>1. t.s1 \in Nat
    BY DEF SumsType
  <2>2. k * (t.s1 + Base * q1) = k * t.s1 + Base * (k * q1)
    BY <2>1 DEF Base
  <2>. QED
    BY <1>1, <2>2
<1>5. r.s1 + a = (t.s1 + a) + Base * q1
  BY <1>1 DEF SumsType, Base
<1>6. r.s2 + k * r.s1 + c = (t.s2 + k * t.s1 + c) + Base * p2
  <2>. DEFINE x == k * t.s1
              y == k * q1
  <2>1. x \in Nat /\ y \in Nat /\ t.s2 \in Nat
    BY DEF SumsType
  <2>2. (t.s2 + Base * q2) + (x + Base * y) + c = (t.s2 + x + c) + Base * (q2 + y)
    <3>. HIDE DEF x, y
    <3>. QED
      BY <2>1 DEF Base
  <2>. QED
    BY <1>1, <1>4, <2>2
<1>. QED
  <2>. HIDE DEF p2
  <2>. QED
    BY <1>3, <1>5, <1>6 DEF Agree, Sums

(* One byte keeps the sums in agreement.                                   *)
LEMMA AddAgrees ==
  ASSUME NEW r \in SumsType, NEW t \in SumsType, NEW b \in UInt8, Agree(r, t)
  PROVE  /\ Agree(Add(r, b), Add(t, b))
         /\ Add(r, b) \in SumsType /\ Add(t, b) \in SumsType
         /\ Add(t, b).s1 <= t.s1 + 255
<1>1. PICK q1 \in Nat, q2 \in Nat :
        r.s1 = t.s1 + Base * q1 /\ r.s2 = t.s2 + Base * q2
  BY DEF Agree
<1>2. /\ r.s1 + b = t.s1 + b + Base * q1
      /\ r.s2 + r.s1 + b = t.s2 + t.s1 + b + Base * (q1 + q2)
      /\ q1 + q2 \in Nat
  BY <1>1 DEF SumsType, UInt8, Base
<1>3. Agree(Add(r, b), Add(t, b))
  BY <1>2 DEF Agree, Add, Sums
<1>. QED
  BY <1>3 DEF Add, Sums, SumsType, UInt8

(* A reduction modulo Base keeps them in agreement.                        *)
LEMMA ReducedAgrees ==
  ASSUME NEW r \in SumsType, NEW t \in SumsType, Agree(r, t)
  PROVE  /\ Reduced(t) \in SumsType /\ IsReduced(Reduced(t))
         /\ Agree(r, Reduced(t))
<1>1. PICK q1 \in Nat, q2 \in Nat :
        r.s1 = t.s1 + Base * q1 /\ r.s2 = t.s2 + Base * q2
  BY DEF Agree
<1>2. \A x \in Nat : /\ x % Base \in Nat /\ x % Base < Base
                     /\ x \div Base \in Nat
                     /\ x = (x % Base) + Base * (x \div Base)
  BY DEF Base
<1>3. /\ r.s1 = (t.s1 % Base) + Base * (q1 + (t.s1 \div Base))
      /\ r.s2 = (t.s2 % Base) + Base * (q2 + (t.s2 \div Base))
  BY <1>1, <1>2 DEF SumsType, Base
<1>4. q1 + (t.s1 \div Base) \in Nat /\ q2 + (t.s2 \div Base) \in Nat
  BY <1>2 DEF SumsType
<1>5. Agree(r, Reduced(t))
  BY <1>3, <1>4 DEF Agree, Reduced, Sums
<1>. QED
  BY <1>2, <1>5 DEF Reduced, Sums, SumsType, IsReduced

(* Reduced sums that agree with r are the Adler-32 of r.                   *)
LEMMA AgreeReduced ==
  ASSUME NEW r \in SumsType, NEW t \in SumsType, Agree(r, t), IsReduced(t)
  PROVE  Reduced(r) = Sums(t.s1, t.s2)
<1>1. PICK q1 \in Nat, q2 \in Nat :
        r.s1 = t.s1 + Base * q1 /\ r.s2 = t.s2 + Base * q2
  BY DEF Agree
<1>2. \A x \in Nat, q \in Nat : x < Base => (x + Base * q) % Base = x
  BY DEF Base
<1>3. t.s1 \in Nat /\ t.s1 < Base /\ t.s2 \in Nat /\ t.s2 < Base
  BY DEF IsReduced, SumsType
<1>4. r.s1 % Base = t.s1 /\ r.s2 % Base = t.s2
  BY <1>1, <1>2, <1>3
<1>. QED
  BY <1>4 DEF Reduced

-----------------------------------------------------------------------------
(* Lemmas about the macros                                                 *)

(* The macros for 1, 2, 4 and 8 bytes keep the sums in agreement.          *)
LEMMA DO1Agrees ==
  ASSUME NEW r \in SumsType, NEW t \in SumsType, Agree(r, t),
         NEW b, NEW i \in Nat, \A j \in i..i : b[j] \in UInt8
  PROVE  /\ Agree(DO1(r, b, i), DO1(t, b, i))
         /\ DO1(r, b, i) \in SumsType /\ DO1(t, b, i) \in SumsType
         /\ DO1(t, b, i).s1 <= t.s1 + 255
BY AddAgrees DEF DO1

LEMMA DO2Agrees ==
  ASSUME NEW r \in SumsType, NEW t \in SumsType, Agree(r, t),
         NEW b, NEW i \in Nat, \A j \in i..i + 1 : b[j] \in UInt8
  PROVE  /\ Agree(DO2(r, b, i), DO2(t, b, i))
         /\ DO2(r, b, i) \in SumsType /\ DO2(t, b, i) \in SumsType
         /\ DO2(t, b, i).s1 <= t.s1 + 510
<1>. DEFINE r1 == DO1(r, b, i)
            t1 == DO1(t, b, i)
<1>1. Agree(r1, t1) /\ r1 \in SumsType /\ t1 \in SumsType /\ t1.s1 <= t.s1 + 255
  BY DO1Agrees
<1>2. /\ Agree(DO1(r1, b, i + 1), DO1(t1, b, i + 1))
      /\ DO1(r1, b, i + 1) \in SumsType /\ DO1(t1, b, i + 1) \in SumsType
      /\ DO1(t1, b, i + 1).s1 <= t1.s1 + 255
  <2>. HIDE DEF r1, t1
  <2>. QED
    BY <1>1, DO1Agrees
<1>. QED
  BY <1>1, <1>2 DEF DO2, SumsType

LEMMA DO4Agrees ==
  ASSUME NEW r \in SumsType, NEW t \in SumsType, Agree(r, t),
         NEW b, NEW i \in Nat, \A j \in i..i + 3 : b[j] \in UInt8
  PROVE  /\ Agree(DO4(r, b, i), DO4(t, b, i))
         /\ DO4(r, b, i) \in SumsType /\ DO4(t, b, i) \in SumsType
         /\ DO4(t, b, i).s1 <= t.s1 + 1020
<1>. DEFINE r1 == DO2(r, b, i)
            t1 == DO2(t, b, i)
<1>1. Agree(r1, t1) /\ r1 \in SumsType /\ t1 \in SumsType /\ t1.s1 <= t.s1 + 510
  BY DO2Agrees
<1>2. /\ Agree(DO2(r1, b, i + 2), DO2(t1, b, i + 2))
      /\ DO2(r1, b, i + 2) \in SumsType /\ DO2(t1, b, i + 2) \in SumsType
      /\ DO2(t1, b, i + 2).s1 <= t1.s1 + 510
  <2>. HIDE DEF r1, t1
  <2>. QED
    BY <1>1, DO2Agrees
<1>. QED
  BY <1>1, <1>2 DEF DO4, SumsType

LEMMA DO8Agrees ==
  ASSUME NEW r \in SumsType, NEW t \in SumsType, Agree(r, t),
         NEW b, NEW i \in Nat, \A j \in i..i + 7 : b[j] \in UInt8
  PROVE  /\ Agree(DO8(r, b, i), DO8(t, b, i))
         /\ DO8(r, b, i) \in SumsType /\ DO8(t, b, i) \in SumsType
         /\ DO8(t, b, i).s1 <= t.s1 + 2040
<1>. DEFINE r1 == DO4(r, b, i)
            t1 == DO4(t, b, i)
<1>1. Agree(r1, t1) /\ r1 \in SumsType /\ t1 \in SumsType /\ t1.s1 <= t.s1 + 1020
  BY DO4Agrees
<1>2. /\ Agree(DO4(r1, b, i + 4), DO4(t1, b, i + 4))
      /\ DO4(r1, b, i + 4) \in SumsType /\ DO4(t1, b, i + 4) \in SumsType
      /\ DO4(t1, b, i + 4).s1 <= t1.s1 + 1020
  <2>. HIDE DEF r1, t1
  <2>. QED
    BY <1>1, DO4Agrees
<1>. QED
  BY <1>1, <1>2 DEF DO8, SumsType

(* 2, 4, 8 and 16 bytes at once, as weights of the bytes and of the first  *)
(* sum.                                                                    *)
LEMMA DO2Linear ==
  ASSUME NEW r \in SumsType, NEW b, NEW i \in Nat,
         \A j \in i..i + 1 : b[j] \in UInt8
  PROVE  /\ DO2(r, b, i) \in SumsType
         /\ DO2(r, b, i).s1 = r.s1 + (b[i] + b[i + 1])
         /\ DO2(r, b, i).s2 = r.s2 + 2 * r.s1
              + (2 * b[i] + b[i + 1])
<1>1. b[i] \in Nat /\ b[i + 1] \in Nat /\ r.s1 \in Nat /\ r.s2 \in Nat
  <2>1. i \in i..i + 1 /\ i + 1 \in i..i + 1
    OBVIOUS
  <2>2. b[i] \in UInt8 /\ b[i + 1] \in UInt8
    BY <2>1
  <2>. QED
    BY <2>2, SMTT(30) DEF UInt8, SumsType
<1>2. DO2(r, b, i) = [s1 |-> r.s1 + b[i] + b[i + 1],
                      s2 |-> (r.s2 + r.s1 + b[i]) + (r.s1 + b[i]) + b[i + 1]]
  BY DEF DO2, DO1, Add, Sums
<1>. QED
  BY <1>1, <1>2 DEF SumsType

LEMMA DO4Linear ==
  ASSUME NEW r \in SumsType, NEW b, NEW i \in Nat,
         \A j \in i..i + 3 : b[j] \in UInt8
  PROVE  /\ DO4(r, b, i) \in SumsType
         /\ DO4(r, b, i).s1 = r.s1 + (b[i] + b[i + 1] + b[i + 2] + b[i + 3])
         /\ DO4(r, b, i).s2 = r.s2 + 4 * r.s1
              + (4 * b[i] + 3 * b[i + 1] + 2 * b[i + 2] + b[i + 3])
<1>. DEFINE half == DO2(r, b, i)
<1>1. \A j \in 0..3 : b[i + j] \in Nat
  BY DEF UInt8
<1>2. /\ b[i] \in Nat /\ b[i + 1] \in Nat /\ b[i + 2] \in Nat
      /\ b[i + 3] \in Nat
  <2>. i + 0 = i
    OBVIOUS
  <2>. QED
    BY <1>1
<1>3. /\ (i + 2) + 1 = i + 3
  OBVIOUS
<1>4. /\ half \in SumsType
      /\ half.s1 = r.s1 + (b[i] + b[i + 1])
      /\ half.s2 = r.s2 + 2 * r.s1 + (2 * b[i] + b[i + 1])
  BY DO2Linear
<1>5. /\ DO2(half, b, i + 2) \in SumsType
      /\ DO2(half, b, i + 2).s1 = half.s1 + (b[i + 2] + b[i + 3])
      /\ DO2(half, b, i + 2).s2 = half.s2 + 2 * half.s1 + (2 * b[i + 2]
           + b[i + 3])
  <2>. HIDE DEF half
  <2>1. \A j \in i + 2..(i + 2) + 1 : b[j] \in UInt8
    OBVIOUS
  <2>. QED
    BY <1>3, <1>4, <2>1, DO2Linear
<1>6. DO4(r, b, i) = DO2(half, b, i + 2)
  BY DEF DO4
<1>7. r.s1 \in Nat /\ r.s2 \in Nat /\ half.s1 \in Nat /\ half.s2 \in Nat
  BY <1>4 DEF SumsType
<1>8. half.s1 + (b[i + 2] + b[i + 3])
        = r.s1 + (b[i] + b[i + 1] + b[i + 2] + b[i + 3])
  BY <1>2, <1>4, <1>7
<1>9. half.s2 + 2 * half.s1 + (2 * b[i + 2] + b[i + 3])
        = r.s2 + 4 * r.s1 + (4 * b[i] + 3 * b[i + 1] + 2 * b[i + 2]
            + b[i + 3])
  <2>. HIDE DEF half
  <2>1. half.s2 + 2 * half.s1
          = r.s2 + 4 * r.s1 + (4 * b[i] + 3 * b[i + 1])
    BY <1>2, <1>4, <1>7
  <2>. QED
    BY <1>2, <1>7, <2>1
<1>. QED
  <2>. HIDE DEF half
  <2>. QED
    BY <1>5, <1>6, <1>8, <1>9

LEMMA DO8Linear ==
  ASSUME NEW r \in SumsType, NEW b, NEW i \in Nat,
         \A j \in i..i + 7 : b[j] \in UInt8
  PROVE  /\ DO8(r, b, i) \in SumsType
         /\ DO8(r, b, i).s1 = r.s1 + (b[i] + b[i + 1] + b[i + 2] + b[i + 3]
              + b[i + 4] + b[i + 5] + b[i + 6] + b[i + 7])
         /\ DO8(r, b, i).s2 = r.s2 + 8 * r.s1
              + (8 * b[i] + 7 * b[i + 1] + 6 * b[i + 2] + 5 * b[i + 3]
                 + 4 * b[i + 4] + 3 * b[i + 5] + 2 * b[i + 6] + b[i + 7])
<1>. DEFINE half == DO4(r, b, i)
<1>1. \A j \in 0..7 : b[i + j] \in Nat
  BY SMTT(30) DEF UInt8
<1>2. /\ b[i] \in Nat /\ b[i + 1] \in Nat /\ b[i + 2] \in Nat
      /\ b[i + 3] \in Nat /\ b[i + 4] \in Nat /\ b[i + 5] \in Nat
      /\ b[i + 6] \in Nat /\ b[i + 7] \in Nat
  <2>. i + 0 = i
    OBVIOUS
  <2>. QED
    BY <1>1
<1>3. /\ (i + 4) + 1 = i + 5 /\ (i + 4) + 2 = i + 6 /\ (i + 4) + 3 = i + 7
  OBVIOUS
<1>4. /\ half \in SumsType
      /\ half.s1 = r.s1 + (b[i] + b[i + 1] + b[i + 2] + b[i + 3])
      /\ half.s2 = r.s2 + 4 * r.s1 + (4 * b[i] + 3 * b[i + 1] + 2 * b[i + 2]
           + b[i + 3])
  BY DO4Linear
<1>5. /\ DO4(half, b, i + 4) \in SumsType
      /\ DO4(half, b, i + 4).s1 = half.s1 + (b[i + 4] + b[i + 5] + b[i + 6]
           + b[i + 7])
      /\ DO4(half, b, i + 4).s2 = half.s2 + 4 * half.s1 + (4 * b[i + 4]
           + 3 * b[i + 5] + 2 * b[i + 6] + b[i + 7])
  <2>. HIDE DEF half
  <2>1. \A j \in i + 4..(i + 4) + 3 : b[j] \in UInt8
    OBVIOUS
  <2>. QED
    BY <1>3, <1>4, <2>1, DO4Linear
<1>6. DO8(r, b, i) = DO4(half, b, i + 4)
  BY DEF DO8
<1>7. r.s1 \in Nat /\ r.s2 \in Nat /\ half.s1 \in Nat /\ half.s2 \in Nat
  BY <1>4 DEF SumsType
<1>8. half.s1 + (b[i + 4] + b[i + 5] + b[i + 6] + b[i + 7])
        = r.s1 + (b[i] + b[i + 1] + b[i + 2] + b[i + 3] + b[i + 4] + b[i + 5]
            + b[i + 6] + b[i + 7])
  BY <1>2, <1>4, <1>7
<1>9. half.s2 + 4 * half.s1 + (4 * b[i + 4] + 3 * b[i + 5] + 2 * b[i + 6]
            + b[i + 7])
        = r.s2 + 8 * r.s1 + (8 * b[i] + 7 * b[i + 1] + 6 * b[i + 2]
            + 5 * b[i + 3] + 4 * b[i + 4] + 3 * b[i + 5] + 2 * b[i + 6]
            + b[i + 7])
  <2>. HIDE DEF half
  <2>1. half.s2 + 4 * half.s1
          = r.s2 + 8 * r.s1 + (8 * b[i] + 7 * b[i + 1] + 6 * b[i + 2]
              + 5 * b[i + 3])
    BY <1>2, <1>4, <1>7
  <2>. QED
    BY <1>2, <1>7, <2>1
<1>. QED
  <2>. HIDE DEF half
  <2>. QED
    BY <1>5, <1>6, <1>8, <1>9

(* Bytes and lanes have sums that are numbers.                             *)
LEMMA Total8Type ==
  ASSUME NEW b, NEW i \in Nat, \A j \in i..i + 7 : b[j] \in Nat
  PROVE  Total8(b, i) \in Nat /\ Weights8(b, i) \in Nat
<1>1. \A j \in 0..7 : i + j \in i..i + 7
  OBVIOUS
<1>2. \A j \in 0..7 : b[i + j] \in Nat
  BY <1>1
<1>3. i + 0 = i
  OBVIOUS
<1>4. /\ b[i] \in Nat /\ b[i + 1] \in Nat /\ b[i + 2] \in Nat
      /\ b[i + 3] \in Nat /\ b[i + 4] \in Nat /\ b[i + 5] \in Nat
      /\ b[i + 6] \in Nat /\ b[i + 7] \in Nat
  BY <1>2, <1>3
<1>. QED
  BY <1>4 DEF Total8, Weights8

(* Eight lanes from k on have grown by what is in b from i on.             *)
Grown(l, k, b, i, m) ==
  \A j \in 0..7 : /\ l[k + j] \in Nat /\ b[i + j] \in Nat
                  /\ m[k + j] = l[k + j] + b[i + j]

(* Their sums.                                                             *)
LEMMA Total8Add ==
  ASSUME NEW l, NEW k \in Nat, NEW b, NEW i \in Nat, NEW m,
         Grown(l, k, b, i, m)
  PROVE  /\ Total8(m, k) = Total8(l, k) + Total8(b, i)
         /\ Weights8(m, k) = Weights8(l, k) + Weights8(b, i)
<1>1. i + 0 = i /\ k + 0 = k
  OBVIOUS
<1>2. /\ l[k] \in Nat /\ l[k + 1] \in Nat /\ l[k + 2] \in Nat
      /\ l[k + 3] \in Nat /\ l[k + 4] \in Nat /\ l[k + 5] \in Nat
      /\ l[k + 6] \in Nat /\ l[k + 7] \in Nat
  BY <1>1 DEF Grown
<1>3. /\ b[i] \in Nat /\ b[i + 1] \in Nat /\ b[i + 2] \in Nat
      /\ b[i + 3] \in Nat /\ b[i + 4] \in Nat /\ b[i + 5] \in Nat
      /\ b[i + 6] \in Nat /\ b[i + 7] \in Nat
  BY <1>1 DEF Grown
<1>4. /\ m[k] = l[k] + b[i] /\ m[k + 1] = l[k + 1] + b[i + 1]
      /\ m[k + 2] = l[k + 2] + b[i + 2] /\ m[k + 3] = l[k + 3] + b[i + 3]
      /\ m[k + 4] = l[k + 4] + b[i + 4] /\ m[k + 5] = l[k + 5] + b[i + 5]
      /\ m[k + 6] = l[k + 6] + b[i + 6] /\ m[k + 7] = l[k + 7] + b[i + 7]
  BY <1>1 DEF Grown
<1>5. Total8(m, k) = Total8(l, k) + Total8(b, i)
  BY <1>2, <1>3, <1>4 DEF Total8
<1>6. Weights8(m, k) = Weights8(l, k) + Weights8(b, i)
  BY <1>2, <1>3, <1>4, SMTT(30) DEF Weights8
<1>. QED
  BY <1>5, <1>6

(* One word of 8 bytes, and one of 16, as a linear form.                   *)
LEMMA Word8 ==
  ASSUME NEW r \in SumsType, NEW b, NEW i \in Nat,
         \A j \in i..i + 7 : b[j] \in UInt8
  PROVE  /\ DO8(r, b, i) \in SumsType
         /\ DO8(r, b, i).s1 = r.s1 + Total8(b, i)
         /\ DO8(r, b, i).s2 = r.s2 + 8 * r.s1 + Weights8(b, i)
BY DO8Linear DEF Total8, Weights8

LEMMA Word16 ==
  ASSUME NEW r \in SumsType, NEW b, NEW i \in Nat,
         \A j \in i..i + 15 : b[j] \in UInt8
  PROVE  /\ DO16(r, b, i) \in SumsType
         /\ DO16(r, b, i).s1 = r.s1 + (Total8(b, i) + Total8(b, i + 8))
         /\ DO16(r, b, i).s2 = r.s2 + 16 * r.s1
              + (8 * Total8(b, i) + Weights8(b, i) + Weights8(b, i + 8))
<1>. DEFINE half == DO8(r, b, i)
<1>1. /\ half \in SumsType
      /\ half.s1 = r.s1 + Total8(b, i)
      /\ half.s2 = r.s2 + 8 * r.s1 + Weights8(b, i)
  <2>1. \A j \in i..i + 7 : b[j] \in UInt8
    OBVIOUS
  <2>. QED
    BY <2>1, Word8
<1>2. /\ DO8(half, b, i + 8) \in SumsType
      /\ DO8(half, b, i + 8).s1 = half.s1 + Total8(b, i + 8)
      /\ DO8(half, b, i + 8).s2 = half.s2 + 8 * half.s1 + Weights8(b, i + 8)
  <2>1. \A j \in i + 8..(i + 8) + 7 : b[j] \in UInt8
    OBVIOUS
  <2>. HIDE DEF half
  <2>. QED
    BY <1>1, <2>1, Word8
<1>3. DO16(r, b, i) = DO8(half, b, i + 8)
  BY DEF DO16
<1>4. /\ Total8(b, i) \in Nat /\ Weights8(b, i) \in Nat
      /\ Total8(b, i + 8) \in Nat /\ Weights8(b, i + 8) \in Nat
  <2>1. \A j \in i..i + 7 : b[j] \in Nat
    BY SMTT(30) DEF UInt8
  <2>2. \A j \in i + 8..(i + 8) + 7 : b[j] \in Nat
    BY SMTT(30) DEF UInt8
  <2>. QED
    BY <2>1, <2>2, Total8Type
<1>5. r.s1 \in Nat /\ r.s2 \in Nat
  BY DEF SumsType
<1>. QED
  <2>. HIDE DEF half
  <2>. QED
    BY <1>1, <1>2, <1>3, <1>4, <1>5

-----------------------------------------------------------------------------
(* Lemmas about lanes                                                      *)

(* Sixteen lanes are two groups of eight.                                  *)
LEMMA LanesType ==
  ASSUME NEW l \in [Lanes -> Nat]
  PROVE  /\ Total8(l, 0) \in Nat /\ Total8(l, 8) \in Nat
         /\ Weights8(l, 0) \in Nat /\ Weights8(l, 8) \in Nat
<1>1. /\ \A j \in 0..0 + 7 : l[j] \in Nat
      /\ \A j \in 8..8 + 7 : l[j] \in Nat
  BY DEF Lanes
<1>. QED
  BY <1>1, Total8Type

(* Empty lanes have no sums.                                               *)
LEMMA EmptyLanes ==
  ASSUME NEW l, NEW k \in Nat, \A j \in 0..7 : l[k + j] = 0
  PROVE  Total8(l, k) = 0 /\ Weights8(l, k) = 0
<1>1. k + 0 = k
  OBVIOUS
<1>2. /\ l[k] = 0 /\ l[k + 1] = 0 /\ l[k + 2] = 0 /\ l[k + 3] = 0
      /\ l[k + 4] = 0 /\ l[k + 5] = 0 /\ l[k + 6] = 0 /\ l[k + 7] = 0
  BY <1>1
<1>. QED
  BY <1>2 DEF Total8, Weights8

(* What the code sums over even and odd lanes.                             *)
LEMMA LaneSums ==
  ASSUME NEW l \in [Lanes -> Nat]
  PROVE  /\ Even(l) + Odd(l) = Total(l)
         /\ VectorWeighted(l) = 8 * Total8(l, 0) + Weights8(l, 0) + Weights8(l, 8)
         /\ 2 * SwarEven(l) + 2 * SwarOdd(l) + (l[1] + l[3] + l[5] + l[7])
              = Weights8(l, 0)
<1>1. /\ l[0] \in Nat /\ l[1] \in Nat /\ l[2] \in Nat /\ l[3] \in Nat
      /\ l[4] \in Nat /\ l[5] \in Nat /\ l[6] \in Nat /\ l[7] \in Nat
  BY DEF Lanes
<1>2. /\ l[8] \in Nat /\ l[9] \in Nat /\ l[10] \in Nat /\ l[11] \in Nat
      /\ l[12] \in Nat /\ l[13] \in Nat /\ l[14] \in Nat /\ l[15] \in Nat
  BY DEF Lanes
<1>3. /\ Total8(l, 0) = l[0] + l[1] + l[2] + l[3] + l[4] + l[5] + l[6] + l[7]
      /\ Weights8(l, 0) = 8 * l[0] + 7 * l[1] + 6 * l[2] + 5 * l[3] + 4 * l[4]
                            + 3 * l[5] + 2 * l[6] + l[7]
  <2>. /\ 0 + 1 = 1 /\ 0 + 2 = 2 /\ 0 + 3 = 3 /\ 0 + 4 = 4 /\ 0 + 5 = 5
       /\ 0 + 6 = 6 /\ 0 + 7 = 7
    OBVIOUS
  <2>. QED
    BY DEF Total8, Weights8
<1>4. /\ Total8(l, 8) = l[8] + l[9] + l[10] + l[11] + l[12] + l[13] + l[14] + l[15]
      /\ Weights8(l, 8) = 8 * l[8] + 7 * l[9] + 6 * l[10] + 5 * l[11] + 4 * l[12]
                            + 3 * l[13] + 2 * l[14] + l[15]
  <2>. /\ 8 + 1 = 9 /\ 8 + 2 = 10 /\ 8 + 3 = 11 /\ 8 + 4 = 12 /\ 8 + 5 = 13
       /\ 8 + 6 = 14 /\ 8 + 7 = 15
    OBVIOUS
  <2>. QED
    BY DEF Total8, Weights8
<1>5. Even(l) + Odd(l) = Total(l)
  <2>1. Even(l) = (l[0] + l[2] + l[4] + l[6]) + (l[8] + l[10] + l[12] + l[14])
    BY <1>1, <1>2 DEF Even
  <2>2. Odd(l) = (l[1] + l[3] + l[5] + l[7]) + (l[9] + l[11] + l[13] + l[15])
    BY <1>1, <1>2 DEF Odd
  <2>3. (l[0] + l[2] + l[4] + l[6]) + (l[1] + l[3] + l[5] + l[7]) = Total8(l, 0)
    BY <1>1, <1>3
  <2>4. (l[8] + l[10] + l[12] + l[14]) + (l[9] + l[11] + l[13] + l[15]) = Total8(l, 8)
    BY <1>2, <1>4
  <2>5. \A a, b, c, d \in Nat : (a + b) + (c + d) = (a + c) + (b + d)
    OBVIOUS
  <2>. DEFINE a == l[0] + l[2] + l[4] + l[6]
              b == l[8] + l[10] + l[12] + l[14]
              c == l[1] + l[3] + l[5] + l[7]
              d == l[9] + l[11] + l[13] + l[15]
  <2>6. a \in Nat /\ b \in Nat /\ c \in Nat /\ d \in Nat
    BY <1>1, <1>2
  <2>. HIDE DEF a, b, c, d
  <2>7. Even(l) = a + b /\ Odd(l) = c + d /\ a + c = Total8(l, 0) /\ b + d = Total8(l, 8)
    BY <2>1, <2>2, <2>3, <2>4 DEF a, b, c, d
  <2>. QED
    BY <2>5, <2>6, <2>7 DEF Total
<1>6. 2 * SwarEven(l) + 2 * SwarOdd(l) + (l[1] + l[3] + l[5] + l[7]) = Weights8(l, 0)
  <2>1. 2 * SwarEven(l) = 8 * l[0] + 6 * l[2] + 4 * l[4] + 2 * l[6]
    BY <1>1 DEF SwarEven
  <2>2. 2 * SwarOdd(l) + (l[1] + l[3] + l[5] + l[7])
        = 7 * l[1] + 5 * l[3] + 3 * l[5] + l[7]
    BY <1>1 DEF SwarOdd
  <2>3. (8 * l[0] + 6 * l[2] + 4 * l[4] + 2 * l[6])
          + (7 * l[1] + 5 * l[3] + 3 * l[5] + l[7]) = Weights8(l, 0)
    BY <1>1, <1>3
  <2>4. SwarEven(l) \in Nat /\ SwarOdd(l) \in Nat
    BY <1>1 DEF SwarEven, SwarOdd
  <2>5. \A a, b, c \in Nat : 2 * a + 2 * b + c = 2 * a + (2 * b + c)
    OBVIOUS
  <2>6. l[1] + l[3] + l[5] + l[7] \in Nat
    BY <1>1
  <2>. QED
    BY <2>1, <2>2, <2>3, <2>4, <2>5, <2>6
<1>7. 16 * l[0] + 15 * l[1] + 14 * l[2] + 13 * l[3] + 12 * l[4] + 11 * l[5]
        + 10 * l[6] + 9 * l[7]
      = 8 * Total8(l, 0) + Weights8(l, 0)
  <2>. DEFINE a == l[0] + l[1] + l[2] + l[3]
              b == l[4] + l[5] + l[6] + l[7]
              c == 8 * l[0] + 7 * l[1] + 6 * l[2] + 5 * l[3]
              d == 4 * l[4] + 3 * l[5] + 2 * l[6] + l[7]
  <2>1. 16 * l[0] + 15 * l[1] + 14 * l[2] + 13 * l[3] = 8 * a + c
    BY <1>1
  <2>2. 12 * l[4] + 11 * l[5] + 10 * l[6] + 9 * l[7] = 8 * b + d
    BY <1>1
  <2>3. Total8(l, 0) = a + b /\ Weights8(l, 0) = c + d
    BY <1>1, <1>3
  <2>4. a \in Nat /\ b \in Nat /\ c \in Nat /\ d \in Nat
    BY <1>1
  <2>5. \A x, y, u, v \in Nat : (8 * x + u) + (8 * y + v) = 8 * (x + y) + (u + v)
    OBVIOUS
  <2>6. (8 * a + c) + (8 * b + d) = 8 * (a + b) + (c + d)
    <3>. HIDE DEF a, b, c, d
    <3>. QED
      BY <2>4, <2>5
  <2>7. 16 * l[0] + 15 * l[1] + 14 * l[2] + 13 * l[3] + 12 * l[4] + 11 * l[5]
          + 10 * l[6] + 9 * l[7]
        = (16 * l[0] + 15 * l[1] + 14 * l[2] + 13 * l[3])
          + (12 * l[4] + 11 * l[5] + 10 * l[6] + 9 * l[7])
    BY <1>1
  <2>. QED
    <3>. HIDE DEF a, b, c, d
    <3>. QED
      BY <2>1, <2>2, <2>3, <2>6, <2>7
<1>8. VectorWeighted(l)
      = (16 * l[0] + 15 * l[1] + 14 * l[2] + 13 * l[3] + 12 * l[4] + 11 * l[5]
          + 10 * l[6] + 9 * l[7]) + Weights8(l, 8)
  <2>. DEFINE a == 16 * l[0] + 15 * l[1] + 14 * l[2] + 13 * l[3] + 12 * l[4]
                   + 11 * l[5] + 10 * l[6] + 9 * l[7]
  <2>1. a \in Nat
    BY <1>1
  <2>2. VectorWeighted(l) = a + 8 * l[8] + 7 * l[9] + 6 * l[10] + 5 * l[11]
                            + 4 * l[12] + 3 * l[13] + 2 * l[14] + l[15]
    BY DEF VectorWeighted
  <2>3. VectorWeighted(l) = a + Weights8(l, 8)
    <3>. HIDE DEF a
    <3>. QED
      BY <1>2, <1>4, <2>1, <2>2
  <2>. QED
    BY <2>3
<1>. QED
  BY <1>5, <1>6, <1>7, <1>8

(* What a block of at most 23 words leaves in the lanes.                   *)
LEMMA LaneBounds ==
  ASSUME HashTypeOK, LanesInv, hpc = "words"
  PROVE  /\ \A p \in Lanes : /\ lane1[p] \in Nat /\ lane2[p] \in Nat
                            /\ lane1[p] <= 5865
         /\ word < words => \A p \in Lanes : lane2[p] + lane1[p] <= 65535
<1>1. word \in Nat /\ words \in Nat /\ word <= words /\ words <= 23
  BY DEF HashTypeOK, BlockWords
<1>2. \A p \in Lanes : lane1[p] \in Nat /\ lane2[p] \in Nat
  BY UInt16Fact DEF HashTypeOK
<1>3. \A p \in Lanes : lane1[p] <= 255 * word
  BY DEF LanesInv
<1>4. \A p \in Lanes : lane1[p] <= 5865
  BY <1>1, <1>2, <1>3
<1>5. ASSUME word < words, NEW p \in Lanes
      PROVE  lane2[p] + lane1[p] <= 65535
  <2>1. word <= 22
    BY <1>1, <1>5
  <2>2. word * word \in Nat /\ word * word <= 22 * word
    BY <1>1, <2>1
  <2>3. 2 * lane2[p] <= 255 * (word * word) - 255 * word
    BY DEF LanesInv
  <2>. DEFINE sq == word * word
  <2>4. sq \in Nat /\ sq <= 22 * word /\ 2 * lane2[p] <= 255 * sq - 255 * word
    BY <2>2, <2>3
  <2>. HIDE DEF sq
  <2>. QED
    BY <1>1, <1>2, <1>3, <2>1, <2>4
<1>. QED
  BY <1>2, <1>4, <1>5

(* The lanes never wrap around, nor do the sums that the code computes in  *)
(* 16 bits: the property LanesFit.                                         *)
LEMMA LanesInvFits ==
  ASSUME HashTypeOK, LanesInv
  PROVE  LanesFit
<1>. SUFFICES ASSUME hpc = "words"
              PROVE  /\ word < words => \A p \in Lanes : /\ lane1[p] + 255 <= 65535
                                                        /\ lane2[p] + lane1[p] <= 65535
                     /\ IF kernel = "swar"
                          THEN /\ Even(lane1) + Odd(lane1) <= 65535
                               /\ SwarEven(lane1) <= 65535 /\ SwarOdd(lane1) <= 65535
                          ELSE Even(lane1) <= 65535 /\ Odd(lane1) <= 65535
  BY DEF LanesFit
<1>1. \A p \in Lanes : lane1[p] \in Nat /\ lane2[p] \in Nat /\ lane1[p] <= 5865
  BY LaneBounds
<1>2. word < words => \A p \in Lanes : lane2[p] + lane1[p] <= 65535
  BY LaneBounds
<1>3. /\ lane1[0] \in Nat /\ lane1[1] \in Nat /\ lane1[2] \in Nat /\ lane1[3] \in Nat
      /\ lane1[4] \in Nat /\ lane1[5] \in Nat /\ lane1[6] \in Nat /\ lane1[7] \in Nat
      /\ lane1[0] <= 5865 /\ lane1[1] <= 5865 /\ lane1[2] <= 5865 /\ lane1[3] <= 5865
      /\ lane1[4] <= 5865 /\ lane1[5] <= 5865 /\ lane1[6] <= 5865 /\ lane1[7] <= 5865
  BY <1>1 DEF Lanes
<1>4. /\ lane1[8] \in Nat /\ lane1[9] \in Nat /\ lane1[10] \in Nat /\ lane1[11] \in Nat
      /\ lane1[12] \in Nat /\ lane1[13] \in Nat /\ lane1[14] \in Nat /\ lane1[15] \in Nat
      /\ lane1[8] <= 5865 /\ lane1[9] <= 5865 /\ lane1[10] <= 5865 /\ lane1[11] <= 5865
      /\ lane1[12] <= 5865 /\ lane1[13] <= 5865 /\ lane1[14] <= 5865 /\ lane1[15] <= 5865
  BY <1>1 DEF Lanes
<1>5. Even(lane1) <= 65535 /\ Odd(lane1) <= 65535
  BY <1>3, <1>4 DEF Even, Odd
<1>6. SwarEven(lane1) <= 65535 /\ SwarOdd(lane1) <= 65535
  BY <1>3 DEF SwarEven, SwarOdd
<1>7. ASSUME kernel = "swar" PROVE Even(lane1) + Odd(lane1) <= 65535
  <2>1. \A p \in Lanes : p >= 8 => lane1[p] = 0
    BY <1>7 DEF LanesInv, WordSize
  <2>2. /\ lane1[8] = 0 /\ lane1[9] = 0 /\ lane1[10] = 0 /\ lane1[11] = 0
        /\ lane1[12] = 0 /\ lane1[13] = 0 /\ lane1[14] = 0 /\ lane1[15] = 0
    BY <2>1 DEF Lanes
  <2>3. Even(lane1) <= 4 * 5865 /\ Even(lane1) \in Nat
    BY <1>3, <2>2 DEF Even
  <2>4. Odd(lane1) <= 4 * 5865 /\ Odd(lane1) \in Nat
    BY <1>3, <2>2 DEF Odd
  <2>. QED
    BY <2>3, <2>4
<1>8. word < words => \A p \in Lanes : lane1[p] + 255 <= 65535
  BY <1>1
<1>. QED
  BY <1>2, <1>5, <1>6, <1>7, <1>8

-----------------------------------------------------------------------------
(* The value between the calls                                             *)

(* A value packed from sums of at most 17 bits has two halves of 16 bits,  *)
(* those of the sums when they are reduced.                                *)
LEMMA PackType ==
  ASSUME NEW t \in SumsType, t.s1 <= 69360
  PROVE  /\ Pack(t).lo \in UInt16 /\ Pack(t).hi \in UInt16
         /\ Pack(t) \in [lo : UInt16, hi : UInt16]
         /\ IsReduced(t) => Pack(t).lo = t.s1 /\ Pack(t).hi = t.s2
<1>. DEFINE carry == t.s1 \div 65536
            high  == t.s2 % 65536
<1>1. t.s1 \in Nat /\ t.s2 \in Nat
  BY DEF SumsType
<1>2. carry \in Nat /\ carry <= 1
  BY <1>1
<1>3. high \in Nat /\ high <= 65535
  BY <1>1
<1>4. t.s1 % 65536 \in Nat /\ t.s1 % 65536 <= 65535
  BY <1>1
<1>5. high % 2 = 0 => high + carry <= 65535
  BY <1>2, <1>3
<1>6. Pack(t) = [lo |-> t.s1 % 65536,
                 hi |-> IF high % 2 = 0 THEN high + carry ELSE high]
  BY DEF Pack
<1>7. ASSUME IsReduced(t)
      PROVE  carry = 0 /\ high = t.s2 /\ t.s1 % 65536 = t.s1
  BY <1>1, <1>7 DEF IsReduced, Base
<1>8. Pack(t).lo \in UInt16 /\ Pack(t).hi \in UInt16
  <2>. HIDE DEF carry, high
  <2>. QED
    BY <1>2, <1>3, <1>4, <1>5, <1>6, UInt16Fact
<1>9. Pack(t) \in [lo : UInt16, hi : UInt16]
  BY <1>6, <1>8
<1>10. IsReduced(t) => Pack(t).lo = t.s1 /\ Pack(t).hi = t.s2
  <2>. HIDE DEF carry, high
  <2>1. high + 0 = high
    BY <1>3
  <2>. QED
    BY <1>6, <1>7, <2>1
<1>. QED
  BY <1>8, <1>9, <1>10

(* The two halves are sums.                                                *)
LEMMA UnpackType ==
  ASSUME HashTypeOK
  PROVE  /\ Unpack(value) \in SumsType
         /\ Unpack(value).s1 = value.lo /\ Unpack(value).s2 = value.hi
         /\ value.lo \in UInt16 /\ value.hi \in UInt16
<1>1. value.lo \in UInt16 /\ value.hi \in UInt16
  BY DEF HashTypeOK
<1>2. value.lo \in Nat /\ value.hi \in Nat
  BY <1>1, UInt16Fact
<1>. QED
  BY <1>1, <1>2 DEF Unpack, Sums, SumsType

-----------------------------------------------------------------------------
(* The steps                                                               *)

(* The first state.                                                        *)
LEMMA ReadyInv ==
  ASSUME HashReady
  PROVE  HInv
<1>1. Sums(0, 0) \in SumsType /\ Sums(0, 0).s1 = 0 /\ Sums(0, 0).s2 = 0
  BY DEF Sums, SumsType
<1>2. IsReduced(Sums(0, 0))
  BY <1>1 DEF IsReduced, Base
<1>3. value \in [lo : UInt16, hi : UInt16] /\ value.lo = 0 /\ value.hi = 0
  BY <1>1, <1>2, PackType DEF HashReady
<1>4. HashTypeOK
  <2>1. NoLanes \in [Lanes -> UInt16]
    BY UInt16Fact DEF NoLanes
  <2>2. /\ kernel \in Kernels /\ hpc \in {"idle", "loop", "words", "tail", "overrun"}
        /\ narrow \in BOOLEAN
    BY DEF HashReady
  <2>3. /\ s \in [s1 : Nat, s2 : Nat] /\ ref \in [s1 : Nat, s2 : Nat]
        /\ lane1 \in [Lanes -> UInt16] /\ lane2 \in [Lanes -> UInt16]
    BY <1>1, <2>1 DEF HashReady, SumsType
  <2>4. /\ pos \in Nat /\ len \in Nat /\ rlen \in 0..15
        /\ word \in 0..words /\ words \in 0..BlockWords
    BY DEF HashReady, BlockWords
  <2>. QED
    BY <1>3, <2>2, <2>3, <2>4 DEF HashTypeOK
<1>5. BufferInv /\ LanesInv
  BY DEF HashReady, BufferInv, LanesInv
<1>6. ReducedInv
  BY <1>3 DEF HashReady, ReducedInv, Base
<1>7. AgreeInv
  <2>1. Unpack(value) = Sums(0, 0)
    BY <1>3 DEF Unpack
  <2>2. Reduced(ref) = Sums(0, 0)
    BY <1>1 DEF HashReady, Reduced, Base
  <2>. QED
    BY <2>1, <2>2 DEF HashReady, AgreeInv
<1>. QED
  BY <1>4, <1>5, <1>6, <1>7 DEF HInv

LEMMA HashInitInv ==
  ASSUME HInv, HashInit
  PROVE  HInv'
<1>1. Sums(0, 0) \in SumsType /\ Sums(0, 0).s1 = 0 /\ Sums(0, 0).s2 = 0
  BY DEF Sums, SumsType
<1>2. IsReduced(Sums(0, 0))
  BY <1>1 DEF IsReduced, Base
<1>3. value' \in [lo : UInt16, hi : UInt16] /\ value'.lo = 0 /\ value'.hi = 0
  BY <1>1, <1>2, PackType DEF HashInit
<1>4. HashTypeOK'
  BY <1>1, <1>3 DEF HInv, HashInit, HashTypeOK, SumsType
<1>5. BufferInv' /\ LanesInv'
  BY DEF HashInit, BufferInv, LanesInv
<1>6. ReducedInv'
  BY <1>3 DEF HashInit, ReducedInv, Base
<1>7. AgreeInv'
  <2>1. Unpack(value') = Sums(0, 0)
    BY <1>3 DEF Unpack
  <2>2. Reduced(ref') = Sums(0, 0)
    BY <1>1 DEF HashInit, Reduced, Base
  <2>3. hpc' = "idle"
    BY DEF HashInit
  <2>. QED
    BY <2>1, <2>2, <2>3 DEF AgreeInv
<1>. QED
  BY <1>4, <1>5, <1>6, <1>7 DEF HInv

LEMMA UpdateByteInv ==
  ASSUME HInv, NEW data \in Data(1), UpdateByte(data)
  PROVE  HInv'
<1>1. data[0] \in UInt8
  BY DEF Data
<1>2. data[0] \in Nat /\ data[0] <= 255
  BY <1>1 DEF UInt8
<1>3. HashTypeOK
  BY DEF HInv
<1>4. value.lo \in Nat /\ value.lo <= 65535 /\ value.hi \in Nat /\ value.hi <= 65535
  BY <1>3, UnpackType, UInt16Fact
<1>. DEFINE one == LessBase(value.lo + data[0])
            two == LessBase(value.hi + one)
<1>5. one \in Nat /\ one <= 65535
  BY <1>2, <1>4 DEF LessBase, Base
<1>6. two \in Nat
  BY <1>4, <1>5 DEF LessBase, Base
<1>7. value' = Pack(Sums(one, two))
  BY DEF UpdateByte, Update1
<1>8. Sums(one, two) \in SumsType /\ Sums(one, two).s1 = one /\ Sums(one, two).s2 = two
  <2>. HIDE DEF one, two
  <2>. QED
    BY <1>5, <1>6 DEF Sums, SumsType
<1>9. value' \in [lo : UInt16, hi : UInt16]
  <2>. HIDE DEF one, two
  <2>. QED
    BY <1>5, <1>7, <1>8, PackType
<1>10. /\ ref' = Add(Unpack(value), data[0])
       /\ ref' \in SumsType
       /\ ref'.s1 = value.lo + data[0] /\ ref'.s2 = value.hi + value.lo + data[0]
  <2>1. ref' = Add(Unpack(value), data[0])
    BY DEF UpdateByte, DO1
  <2>. QED
    BY <1>2, <1>3, <1>4, <2>1, UnpackType DEF Add, Sums, SumsType
<1>11. HashTypeOK'
  BY <1>3, <1>9, <1>10 DEF UpdateByte, HashTypeOK, SumsType
<1>12. BufferInv' /\ LanesInv'
  BY DEF UpdateByte, BufferInv, LanesInv
<1>13. ASSUME ~narrow
       PROVE  /\ value'.lo = one /\ value'.hi = two /\ one < Base /\ two < Base
              /\ Reduced(ref') = Sums(one, two)
  <2>1. value.lo < Base /\ value.hi < Base
    BY <1>13 DEF HInv, ReducedInv
  <2>2. one < Base /\ one = (value.lo + data[0]) % Base
    BY <1>2, <1>4, <2>1 DEF LessBase, Base
  <2>3. two < Base /\ two = (value.hi + one) % Base
    <3>. HIDE DEF one
    <3>. QED
      BY <1>4, <1>5, <2>1, <2>2 DEF LessBase, Base
  <2>4. \A x \in Nat : (x + Base) % Base = x % Base
    BY DEF Base
  <2>5. two = (value.hi + value.lo + data[0]) % Base
    <3>1. \/ value.lo + data[0] = one
          \/ value.lo + data[0] = one + Base
      BY <1>2, <1>4 DEF LessBase, Base
    <3>2. value.hi + value.lo + data[0] = value.hi + (value.lo + data[0])
      BY <1>2, <1>4
    <3>3. value.hi + (one + Base) = (value.hi + one) + Base /\ value.hi + one \in Nat
      <4>. HIDE DEF one
      <4>. QED
        BY <1>4, <1>5 DEF Base
    <3>. HIDE DEF one, two
    <3>. QED
      BY <2>3, <2>4, <3>1, <3>2, <3>3
  <2>6. Reduced(ref') = Sums(one, two)
    <3>. HIDE DEF one, two
    <3>. QED
      BY <1>10, <2>2, <2>5 DEF Reduced
  <2>7. IsReduced(Sums(one, two))
    <3>. HIDE DEF one, two
    <3>. QED
      BY <1>8, <2>2, <2>3 DEF IsReduced
  <2>8. value'.lo = one /\ value'.hi = two
    <3>. HIDE DEF one, two
    <3>. QED
      BY <1>5, <1>7, <1>8, <2>7, PackType
  <2>. QED
    BY <2>2, <2>3, <2>6, <2>8
<1>14. ReducedInv'
  <2>. HIDE DEF one, two
  <2>1. narrow' = narrow /\ hpc' = "idle"
    BY DEF UpdateByte
  <2>. QED
    BY <1>13, <2>1 DEF ReducedInv
<1>15. AgreeInv'
  <2>. HIDE DEF one, two
  <2>1. narrow' = narrow /\ hpc' = "idle"
    BY DEF UpdateByte
  <2>. QED
    BY <1>13, <2>1 DEF AgreeInv, Unpack
<1>. QED
  BY <1>11, <1>12, <1>14, <1>15 DEF HInv

LEMMA StartInv ==
  ASSUME HInv, NEW n \in Nat \ {0}, NEW misalignment \in 0..15,
         NEW data \in Data(n), Start(data, n, misalignment)
  PROVE  HInv'
<1>. DEFINE before == IF kernel = "ssse3" THEN (16 - misalignment) % 16 ELSE 0
<1>1. before \in 0..15 /\ before \in Nat /\ before <= 15
  BY DEF before
<1>2. /\ s' = Unpack(value) /\ ref' = Unpack(value) /\ buf' = data
      /\ pos' = 0 /\ rlen' = before /\ len' = n
      /\ narrow' = (narrow \/ before >= n)
      /\ hpc = "idle"
      /\ UNCHANGED <<kernel, value, word, words, lane1, lane2>>
  BY DEF Start
<1>3. /\ kernel = "c" => hpc' = "tail"
      /\ kernel # "c" /\ before > n => hpc' = "overrun"
      /\ kernel # "c" /\ ~(before > n) => hpc' = "loop"
  BY DEF Start
<1>. HIDE DEF before
<1>4. HashTypeOK /\ kernel \in {"c", "swar", "ssse3"}
  BY HashAssumption DEF HInv, HashTypeOK
<1>5. /\ Unpack(value) \in SumsType
      /\ Unpack(value).s1 = value.lo /\ Unpack(value).s2 = value.hi
      /\ value.lo \in Nat /\ value.lo <= 65535
  BY <1>4, UnpackType, UInt16Fact
<1>6. kernel = "c" => before = 0
  BY DEF before
<1>7. HashTypeOK'
  <2>1. narrow' \in BOOLEAN
    BY <1>2
  <2>2. hpc' \in {"idle", "loop", "words", "tail", "overrun"}
    BY <1>3
  <2>3. s' \in [s1 : Nat, s2 : Nat] /\ ref' \in [s1 : Nat, s2 : Nat]
    BY <1>2, <1>5 DEF SumsType
  <2>4. pos' \in Nat /\ len' \in Nat /\ rlen' \in 0..15
    BY <1>1, <1>2
  <2>. QED
    BY <1>2, <1>4, <2>1, <2>2, <2>3, <2>4 DEF HashTypeOK
<1>8. BufferInv'
  <2>1. 0 + n - 1 = n - 1
    OBVIOUS
  <2>2. buf' \in [0..pos' + len' - 1 -> UInt8]
    BY <1>2, <2>1 DEF Data
  <2>3. hpc' # "words" /\ (hpc' = "loop" => kernel \in {"swar", "ssse3"})
    BY <1>3, <1>4
  <2>4. (hpc' = "loop" => len' >= rlen') /\ (hpc' = "tail" => rlen' = 0)
    BY <1>1, <1>2, <1>3, <1>4, <1>6
  <2>. QED
    BY <1>2, <2>2, <2>3, <2>4 DEF BufferInv
<1>9. LanesInv'
  BY <1>3 DEF LanesInv
<1>10. ReducedInv'
  <2>1. ~narrow' => ~narrow /\ n > before
    <3>1. ~narrow' => ~narrow /\ ~(before >= n)
      BY <1>2, Zenon
    <3>2. ~(before >= n) => n > before
      BY <1>1
    <3>. QED
      BY <3>1, <3>2, Zenon
  <2>2. ~narrow' => value'.lo < Base /\ value'.hi < Base
    BY <1>2, <2>1 DEF HInv, ReducedInv
  <2>3. s'.s1 + 255 * rlen' <= 69360
    BY <1>1, <1>2, <1>5
  <2>4. ~narrow' => len' > rlen' /\ len' > 0
    BY <1>1, <1>2, <2>1
  <2>5. /\ ~narrow' /\ hpc' = "loop" => len' > rlen' \/ (rlen' = 0 /\ IsReduced(s'))
        /\ ~narrow' /\ hpc' = "tail" => len' > 0 \/ IsReduced(s')
    BY <2>4
  <2>. QED
    BY <2>2, <2>3, <2>5 DEF ReducedInv, IsReduced
<1>11. AgreeInv'
  <2>1. Agree(ref', s')
    BY <1>2, <1>5, AgreeRefl
  <2>2. hpc' # "words" /\ hpc' # "idle"
    BY <1>3
  <2>. QED
    BY <2>1, <2>2 DEF AgreeInv
<1>. QED
  BY <1>7, <1>8, <1>9, <1>10, <1>11 DEF HInv

(* What the four cases of PeelBytes have in common.                        *)
LEMMA PeelInv ==
  ASSUME HInv, NEW n \in Nat \ {0}, hpc = "loop", rlen >= n,
         pos' = pos + n, rlen' = rlen - n, len' = len - n,
         s' \in SumsType, ref' \in SumsType, Agree(ref', s'),
         s'.s1 <= s.s1 + 255 * n,
         UNCHANGED <<kernel, hpc, value, buf, word, words, lane1, lane2, narrow>>
  PROVE  HInv'
<1>1. /\ rlen \in Nat /\ rlen <= 15 /\ len \in Nat /\ pos \in Nat /\ len >= rlen
      /\ s.s1 \in Nat /\ s.s1 + 255 * rlen <= 69360 /\ s'.s1 \in Nat
  BY DEF HInv, HashTypeOK, BufferInv, ReducedInv, SumsType
<1>2. HashTypeOK'
  <2>1. pos' \in Nat /\ len' \in Nat /\ rlen' \in 0..15
    BY <1>1
  <2>. QED
    BY <2>1 DEF HInv, HashTypeOK, SumsType
<1>3. BufferInv'
  <2>1. pos' + len' - 1 = pos + len - 1 /\ len' >= rlen'
    BY <1>1
  <2>2. buf' \in [0..pos' + len' - 1 -> UInt8] /\ kernel' \in {"swar", "ssse3"}
    BY <2>1 DEF HInv, BufferInv
  <2>. QED
    BY <2>1, <2>2 DEF BufferInv
<1>4. LanesInv'
  BY DEF LanesInv
<1>5. ReducedInv'
  <2>1. s'.s1 + 255 * rlen' <= 69360
    BY <1>1
  <2>2. ~narrow => len' > rlen'
    <3>1. ~narrow => len > rlen \/ rlen = 0
      BY DEF HInv, ReducedInv
    <3>. QED
      BY <1>1, <3>1
  <2>3. ~narrow => value.lo < Base /\ value.hi < Base
    BY DEF HInv, ReducedInv
  <2>4. hpc' = "loop" /\ hpc' # "tail" /\ narrow' = narrow /\ value' = value
    OBVIOUS
  <2>5. /\ ~narrow' /\ hpc' = "loop" => len' > rlen' \/ (rlen' = 0 /\ IsReduced(s'))
        /\ ~narrow' /\ hpc' = "tail" => len' > 0 \/ IsReduced(s')
    BY <2>2, <2>4
  <2>6. ~narrow' => value'.lo < Base /\ value'.hi < Base
    BY <2>3, <2>4
  <2>. QED
    BY <2>1, <2>5, <2>6 DEF ReducedInv, IsReduced
<1>6. AgreeInv'
  BY DEF AgreeInv
<1>. QED
  BY <1>2, <1>3, <1>4, <1>5, <1>6 DEF HInv

LEMMA Peel1Inv ==
  ASSUME HInv, Peel(1, DO1(s, buf, pos)), ref' = DO1(ref, buf, pos),
         UNCHANGED <<kernel, hpc, value, buf, word, words, lane1, lane2, narrow>>
  PROVE  HInv'
<1>1. /\ hpc = "loop" /\ rlen % (2 * 1) = 1
      /\ s' = DO1(s, buf, pos) /\ pos' = pos + 1
      /\ rlen' = rlen - 1 /\ len' = len - 1
  BY DEF Peel
<1>2. /\ rlen \in Nat /\ rlen <= 15 /\ len \in Nat /\ pos \in Nat /\ len >= rlen
      /\ s \in SumsType /\ ref \in SumsType /\ Agree(ref, s)
      /\ buf \in [0..pos + len - 1 -> UInt8]
      /\ s.s1 + 255 * rlen <= 69360
  BY <1>1 DEF HInv, HashTypeOK, BufferInv, ReducedInv, AgreeInv, SumsType
<1>3. rlen >= 1
  BY <1>1, <1>2
<1>4. \A j \in pos..pos + 0 : buf[j] \in UInt8
  BY <1>2, <1>3
<1>5. /\ s' \in SumsType /\ ref' \in SumsType /\ Agree(ref', s')
      /\ s'.s1 <= s.s1 + 255
  BY <1>1, <1>2, <1>4, DO1Agrees
<1>. QED
  BY <1>1, <1>2, <1>3, <1>5, PeelInv

LEMMA Peel2Inv ==
  ASSUME HInv, Peel(2, DO2(s, buf, pos)), ref' = DO2(ref, buf, pos),
         UNCHANGED <<kernel, hpc, value, buf, word, words, lane1, lane2, narrow>>
  PROVE  HInv'
<1>1. /\ hpc = "loop" /\ rlen % (2 * 2) = 2
      /\ s' = DO2(s, buf, pos) /\ pos' = pos + 2
      /\ rlen' = rlen - 2 /\ len' = len - 2
  BY DEF Peel
<1>2. /\ rlen \in Nat /\ rlen <= 15 /\ len \in Nat /\ pos \in Nat /\ len >= rlen
      /\ s \in SumsType /\ ref \in SumsType /\ Agree(ref, s)
      /\ buf \in [0..pos + len - 1 -> UInt8]
      /\ s.s1 + 255 * rlen <= 69360
  BY <1>1 DEF HInv, HashTypeOK, BufferInv, ReducedInv, AgreeInv, SumsType
<1>3. rlen >= 2
  BY <1>1, <1>2
<1>4. \A j \in pos..pos + 1 : buf[j] \in UInt8
  BY <1>2, <1>3
<1>5. /\ s' \in SumsType /\ ref' \in SumsType /\ Agree(ref', s')
      /\ s'.s1 <= s.s1 + 510
  BY <1>1, <1>2, <1>4, DO2Agrees
<1>. QED
  BY <1>1, <1>2, <1>3, <1>5, PeelInv

LEMMA Peel4Inv ==
  ASSUME HInv, Peel(4, DO4(s, buf, pos)), ref' = DO4(ref, buf, pos),
         UNCHANGED <<kernel, hpc, value, buf, word, words, lane1, lane2, narrow>>
  PROVE  HInv'
<1>1. /\ hpc = "loop" /\ rlen % (2 * 4) = 4
      /\ s' = DO4(s, buf, pos) /\ pos' = pos + 4
      /\ rlen' = rlen - 4 /\ len' = len - 4
  BY DEF Peel
<1>2. /\ rlen \in Nat /\ rlen <= 15 /\ len \in Nat /\ pos \in Nat /\ len >= rlen
      /\ s \in SumsType /\ ref \in SumsType /\ Agree(ref, s)
      /\ buf \in [0..pos + len - 1 -> UInt8]
      /\ s.s1 + 255 * rlen <= 69360
  BY <1>1 DEF HInv, HashTypeOK, BufferInv, ReducedInv, AgreeInv, SumsType
<1>3. rlen >= 4
  BY <1>1, <1>2
<1>4. \A j \in pos..pos + 3 : buf[j] \in UInt8
  BY <1>2, <1>3
<1>5. /\ s' \in SumsType /\ ref' \in SumsType /\ Agree(ref', s')
      /\ s'.s1 <= s.s1 + 1020
  BY <1>1, <1>2, <1>4, DO4Agrees
<1>. QED
  BY <1>1, <1>2, <1>3, <1>5, PeelInv

LEMMA Peel8Inv ==
  ASSUME HInv, Peel(8, DO8(s, buf, pos)), ref' = DO8(ref, buf, pos),
         UNCHANGED <<kernel, hpc, value, buf, word, words, lane1, lane2, narrow>>
  PROVE  HInv'
<1>1. /\ hpc = "loop" /\ rlen % (2 * 8) = 8
      /\ s' = DO8(s, buf, pos) /\ pos' = pos + 8
      /\ rlen' = rlen - 8 /\ len' = len - 8
  BY DEF Peel
<1>2. /\ rlen \in Nat /\ rlen <= 15 /\ len \in Nat /\ pos \in Nat /\ len >= rlen
      /\ s \in SumsType /\ ref \in SumsType /\ Agree(ref, s)
      /\ buf \in [0..pos + len - 1 -> UInt8]
      /\ s.s1 + 255 * rlen <= 69360
  BY <1>1 DEF HInv, HashTypeOK, BufferInv, ReducedInv, AgreeInv, SumsType
<1>3. rlen >= 8
  BY <1>1, <1>2
<1>4. \A j \in pos..pos + 7 : buf[j] \in UInt8
  BY <1>2, <1>3
<1>5. /\ s' \in SumsType /\ ref' \in SumsType /\ Agree(ref', s')
      /\ s'.s1 <= s.s1 + 2040
  BY <1>1, <1>2, <1>4, DO8Agrees
<1>. QED
  BY <1>1, <1>2, <1>3, <1>5, PeelInv

LEMMA PeelBytesInv ==
  ASSUME HInv, PeelBytes
  PROVE  HInv'
BY Peel1Inv, Peel2Inv, Peel4Inv, Peel8Inv DEF PeelBytes

(* Empty lanes leave Merged at s.                                          *)
LEMMA StartBlockInv ==
  ASSUME HInv, StartBlock
  PROVE  HInv'
<1>. DEFINE n == IF len \div WordSize < BlockWords THEN len \div WordSize ELSE BlockWords
<1>1. /\ hpc = "loop" /\ rlen = 0 /\ hpc' = "words" /\ word' = 0 /\ words' = n
      /\ len' = len - n * WordSize
      /\ lane1' = NoLanes /\ lane2' = NoLanes
      /\ UNCHANGED <<kernel, value, s, buf, pos, rlen, ref, narrow>>
  BY DEF StartBlock
<1>2. /\ len \in Nat /\ pos \in Nat /\ kernel \in {"swar", "ssse3"}
      /\ s \in SumsType /\ ref \in SumsType /\ Agree(ref, s)
      /\ buf \in [0..pos + len - 1 -> UInt8]
  BY <1>1 DEF HInv, HashTypeOK, BufferInv, AgreeInv, SumsType
<1>3. WordSize \in {8, 16} /\ WordSize' = WordSize
  BY <1>1 DEF WordSize
<1>4. n \in 0..23 /\ n \in Nat /\ len - n * WordSize \in Nat
  <2>1. CASE WordSize = 8
    BY <1>2, <2>1 DEF BlockWords
  <2>2. CASE WordSize = 16
    BY <1>2, <2>2 DEF BlockWords
  <2>. QED
    BY <1>3, <2>1, <2>2
<1>5. n * WordSize \in Nat
  <2>. HIDE DEF n
  <2>. QED
    BY <1>3, <1>4
<1>. HIDE DEF n
<1>6. NoLanes \in [Lanes -> UInt16] /\ NoLanes \in [Lanes -> Nat]
  BY UInt16Fact DEF NoLanes
<1>7. HashTypeOK'
  <2>1. len' \in Nat /\ word' \in 0..words' /\ words' \in 0..BlockWords
    BY <1>1, <1>4 DEF BlockWords
  <2>. QED
    BY <1>1, <1>6, <2>1 DEF HInv, HashTypeOK
<1>8. BufferInv'
  <2>1. pos' + len' + (words' - word') * WordSize' - 1 = pos + len - 1
    <3>1. (n - 0) * WordSize = n * WordSize
      BY <1>4
    <3>. DEFINE k == n * WordSize
    <3>2. k \in Nat /\ len' = len - k /\ (words' - word') * WordSize' = k
      BY <1>1, <1>3, <1>5, <3>1
    <3>. HIDE DEF k
    <3>. QED
      BY <1>1, <1>2, <3>2
  <2>. QED
    BY <1>1, <1>2, <2>1 DEF BufferInv
<1>9. LanesInv'
  <2>. SUFFICES ASSUME NEW p \in Lanes
                PROVE  /\ lane1'[p] <= 255 * word'
                       /\ 2 * lane2'[p] <= 255 * (word' * word') - 255 * word'
                       /\ p >= WordSize' => lane1'[p] = 0 /\ lane2'[p] = 0
    BY DEF LanesInv
  <2>1. lane1'[p] = 0 /\ lane2'[p] = 0
    BY <1>1 DEF NoLanes
  <2>. QED
    BY <1>1, <2>1
<1>10. ReducedInv'
  BY <1>1 DEF HInv, ReducedInv
<1>11. AgreeInv'
  <2>1. \A k \in Nat : Total8(NoLanes, 0) = 0 /\ Total8(NoLanes, 8) = 0
                      /\ Weights8(NoLanes, 0) = 0 /\ Weights8(NoLanes, 8) = 0
    <3>1. \A j \in 0..7 : NoLanes[0 + j] = 0 /\ NoLanes[8 + j] = 0
      BY DEF NoLanes, Lanes
    <3>. QED
      BY <3>1, EmptyLanes
  <2>2. Total(NoLanes) = 0 /\ Weights(NoLanes)' = 0
    BY <1>1, <2>1 DEF Total, Weights
  <2>3. Merged' = Sums(s.s1 + 0, s.s2 + 0 * (WordSize * s.s1) + WordSize * 0 + 0)
    BY <1>1, <1>3, <2>2 DEF Merged, Total, Weights
  <2>4. s.s1 + 0 = s.s1 /\ s.s2 + 0 * (WordSize * s.s1) + WordSize * 0 + 0 = s.s2
    BY <1>2, <1>3 DEF SumsType
  <2>5. Agree(ref, Sums(s.s1, s.s2))
    BY <1>2 DEF Agree, Sums
  <2>. QED
    BY <1>1, <2>3, <2>4, <2>5 DEF AgreeInv
<1>. QED
  BY <1>7, <1>8, <1>9, <1>10, <1>11 DEF HInv

LEMMA EndBlocksInv ==
  ASSUME HInv, EndBlocks
  PROVE  HInv'
<1>1. /\ hpc = "loop" /\ rlen = 0 /\ hpc' = "tail"
      /\ UNCHANGED <<kernel, value, s, buf, pos, len, rlen, word, words, lane1,
                     lane2, ref, narrow>>
  BY DEF EndBlocks
<1>2. HashTypeOK' /\ BufferInv' /\ LanesInv' /\ AgreeInv'
  BY <1>1 DEF HInv, HashTypeOK, BufferInv, LanesInv, AgreeInv
<1>3. ReducedInv'
  <2>1. rlen = 0 /\ len \in Nat
    BY <1>1 DEF HInv, HashTypeOK
  <2>. QED
    BY <1>1, <2>1 DEF HInv, ReducedInv
<1>. QED
  BY <1>2, <1>3 DEF HInv

LEMMA TailByteInv ==
  ASSUME HInv, TailByte
  PROVE  HInv'
<1>1. /\ hpc = "tail" /\ len > 0 /\ rlen = 0
      /\ s' = Reduced(DO1(s, buf, pos)) /\ ref' = DO1(ref, buf, pos)
      /\ pos' = pos + 1 /\ len' = len - 1
      /\ UNCHANGED <<kernel, hpc, value, buf, rlen, word, words, lane1, lane2, narrow>>
  BY DEF TailByte, HInv, BufferInv
<1>2. /\ len \in Nat /\ pos \in Nat
      /\ s \in SumsType /\ ref \in SumsType /\ Agree(ref, s)
      /\ buf \in [0..pos + len - 1 -> UInt8]
  BY <1>1 DEF HInv, HashTypeOK, BufferInv, AgreeInv, SumsType
<1>3. \A j \in pos..pos : buf[j] \in UInt8
  BY <1>1, <1>2
<1>4. /\ Agree(ref', DO1(s, buf, pos))
      /\ ref' \in SumsType /\ DO1(s, buf, pos) \in SumsType
  BY <1>1, <1>2, <1>3, DO1Agrees
<1>5. s' \in SumsType /\ IsReduced(s') /\ Agree(ref', s')
  BY <1>1, <1>4, ReducedAgrees
<1>6. HashTypeOK'
  BY <1>1, <1>2, <1>4, <1>5 DEF HInv, HashTypeOK, SumsType
<1>7. BufferInv'
  <2>1. pos' + len' - 1 = pos + len - 1
    BY <1>1, <1>2
  <2>. QED
    BY <1>1, <1>2, <2>1 DEF BufferInv
<1>8. LanesInv' /\ AgreeInv'
  BY <1>1, <1>5 DEF LanesInv, AgreeInv
<1>9. ReducedInv'
  <2>1. s'.s1 + 255 * rlen' <= 69360
    BY <1>1, <1>5 DEF IsReduced, Base, SumsType
  <2>. QED
    BY <1>1, <1>5, <2>1 DEF HInv, ReducedInv
<1>. QED
  BY <1>6, <1>7, <1>8, <1>9 DEF HInv

LEMMA ReturnInv ==
  ASSUME HInv, Return
  PROVE  HInv'
<1>1. /\ hpc = "tail" /\ len = 0 /\ value' = Pack(s) /\ hpc' = "idle" /\ rlen = 0
      /\ UNCHANGED <<kernel, s, buf, pos, len, rlen, word, words, lane1, lane2,
                     ref, narrow>>
  BY DEF Return, HInv, BufferInv
<1>2. /\ s \in SumsType /\ ref \in SumsType /\ Agree(ref, s) /\ s.s1 <= 69360
      /\ ~narrow => IsReduced(s)
  BY <1>1 DEF HInv, HashTypeOK, ReducedInv, AgreeInv, SumsType
<1>3. value' \in [lo : UInt16, hi : UInt16]
  BY <1>1, <1>2, PackType
<1>4. HashTypeOK' /\ BufferInv' /\ LanesInv'
  BY <1>1, <1>3 DEF HInv, HashTypeOK, BufferInv, LanesInv
<1>5. ~narrow => value'.lo = s.s1 /\ value'.hi = s.s2
  BY <1>1, <1>2, PackType
<1>6. ReducedInv'
  BY <1>1, <1>2, <1>5 DEF ReducedInv, IsReduced
<1>7. ~narrow => Reduced(ref) = Sums(s.s1, s.s2)
  BY <1>2, AgreeReduced
<1>8. AgreeInv'
  BY <1>1, <1>5, <1>7 DEF AgreeInv, Unpack
<1>. QED
  BY <1>4, <1>6, <1>8 DEF HInv

(* The two sums of a word of bytes change the definition and Merged alike. *)
LEMMA MergedStep ==
  ASSUME HInv, hpc = "words", NEW a \in Nat, NEW c \in Nat,
         s' = s, word' = word + 1, kernel' = kernel,
         ref'.s1 = ref.s1 + a, ref'.s2 = ref.s2 + WordSize * ref.s1 + c,
         Total(lane1') = Total(lane1) + a,
         Weights(lane1)' = Weights(lane1) + c,
         Total(lane2') = Total(lane2) + Total(lane1)
  PROVE  Agree(ref', Merged')
<1>1. /\ s \in SumsType /\ ref \in SumsType /\ Agree(ref, Merged) /\ word \in Nat
      /\ lane1 \in [Lanes -> Nat] /\ lane2 \in [Lanes -> Nat]
  BY UInt16Fact DEF HInv, HashTypeOK, AgreeInv, SumsType
<1>2. WordSize \in {8, 16} /\ WordSize' = WordSize /\ WordSize \in Nat
  BY DEF WordSize
<1>3. Total(lane1) \in Nat /\ Total(lane2) \in Nat /\ Weights(lane1) \in Nat
  BY <1>1, LanesType DEF Total, Weights
<1>. DEFINE z == WordSize * s.s1
            w == word * z
            t1 == Total(lane1)
            t2 == Total(lane2)
            g == Weights(lane1)
<1>4. s.s1 \in Nat /\ s.s2 \in Nat /\ z \in Nat
  BY <1>1, <1>2 DEF SumsType
<1>5. w \in Nat /\ (word + 1) * z = w + z
  <2>. HIDE DEF z
  <2>. QED
    BY <1>1, <1>4
<1>6. /\ Merged.s1 = s.s1 + t1
      /\ Merged.s2 = s.s2 + w + WordSize * t2 + g
      /\ Merged \in SumsType
  <2>1. /\ Merged.s1 = s.s1 + t1
        /\ Merged.s2 = s.s2 + w + WordSize * t2 + g
        /\ Merged = [s1 |-> s.s1 + t1, s2 |-> s.s2 + w + WordSize * t2 + g]
    BY DEF Merged, Sums
  <2>. HIDE DEF w, t1, t2, g
  <2>2. s.s1 + t1 \in Nat /\ s.s2 + w + WordSize * t2 + g \in Nat
    BY <1>2, <1>3, <1>4, <1>5 DEF t1, t2, g
  <2>. QED
    BY <2>1, <2>2 DEF SumsType
<1>7. /\ Merged'.s1 = s.s1 + (t1 + a)
      /\ Merged'.s2 = s.s2 + (w + z) + WordSize * (t2 + t1) + (g + c)
  <2>1. Merged' = Sums(s.s1 + Total(lane1'),
                       s.s2 + (word + 1) * z + WordSize * Total(lane2') + Weights(lane1)')
    BY <1>2 DEF Merged, Total
  <2>. HIDE DEF z, w
  <2>. QED
    BY <1>5, <2>1 DEF Sums
<1>8. Agree(Sums(ref.s1 + a, ref.s2 + WordSize * ref.s1 + c),
            Sums(Merged.s1 + a, Merged.s2 + WordSize * Merged.s1 + c))
  BY <1>1, <1>2, <1>6, LinearAgrees
<1>9. Merged.s1 + a = Merged'.s1
  <2>. HIDE DEF t1
  <2>. QED
    BY <1>3, <1>4, <1>6, <1>7 DEF t1
<1>10. Merged.s2 + WordSize * Merged.s1 + c = Merged'.s2
  <2>1. WordSize * Merged.s1 = z + WordSize * t1
    <3>. HIDE DEF t1
    <3>1. t1 \in Nat
      BY <1>3 DEF t1
    <3>2. CASE WordSize = 8
      BY <1>4, <1>6, <3>1, <3>2
    <3>3. CASE WordSize = 16
      BY <1>4, <1>6, <3>1, <3>3
    <3>. QED
      BY <1>2, <3>2, <3>3
  <2>2. WordSize * (t2 + t1) = WordSize * t2 + WordSize * t1
    <3>1. t1 \in Nat /\ t2 \in Nat
      BY <1>3
    <3>. HIDE DEF t1, t2
    <3>. QED
      BY <1>2, <3>1
  <2>. DEFINE u1 == WordSize * t1
              u2 == WordSize * t2
  <2>3. u1 \in Nat /\ u2 \in Nat /\ g \in Nat
    BY <1>2, <1>3
  <2>4. /\ Merged.s2 = s.s2 + w + u2 + g
        /\ WordSize * Merged.s1 = z + u1
        /\ Merged'.s2 = s.s2 + (w + z) + (u2 + u1) + (g + c)
    <3>. HIDE DEF t1, t2, g, z, w
    <3>. QED
      BY <1>6, <1>7, <2>1, <2>2
  <2>. HIDE DEF u1, u2, g, z, w
  <2>. QED
    BY <1>4, <1>5, <2>3, <2>4
<1>. QED
  BY <1>8, <1>9, <1>10 DEF Agree, Sums

LEMMA AccumulateInv ==
  ASSUME HInv, Accumulate
  PROVE  HInv'
<1>1. /\ hpc = "words" /\ word < words
      /\ lane2' = [p \in Lanes |-> (lane2[p] + lane1[p]) % 65536]
      /\ lane1' = [p \in Lanes |-> IF p < WordSize
                    THEN (lane1[p] + buf[pos + p]) % 65536 ELSE 0]
      /\ ref' = IF kernel = "swar" THEN DO8(ref, buf, pos) ELSE DO16(ref, buf, pos)
      /\ pos' = pos + WordSize /\ word' = word + 1
      /\ UNCHANGED <<kernel, hpc, value, s, buf, len, rlen, words, narrow>>
  BY DEF Accumulate
<1>2. /\ HashTypeOK /\ LanesInv
      /\ len \in Nat /\ pos \in Nat /\ word \in Nat /\ words \in Nat /\ words <= 23
      /\ kernel \in {"swar", "ssse3"}
      /\ ref \in SumsType
      /\ buf \in [0..pos + len + (words - word) * WordSize - 1 -> UInt8]
  BY <1>1 DEF HInv, HashTypeOK, BufferInv, SumsType, BlockWords
<1>3. WordSize \in {8, 16} /\ WordSize' = WordSize
  BY <1>1 DEF WordSize
<1>4. /\ (words - word) * WordSize \in Nat
      /\ (words - word) * WordSize >= WordSize
      /\ (words - (word + 1)) * WordSize = (words - word) * WordSize - WordSize
  <2>1. CASE WordSize = 8
    BY <1>1, <1>2, <2>1
  <2>2. CASE WordSize = 16
    BY <1>1, <1>2, <2>2
  <2>. QED
    BY <1>3, <2>1, <2>2
<1>5. \A j \in pos..pos + WordSize - 1 : buf[j] \in UInt8
  <2>. DEFINE left == (words - word) * WordSize
  <2>1. left \in Nat /\ left >= WordSize /\ buf \in [0..pos + len + left - 1 -> UInt8]
    BY <1>2, <1>4
  <2>. HIDE DEF left
  <2>2. \A j \in pos..pos + WordSize - 1 : j \in 0..pos + len + left - 1
    BY <1>2, <1>3, <2>1
  <2>. QED
    BY <2>1, <2>2
<1>6. \A p \in Lanes : p < WordSize => buf[pos + p] \in Nat /\ buf[pos + p] <= 255
  <2>1. \A p \in Lanes : p < WordSize => pos + p \in pos..pos + WordSize - 1
    BY <1>2, <1>3 DEF Lanes
  <2>. QED
    BY <1>5, <2>1, SMTT(30) DEF UInt8
<1>7. \A p \in Lanes : /\ lane1[p] \in Nat /\ lane2[p] \in Nat
                       /\ lane1[p] <= 5865 /\ lane2[p] + lane1[p] <= 65535
  BY <1>1, <1>2, LaneBounds
<1>8. \A p \in Lanes : lane2'[p] = lane2[p] + lane1[p]
  <2>1. \A x \in Nat : x <= 65535 => x % 65536 = x
    OBVIOUS
  <2>2. \A p \in Lanes : lane2[p] + lane1[p] \in Nat
    BY <1>7
  <2>. QED
    BY <1>1, <1>7, <2>1, <2>2
<1>9. \A p \in Lanes : lane1'[p] = IF p < WordSize THEN lane1[p] + buf[pos + p] ELSE 0
  <2>1. \A x \in Nat : x <= 65535 => x % 65536 = x
    OBVIOUS
  <2>2. \A p \in Lanes : p < WordSize => /\ lane1[p] + buf[pos + p] \in Nat
                                        /\ lane1[p] + buf[pos + p] <= 65535
    BY <1>6, <1>7
  <2>. QED
    BY <1>1, <2>1, <2>2
<1>10. lane1' \in [Lanes -> UInt16] /\ lane2' \in [Lanes -> UInt16]
  <2>1. \A p \in Lanes : lane2'[p] \in UInt16
    BY <1>7, <1>8, UInt16Fact
  <2>2. \A p \in Lanes : lane1'[p] \in UInt16
    BY <1>6, <1>7, <1>9, UInt16Fact
  <2>. QED
    BY <1>1, <2>1, <2>2
<1>11. ref' \in SumsType
  <2>1. CASE kernel = "swar"
    <3>1. \A j \in pos..pos + 7 : buf[j] \in UInt8
      BY <1>2, <1>5, <2>1 DEF WordSize
    <3>2. pos \in Nat /\ ref \in SumsType
      BY <1>2
    <3>3. DO8(ref, buf, pos) \in SumsType
      BY <3>1, <3>2, Word8
    <3>. QED
      BY <1>1, <2>1, <3>3
  <2>2. CASE kernel = "ssse3"
    <3>1. \A j \in pos..pos + 15 : buf[j] \in UInt8
      BY <1>2, <1>5, <2>2 DEF WordSize
    <3>2. pos \in Nat /\ ref \in SumsType
      BY <1>2
    <3>3. DO16(ref, buf, pos) \in SumsType
      BY <3>1, <3>2, Word16
    <3>4. kernel # "swar"
      BY <2>2
    <3>. QED
      BY <1>1, <3>3, <3>4
  <2>. QED
    BY <1>2, <2>1, <2>2
<1>12. HashTypeOK'
  <2>1. pos' \in Nat /\ word' \in 0..words'
    BY <1>1, <1>2, <1>3
  <2>. QED
    BY <1>1, <1>2, <1>10, <1>11, <2>1 DEF HashTypeOK, SumsType
<1>13. BufferInv'
  <2>. DEFINE left == (words - word) * WordSize
  <2>1. /\ left \in Nat /\ (words' - word') * WordSize' = left - WordSize
        /\ buf \in [0..pos + len + left - 1 -> UInt8]
    BY <1>1, <1>2, <1>3, <1>4
  <2>. HIDE DEF left
  <2>2. pos' + len' + (words' - word') * WordSize' - 1 = pos + len + left - 1
    BY <1>1, <1>2, <1>3, <2>1
  <2>3. buf' \in [0..pos' + len' + (words' - word') * WordSize' - 1 -> UInt8]
    BY <1>1, <2>1, <2>2
  <2>4. hpc' = "words" /\ kernel' \in {"swar", "ssse3"} /\ rlen' = 0
    BY <1>1, <1>2 DEF HInv, BufferInv
  <2>. QED
    BY <2>3, <2>4 DEF BufferInv
<1>14. LanesInv'
  <2>. SUFFICES ASSUME NEW p \in Lanes
                PROVE  /\ lane1'[p] <= 255 * word'
                       /\ 2 * lane2'[p] <= 255 * (word' * word') - 255 * word'
                       /\ p >= WordSize' => lane1'[p] = 0 /\ lane2'[p] = 0
    BY DEF LanesInv
  <2>1. /\ lane1[p] <= 255 * word
        /\ 2 * lane2[p] <= 255 * (word * word) - 255 * word
        /\ p >= WordSize => lane1[p] = 0 /\ lane2[p] = 0
    BY <1>1, <1>2 DEF LanesInv
  <2>2. lane1'[p] <= 255 * word'
    <3>1. word \in Nat /\ word' = word + 1
      BY <1>1, <1>2
    <3>2. lane1[p] \in Nat /\ lane1[p] <= 255 * word
      BY <1>7, <2>1
    <3>3. CASE p < WordSize
      <4>1. buf[pos + p] \in Nat /\ buf[pos + p] <= 255
        BY <1>6, <3>3
      <4>2. lane1'[p] = lane1[p] + buf[pos + p]
        BY <1>9, <3>3
      <4>. QED
        BY <3>1, <3>2, <4>1, <4>2
    <3>4. CASE ~(p < WordSize)
      <4>1. lane1'[p] = 0
        BY <1>9, <3>4
      <4>. QED
        BY <3>1, <4>1
    <3>. QED
      BY <3>3, <3>4
  <2>3. 2 * lane2'[p] <= 255 * (word' * word') - 255 * word'
    <3>. DEFINE sq == word * word
    <3>1. sq \in Nat /\ (word + 1) * (word + 1) = sq + 2 * word + 1
      BY <1>2
    <3>2. 2 * lane2[p] <= 255 * sq - 255 * word
      BY <2>1
    <3>3. word' * word' = sq + 2 * word + 1 /\ word' = word + 1
      BY <1>1, <3>1
    <3>. HIDE DEF sq
    <3>. QED
      BY <1>2, <1>7, <1>8, <2>1, <3>1, <3>2, <3>3, SMTT(30)
  <2>4. p >= WordSize' => lane1'[p] = 0 /\ lane2'[p] = 0
    <3>1. p \in Nat
      BY DEF Lanes
    <3>. QED
      BY <1>3, <1>8, <1>9, <2>1, <3>1
  <2>. QED
    BY <2>2, <2>3, <2>4
<1>15. ReducedInv'
  BY <1>1 DEF HInv, ReducedInv
<1>16. AgreeInv'
  <2>1. /\ Total8(lane2', 0) = Total8(lane2, 0) + Total8(lane1, 0)
        /\ Total8(lane2', 8) = Total8(lane2, 8) + Total8(lane1, 8)
    <3>1. \A j \in 0..7 : /\ lane2[0 + j] \in Nat /\ lane1[0 + j] \in Nat
                          /\ lane2'[0 + j] = lane2[0 + j] + lane1[0 + j]
      BY <1>7, <1>8 DEF Lanes
    <3>2. \A j \in 0..7 : /\ lane2[8 + j] \in Nat /\ lane1[8 + j] \in Nat
                          /\ lane2'[8 + j] = lane2[8 + j] + lane1[8 + j]
      BY <1>7, <1>8 DEF Lanes
    <3>3. 0 \in Nat /\ 8 \in Nat
      OBVIOUS
    <3>4. Grown(lane2, 0, lane1, 0, lane2') /\ Grown(lane2, 8, lane1, 8, lane2')
      BY <3>1, <3>2, Zenon DEF Grown
    <3>. QED
      BY <3>3, <3>4, Total8Add
  <2>2. /\ lane1 \in [Lanes -> Nat] /\ lane2 \in [Lanes -> Nat]
    BY <1>2, UInt16Fact DEF HashTypeOK
  <2>3. /\ Total8(lane1, 0) \in Nat /\ Total8(lane1, 8) \in Nat
        /\ Weights8(lane1, 0) \in Nat /\ Weights8(lane1, 8) \in Nat
        /\ Total8(lane2, 0) \in Nat /\ Total8(lane2, 8) \in Nat
    BY <2>2, LanesType
  <2>4. Total(lane2') = Total(lane2) + Total(lane1)
    BY <2>1, <2>3 DEF Total
  <2>5. /\ Total8(lane1', 0) = Total8(lane1, 0) + Total8(buf, pos)
        /\ Weights8(lane1', 0) = Weights8(lane1, 0) + Weights8(buf, pos)
    <3>1. \A j \in 0..7 : /\ lane1[0 + j] \in Nat /\ buf[pos + j] \in Nat
                          /\ lane1'[0 + j] = lane1[0 + j] + buf[pos + j]
      BY <1>3, <1>6, <1>7, <1>9 DEF Lanes
    <3>2. 0 \in Nat /\ pos \in Nat
      BY <1>2
    <3>3. Grown(lane1, 0, buf, pos, lane1')
      BY <3>1, Zenon DEF Grown
    <3>. QED
      BY <3>2, <3>3, Total8Add
  <2>6. Total8(buf, pos) \in Nat /\ Weights8(buf, pos) \in Nat
    <3>1. \A j \in pos..pos + 7 : j \in pos..pos + WordSize - 1
      BY <1>2, <1>3
    <3>2. \A x \in UInt8 : x \in Nat
      BY DEF UInt8
    <3>3. (\A j \in pos..pos + 7 : buf[j] \in Nat) /\ pos \in Nat
      BY <1>2, <1>5, <3>1, <3>2
    <3>. QED
      BY <3>3, Total8Type, Zenon
  <2>7. CASE kernel = "swar"
    <3>. DEFINE a == Total8(buf, pos)
                c == Weights8(buf, pos)
    <3>1. \A j \in pos..pos + 7 : buf[j] \in UInt8
      BY <1>2, <1>5, <2>7 DEF WordSize
    <3>2. ref'.s1 = ref.s1 + a /\ ref'.s2 = ref.s2 + WordSize * ref.s1 + c
      BY <1>1, <1>2, <2>7, <3>1, Word8 DEF WordSize
    <3>3. Total8(lane1', 8) = 0 /\ Total8(lane1, 8) = 0
      <4>1. \A j \in 0..7 : lane1'[8 + j] = 0 /\ lane1[8 + j] = 0
        <5>1. \A p \in Lanes : p >= 8 => lane1[p] = 0 /\ lane1'[p] = 0
          <6>1. \A p \in Lanes : p >= WordSize => lane1[p] = 0
            BY <1>1, <1>2 DEF LanesInv
          <6>2. WordSize = 8
            BY <2>7 DEF WordSize
          <6>3. \A p \in Lanes : p >= 8 => ~(p < 8)
            BY DEF Lanes
          <6>. QED
            BY <1>9, <6>1, <6>2, <6>3
        <5>. QED
          BY <5>1 DEF Lanes
      <4>. QED
        BY <4>1, EmptyLanes
    <3>4. Total(lane1') = Total(lane1) + a
      BY <2>3, <2>5, <2>6, <3>3 DEF Total
    <3>5. Weights(lane1)' = Weights(lane1) + c
      BY <1>1, <2>5, <2>7 DEF Weights
    <3>6. Agree(ref', Merged')
      <4>. HIDE DEF a, c
      <4>1. a \in Nat /\ c \in Nat
        BY <2>6 DEF a, c
      <4>. QED
        BY <1>1, <2>4, <3>2, <3>4, <3>5, <4>1, MergedStep
    <3>. QED
      BY <1>1, <3>6 DEF AgreeInv
  <2>8. CASE kernel = "ssse3"
    <3>. DEFINE a == Total8(buf, pos) + Total8(buf, pos + 8)
                c == 8 * Total8(buf, pos) + Weights8(buf, pos) + Weights8(buf, pos + 8)
    <3>1. \A j \in pos..pos + 15 : buf[j] \in UInt8
      BY <1>2, <1>5, <2>8 DEF WordSize
    <3>2. ref'.s1 = ref.s1 + a /\ ref'.s2 = ref.s2 + WordSize * ref.s1 + c
      BY <1>1, <1>2, <2>8, <3>1, Word16 DEF WordSize
    <3>3. /\ Total8(lane1', 8) = Total8(lane1, 8) + Total8(buf, pos + 8)
          /\ Weights8(lane1', 8) = Weights8(lane1, 8) + Weights8(buf, pos + 8)
      <4>1. \A j \in 0..7 : 8 + j \in Lanes /\ 8 + j < WordSize
        BY <2>8 DEF Lanes, WordSize
      <4>2. \A j \in 0..7 : pos + (8 + j) = (pos + 8) + j
        BY <1>2
      <4>3. \A j \in 0..7 : /\ lane1[8 + j] \in Nat /\ buf[(pos + 8) + j] \in Nat
                            /\ lane1'[8 + j] = lane1[8 + j] + buf[(pos + 8) + j]
        BY <1>6, <1>7, <1>9, <4>1, <4>2
      <4>. QED
        <5>1. 8 \in Nat /\ pos + 8 \in Nat
          BY <1>2
        <5>2. Grown(lane1, 8, buf, pos + 8, lane1')
          BY <4>3, Zenon DEF Grown
        <5>. QED
          BY <5>1, <5>2, Total8Add
    <3>4. Total8(buf, pos + 8) \in Nat /\ Weights8(buf, pos + 8) \in Nat
      <4>1. \A j \in pos + 8..(pos + 8) + 7 : j \in pos..pos + 15
        BY <1>2
      <4>2. \A x \in UInt8 : x \in Nat
        BY DEF UInt8
      <4>3. (\A j \in pos + 8..(pos + 8) + 7 : buf[j] \in Nat) /\ pos + 8 \in Nat
        BY <1>2, <3>1, <4>1, <4>2
      <4>. QED
        BY <4>3, Total8Type, Zenon
    <3>5. Total(lane1') = Total(lane1) + a
      BY <2>3, <2>5, <2>6, <3>3, <3>4 DEF Total
    <3>6. Weights(lane1)' = Weights(lane1) + c
      <4>1. kernel' # "swar" /\ kernel # "swar"
        BY <1>1, <2>8
      <4>2. /\ Weights(lane1)' = 8 * Total8(lane1', 0) + Weights8(lane1', 0)
                                  + Weights8(lane1', 8)
            /\ Weights(lane1) = 8 * Total8(lane1, 0) + Weights8(lane1, 0)
                                 + Weights8(lane1, 8)
        BY <4>1 DEF Weights, Total8, Weights8
      <4>. QED
        BY <2>3, <2>5, <2>6, <3>3, <3>4, <4>2
    <3>7. Agree(ref', Merged')
      <4>1. a \in Nat /\ c \in Nat
        BY <2>6, <3>4
      <4>. HIDE DEF a, c
      <4>. QED
        BY <1>1, <2>4, <3>2, <3>5, <3>6, <4>1, MergedStep
    <3>. QED
      BY <1>1, <3>7 DEF AgreeInv
  <2>. QED
    BY <1>2, <2>7, <2>8
<1>. QED
  BY <1>12, <1>13, <1>14, <1>15, <1>16 DEF HInv

(* The merge of a block: nothing wraps around in the 16-bit sums.          *)
LEMMA ReduceInv ==
  ASSUME HInv, Reduce
  PROVE  HInv'
<1>. DEFINE merged == Sums(s.s1 + LaneSum,
                           s.s2 + words * WordSize * s.s1 + Weighted
                             + WordSize * (Even(lane2) + Odd(lane2)))
<1>1. /\ hpc = "words" /\ word = words /\ hpc' = "loop" /\ s' = Reduced(merged)
      /\ UNCHANGED <<kernel, value, buf, pos, len, rlen, word, words, lane1, lane2,
                     ref, narrow>>
  BY DEF Reduce
<1>. HIDE DEF merged
<1>2. /\ HashTypeOK /\ LanesInv /\ rlen = 0
      /\ len \in Nat /\ pos \in Nat /\ word \in Nat
      /\ kernel \in {"swar", "ssse3"}
      /\ s \in SumsType /\ ref \in SumsType /\ Agree(ref, Merged)
      /\ buf \in [0..pos + len + (words - word) * WordSize - 1 -> UInt8]
  BY <1>1 DEF HInv, HashTypeOK, BufferInv, AgreeInv, SumsType
<1>3. lane1 \in [Lanes -> Nat] /\ lane2 \in [Lanes -> Nat]
  BY <1>2, UInt16Fact DEF HashTypeOK
<1>4. /\ Even(lane1) + Odd(lane1) = Total(lane1)
      /\ Even(lane2) + Odd(lane2) = Total(lane2)
      /\ VectorWeighted(lane1)
           = 8 * Total8(lane1, 0) + Weights8(lane1, 0) + Weights8(lane1, 8)
      /\ 2 * SwarEven(lane1) + 2 * SwarOdd(lane1)
           + (lane1[1] + lane1[3] + lane1[5] + lane1[7]) = Weights8(lane1, 0)
  BY <1>3, LaneSums
<1>5. /\ kernel = "swar" => /\ Even(lane1) + Odd(lane1) <= 65535
                            /\ SwarEven(lane1) <= 65535 /\ SwarOdd(lane1) <= 65535
      /\ kernel # "swar" => Even(lane1) <= 65535 /\ Odd(lane1) <= 65535
  BY <1>1, <1>2, LanesInvFits DEF LanesFit
<1>6. /\ lane1[0] \in Nat /\ lane1[1] \in Nat /\ lane1[2] \in Nat /\ lane1[3] \in Nat
      /\ lane1[4] \in Nat /\ lane1[5] \in Nat /\ lane1[6] \in Nat /\ lane1[7] \in Nat
      /\ lane1[8] \in Nat /\ lane1[9] \in Nat /\ lane1[10] \in Nat /\ lane1[11] \in Nat
      /\ lane1[12] \in Nat /\ lane1[13] \in Nat /\ lane1[14] \in Nat /\ lane1[15] \in Nat
  BY <1>3 DEF Lanes
<1>7. /\ Even(lane1) \in Nat /\ Odd(lane1) \in Nat
      /\ SwarEven(lane1) \in Nat /\ SwarOdd(lane1) \in Nat
  BY <1>6 DEF Even, Odd, SwarEven, SwarOdd
<1>8. \A x \in Nat : x <= 65535 => x % 65536 = x
  OBVIOUS
<1>9. LaneSum = Total(lane1)
  <2>1. CASE kernel = "swar"
    <3>1. Even(lane1) + Odd(lane1) \in Nat
      BY <1>7
    <3>. QED
      BY <1>4, <1>5, <1>8, <2>1, <3>1 DEF LaneSum
  <2>2. CASE kernel # "swar"
    BY <1>4, <1>5, <1>7, <1>8, <2>2 DEF LaneSum
  <2>. QED
    BY <2>1, <2>2
<1>10. Weighted = Weights(lane1)
  <2>1. CASE kernel = "swar"
    <3>1. Odd(lane1) = lane1[1] + lane1[3] + lane1[5] + lane1[7]
      <4>1. \A p \in Lanes : p >= 8 => lane1[p] = 0
        BY <1>1, <1>2, <2>1 DEF LanesInv, WordSize
      <4>2. lane1[9] = 0 /\ lane1[11] = 0 /\ lane1[13] = 0 /\ lane1[15] = 0
        BY <4>1 DEF Lanes
      <4>. QED
        BY <1>6, <4>2 DEF Odd
    <3>2. Odd(lane1) <= 65535
      BY <1>5, <1>7, <2>1
    <3>3. Weighted = 2 * SwarEven(lane1) + 2 * SwarOdd(lane1) + Odd(lane1)
      BY <1>5, <1>7, <1>8, <2>1, <3>2 DEF Weighted, SwarWeighted
    <3>. QED
      BY <1>4, <2>1, <3>1, <3>3 DEF Weights
  <2>2. CASE kernel # "swar"
    BY <1>4, <2>2 DEF Weighted, Weights
  <2>. QED
    BY <2>1, <2>2
<1>11. WordSize \in Nat /\ s.s1 \in Nat /\ s.s2 \in Nat
  BY <1>2 DEF WordSize, SumsType
<1>12. /\ Total(lane1) \in Nat /\ Total(lane2) \in Nat /\ Weights(lane1) \in Nat
  BY <1>3, LanesType DEF Total, Weights
<1>13. /\ merged.s1 = Merged.s1 /\ merged.s2 = Merged.s2
       /\ merged \in SumsType
  <2>1. words * WordSize * s.s1 = word * (WordSize * s.s1)
        /\ word * (WordSize * s.s1) \in Nat
    <3>1. \A x, y, z \in Nat : x * y * z = x * (y * z) /\ x * (y * z) \in Nat
      OBVIOUS
    <3>. QED
      BY <1>1, <1>2, <1>11, <3>1
  <2>. DEFINE w == word * (WordSize * s.s1)
              u == WordSize * Total(lane2)
              g == Weights(lane1)
  <2>2. merged = [s1 |-> s.s1 + Total(lane1), s2 |-> s.s2 + w + g + u]
    BY <1>4, <1>9, <1>10, <2>1 DEF merged, Sums
  <2>3. Merged = [s1 |-> s.s1 + Total(lane1), s2 |-> s.s2 + w + u + g]
    BY DEF Merged, Sums
  <2>4. w \in Nat /\ u \in Nat /\ g \in Nat
    BY <1>11, <1>12, <2>1
  <2>. HIDE DEF w, u, g
  <2>5. s.s2 + w + g + u = s.s2 + w + u + g /\ s.s2 + w + g + u \in Nat
    BY <1>11, <2>4
  <2>6. s.s1 + Total(lane1) \in Nat
    BY <1>11, <1>12
  <2>. QED
    BY <2>2, <2>3, <2>5, <2>6 DEF SumsType
<1>14. Agree(ref, merged)
  BY <1>2, <1>13 DEF Agree
<1>15. s' \in SumsType /\ IsReduced(s') /\ Agree(ref', s')
  BY <1>1, <1>2, <1>13, <1>14, ReducedAgrees
<1>16. HashTypeOK'
  BY <1>1, <1>2, <1>15 DEF HashTypeOK, SumsType
<1>17. BufferInv'
  <2>1. (words - word) * WordSize = 0
    <3>1. \A x \in Nat : (word - word) * x = 0
      BY <1>2
    <3>. QED
      BY <1>1, <1>11, <3>1
  <2>2. pos + len + 0 - 1 = pos + len - 1
    BY <1>2
  <2>. QED
    BY <1>1, <1>2, <2>1, <2>2 DEF BufferInv
<1>18. LanesInv' /\ AgreeInv'
  BY <1>1, <1>15 DEF LanesInv, AgreeInv
<1>19. ReducedInv'
  <2>1. s'.s1 + 255 * rlen' <= 69360
    BY <1>1, <1>2, <1>15 DEF IsReduced, Base, SumsType
  <2>. QED
    BY <1>1, <1>2, <1>15, <2>1 DEF HInv, ReducedInv
<1>. QED
  BY <1>16, <1>17, <1>18, <1>19 DEF HInv

LEMMA HashStutterInv ==
  ASSUME HInv, UNCHANGED hashVars
  PROVE  HInv'
<1>1. HashTypeOK' /\ BufferInv' /\ LanesInv' /\ ReducedInv'
  BY DEF HInv, hashVars, HashTypeOK, BufferInv, LanesInv, ReducedInv, WordSize
<1>2. AgreeInv'
  <2>1. Merged' = Merged
    BY DEF hashVars, Merged, WordSize, Total, Weights
  <2>. QED
    BY <2>1 DEF HInv, hashVars, AgreeInv
<1>. QED
  BY <1>1, <1>2 DEF HInv

-----------------------------------------------------------------------------
(* The theorems                                                            *)

LEMMA HashInductive == HashSpec => []HInv
<1>1. HashReady => HInv
  BY ReadyInv
<1>2. HInv /\ [HashNext]_hashVars => HInv'
  <2>. SUFFICES ASSUME HInv, [HashNext]_hashVars
                PROVE  HInv'
    OBVIOUS
  <2>1. CASE HashInit
    BY <2>1, HashInitInv
  <2>2. CASE \E data \in Data(1) : UpdateByte(data)
    BY <2>2, UpdateByteInv
  <2>3. CASE \E n \in Nat \ {0}, misalignment \in 0..15 :
               \E data \in Data(n) : Start(data, n, misalignment)
    BY <2>3, StartInv
  <2>4. CASE PeelBytes
    BY <2>4, PeelBytesInv
  <2>5. CASE StartBlock
    BY <2>5, StartBlockInv
  <2>6. CASE EndBlocks
    BY <2>6, EndBlocksInv
  <2>7. CASE Accumulate
    BY <2>7, AccumulateInv
  <2>8. CASE Reduce
    BY <2>8, ReduceInv
  <2>9. CASE TailByte
    BY <2>9, TailByteInv
  <2>10. CASE Return
    BY <2>10, ReturnInv
  <2>11. CASE UNCHANGED hashVars
    BY <2>11, HashStutterInv
  <2>. QED
    BY <2>1, <2>2, <2>3, <2>4, <2>5, <2>6, <2>7, <2>8, <2>9, <2>10, <2>11
       DEF HashNext, HashStep
<1>. QED
  BY <1>1, <1>2, PTL DEF HashSpec

(* The local state of mvt_hash_update() is what its loops expect: no       *)
(* length is negative, no block longer than 23 words.                      *)
THEOREM HashTypeCorrect == HashSpec => []HashTypeOK
<1>1. HInv => HashTypeOK
  BY DEF HInv
<1>. QED
  BY <1>1, HashInductive, PTL

(* No lane of 16 bits overflows, for data of every length and alignment.   *)
THEOREM LanesNeverOverflow == HashSpec => []LanesFit
<1>1. HInv => LanesFit
  BY LanesInvFits DEF HInv
<1>. QED
  BY <1>1, HashInductive, PTL

(* Every implementation of mvt_hash_update() returns the Adler-32 of the   *)
(* data, for data of every length, content and alignment that reaches past *)
(* the first aligned address.                                              *)
THEOREM EveryKernelIsAdler32 == HashSpec => []HashIsAdler32
<1>1. HInv => HashIsAdler32
  BY DEF HInv, AgreeInv, HashIsAdler32
<1>. QED
  BY <1>1, HashInductive, PTL


-----------------------------------------------------------------------------
(* Sums over the bytes                                                     *)

(* A set of natural numbers that has 0, and the successor of whatever it   *)
(* has, has them all: of a member missing, there would be as many in front *)
(* of it as there are without 0.                                           *)
LEMMA Induction ==
  ASSUME NEW D \in SUBSET Nat, 0 \in D, \A n \in D : n + 1 \in D
  PROVE  D = Nat
<1>1. SUFFICES ASSUME NEW b \in Nat, b \notin D PROVE FALSE
  OBVIOUS
<1>. DEFINE E == D \cap 0..b
            f == [n \in E |-> n + 1]
<1>2. IsFiniteSet(E)
  <2>1. IsFiniteSet(0..b)
    BY FS_Interval
  <2>. QED  BY <2>1, FS_Subset
<1>3. f \in Injection(E, E \ {0})
  <2>1. \A n \in E : n + 1 \in E \ {0}
    BY <1>1
  <2>2. f \in [E -> E \ {0}]
    BY <2>1
  <2>3. \A j, k \in E : f[j] = f[k] => j = k
    OBVIOUS
  <2>. HIDE DEF f
  <2>. QED  BY <2>2, <2>3 DEF Injection, IsInjective
<1>4. IsFiniteSet(E \ {0}) /\ Cardinality(E \ {0}) = Cardinality(E) - 1
  <2>1. 0 \in E
    OBVIOUS
  <2>. HIDE DEF E
  <2>. QED  BY <1>2, <2>1, FS_RemoveElement
<1>5. Cardinality(E) \in Nat
  BY <1>2, FS_CardinalityType
<1>6. Cardinality(E) <= Cardinality(E \ {0})
  BY <1>3, <1>4, FS_Injection
<1>. QED  BY <1>4, <1>5, <1>6


-----------------------------------------------------------------------------
(* Sums over finite sets                                                   *)

(* The sum of g over S, by the fold of the definition.                     *)
SumOver(g, S) == FoldFunctionOnSet(+, 0, g, S)

(* The function by whose recursion a sum over S is defined, on the subsets *)
(* of S in T.                                                              *)
IsSum(h, g, T) ==
  h = [t \in T |-> IF t = {} THEN 0
                   ELSE g[CHOOSE x \in t : TRUE] + h[t \ {CHOOSE x \in t : TRUE}]]

LEMMA SumIsChosen ==
  ASSUME NEW g, NEW S
  PROVE  SumOver(g, S) = (CHOOSE h : IsSum(h, g, SUBSET S))[S]
BY DEF SumOver, FoldFunctionOnSet, MapThenFoldSet, IsSum

(* The recursion has a solution ...                                        *)
LEMMA SumExists ==
  ASSUME NEW g, NEW S, IsFiniteSet(S)
  PROVE  \E h : IsSum(h, g, SUBSET S)
<1>. DEFINE upTo(n) == {t \in SUBSET S : Cardinality(t) <= n}
            D == {n \in Nat : \E h : IsSum(h, g, upTo(n))}
<1>0. \A t \in SUBSET S : IsFiniteSet(t) /\ Cardinality(t) \in Nat
  BY FS_Subset, FS_CardinalityType
<1>1. \A t \in SUBSET S : t # {} =>
        /\ (CHOOSE x \in t : TRUE) \in t
        /\ t \ {CHOOSE x \in t : TRUE} \in SUBSET S
        /\ Cardinality(t \ {CHOOSE x \in t : TRUE}) = Cardinality(t) - 1
  <2>1. SUFFICES ASSUME NEW t \in SUBSET S, t # {}
                 PROVE  /\ (CHOOSE x \in t : TRUE) \in t
                        /\ t \ {CHOOSE x \in t : TRUE} \in SUBSET S
                        /\ Cardinality(t \ {CHOOSE x \in t : TRUE}) = Cardinality(t) - 1
    OBVIOUS
  <2>2. (CHOOSE x \in t : TRUE) \in t
    BY <2>1
  <2>. DEFINE x == CHOOSE x \in t : TRUE
  <2>. HIDE DEF x
  <2>3. Cardinality(t \ {x}) = Cardinality(t) - 1
    BY <1>0, <2>2, FS_RemoveElement DEF x
  <2>. QED  BY <2>2, <2>3 DEF x
<1>2. 0 \in D
  <2>1. \A t \in upTo(0) : t = {}
    BY <1>0, FS_EmptySet
  <2>2. IsSum([t \in upTo(0) |-> 0], g, upTo(0))
    BY <2>1 DEF IsSum
  <2>. QED  BY <2>2
<1>3. ASSUME NEW n \in D
      PROVE  n + 1 \in D
  <2>1. n \in Nat /\ n + 1 \in Nat
    OBVIOUS
  <2>2. PICK h : IsSum(h, g, upTo(n))
    OBVIOUS
  <2>. DEFINE c(t) == CHOOSE x \in t : TRUE
              k == [t \in upTo(n + 1) |-> IF t = {} THEN 0 ELSE g[c(t)] + h[t \ {c(t)}]]
  <2>3. \A t \in upTo(n + 1) : t # {} => t \ {c(t)} \in upTo(n)
    BY <1>0, <1>1, <2>1
  <2>4. \A t \in upTo(n) : k[t] = h[t] /\ t \in upTo(n + 1)
    <3>1. \A t \in upTo(n) : t \in upTo(n + 1)
      BY <1>0, <2>1
    <3>2. \A t \in upTo(n) : h[t] = IF t = {} THEN 0 ELSE g[c(t)] + h[t \ {c(t)}]
      <4>. HIDE DEF upTo
      <4>. QED  BY <2>2 DEF IsSum
    <3>3. \A t \in upTo(n + 1) : k[t] = IF t = {} THEN 0 ELSE g[c(t)] + h[t \ {c(t)}]
      <4>. HIDE DEF upTo, c
      <4>. QED  OBVIOUS
    <3>. HIDE DEF upTo, k, c
    <3>. QED  BY <3>1, <3>2, <3>3
  <2>5. \A t \in upTo(n + 1) : k[t] = IF t = {} THEN 0 ELSE g[c(t)] + k[t \ {c(t)}]
    <3>1. SUFFICES ASSUME NEW t \in upTo(n + 1)
                   PROVE  k[t] = IF t = {} THEN 0 ELSE g[c(t)] + k[t \ {c(t)}]
      OBVIOUS
    <3>2. k[t] = IF t = {} THEN 0 ELSE g[c(t)] + h[t \ {c(t)}]
      OBVIOUS
    <3>. HIDE DEF k, upTo, c
    <3>. QED  BY <2>3, <2>4, <3>2
  <2>6. k = [t \in upTo(n + 1) |-> k[t]]
    OBVIOUS
  <2>7. IsSum(k, g, upTo(n + 1))
    <3>. HIDE DEF k, upTo
    <3>. QED  BY <2>5, <2>6 DEF IsSum
  <2>. HIDE DEF upTo
  <2>. QED  BY <2>1, <2>7
<1>4. D = Nat
  <2>. HIDE DEF upTo
  <2>1. D \in SUBSET Nat
    OBVIOUS
  <2>. HIDE DEF D
  <2>. QED  BY <1>2, <1>3, <2>1, Induction
<1>5. Cardinality(S) \in Nat /\ upTo(Cardinality(S)) = SUBSET S
  <2>1. \A t \in SUBSET S : Cardinality(t) <= Cardinality(S)
    BY FS_Subset
  <2>. QED  BY <1>0, <2>1
<1>6. Cardinality(S) \in D
  BY <1>4, <1>5
<1>7. \E h : IsSum(h, g, upTo(Cardinality(S)))
  BY <1>6
<1>. HIDE DEF upTo, D
<1>. QED  BY <1>5, <1>7

(* ... and so a sum loses any one of its terms with the index.             *)
LEMMA SumWithout ==
  ASSUME NEW S, IsFiniteSet(S), NEW g, \A y \in S : g[y] \in Int,
         NEW h, IsSum(h, g, SUBSET S)
  PROVE  \A t \in SUBSET S : /\ h[t] \in Int
                             /\ \A x \in t : h[t] = g[x] + h[t \ {x}]
<1>. DEFINE Good(t) == h[t] \in Int /\ \A x \in t : h[t] = g[x] + h[t \ {x}]
            D == {n \in Nat : \A t \in SUBSET S : Cardinality(t) <= n => Good(t)}
<1>0. \A t \in SUBSET S : IsFiniteSet(t) /\ Cardinality(t) \in Nat
  BY FS_Subset, FS_CardinalityType
<1>1. 0 \in D
  <2>1. SUFFICES ASSUME NEW t \in SUBSET S, Cardinality(t) <= 0 PROVE Good(t)
    OBVIOUS
  <2>2. t = {}
    BY <1>0, <2>1, FS_EmptySet
  <2>3. h[t] = 0
    BY <2>2 DEF IsSum
  <2>. QED  BY <2>2, <2>3
<1>2. ASSUME NEW n \in D
      PROVE  n + 1 \in D
  <2>0. n \in Nat /\ n + 1 \in Nat
    OBVIOUS
  <2>1. SUFFICES ASSUME NEW t \in SUBSET S, Cardinality(t) = n + 1 PROVE Good(t)
    <3>1. ASSUME NEW t \in SUBSET S, Cardinality(t) <= n + 1, Cardinality(t) # n + 1
          PROVE  Good(t)
      <4>1. Cardinality(t) <= n
        BY <1>0, <2>0, <3>1
      <4>. QED  BY <4>1
    <3>. HIDE DEF Good
    <3>. QED  BY <2>0, <3>1
  <2>2. n \in Nat /\ t # {}
    <3>1. Cardinality({}) = 0
      BY FS_EmptySet
    <3>2. ASSUME t = {} PROVE FALSE
      <4>. HIDE DEF Good, D
      <4>. QED  BY <2>0, <2>1, <3>1, <3>2
    <3>. QED  BY <2>0, <3>2
  <2>3. PICK c \in t : h[t] = g[c] + h[t \ {c}]
    <3>1. (CHOOSE x \in t : TRUE) \in t
      BY <2>2
    <3>2. h[t] = g[CHOOSE x \in t : TRUE] + h[t \ {CHOOSE x \in t : TRUE}]
      BY <2>2 DEF IsSum
    <3>. QED  BY <3>1, <3>2
  <2>4. \A x \in t : t \ {x} \in SUBSET S /\ Cardinality(t \ {x}) = n
    <3>1. SUFFICES ASSUME NEW x \in t
                   PROVE  t \ {x} \in SUBSET S /\ Cardinality(t \ {x}) = n
      OBVIOUS
    <3>2. Cardinality(t \ {x}) = Cardinality(t) - 1
      BY <1>0, FS_RemoveElement
    <3>. QED  BY <2>1, <2>2, <3>2
  <2>5. \A x \in t : Good(t \ {x})
    <3>. HIDE DEF Good
    <3>. QED  BY <2>2, <2>4
  <2>6. h[t] \in Int
    BY <2>3, <2>5
  <2>7. ASSUME NEW x \in t PROVE h[t] = g[x] + h[t \ {x}]
    <3>1. CASE x = c
      BY <2>3, <3>1
    <3>2. CASE x # c
      <4>. DEFINE u == t \ {c}
                  v == t \ {x}
                  w == (t \ {c}) \ {x}
      <4>1. w = v \ {c} /\ x \in u /\ c \in v
        BY <3>2
      <4>2. h[u] = g[x] + h[w]
        BY <2>5, <4>1
      <4>3. h[v] = g[c] + h[w]
        BY <2>5, <4>1
      <4>5. h[w] \in Int
        <5>1. w \in SUBSET S /\ u \in SUBSET S /\ x \in u /\ w = u \ {x}
          BY <4>1
        <5>2. Cardinality(u) = n
          BY <2>4
        <5>3. Cardinality(w) = n - 1
          <6>. HIDE DEF u, w
          <6>. QED  BY <1>0, <5>1, <5>2, FS_RemoveElement
        <5>4. Good(w)
          <6>. HIDE DEF Good, w
          <6>. QED  BY <2>2, <5>1, <5>3
        <5>. QED  BY <5>4
      <4>. HIDE DEF u, v, w
      <4>6. h[t] = g[c] + h[u] /\ g[c] \in Int /\ g[x] \in Int
        BY <2>3 DEF u
      <4>7. h[t] = g[x] + h[v]
        BY <4>2, <4>3, <4>5, <4>6
      <4>. QED  BY <4>7 DEF v
    <3>. QED  BY <3>1, <3>2
  <2>. QED  BY <2>6, <2>7
<1>3. D = Nat
  <2>. HIDE DEF Good
  <2>1. D \in SUBSET Nat
    OBVIOUS
  <2>. HIDE DEF D
  <2>. QED  BY <1>1, <1>2, <2>1, Induction
<1>. QED  BY <1>0, <1>3

(* ... which the terms determine.                                          *)
LEMMA SumsAgree ==
  ASSUME NEW S, NEW T, IsFiniteSet(S), T \subseteq S, NEW g, NEW h, NEW k,
         IsSum(h, g, SUBSET S), IsSum(k, g, SUBSET T)
  PROVE  k[T] = h[T]
<1>. DEFINE D == {n \in Nat : \A t \in SUBSET T : Cardinality(t) = n => k[t] = h[t]}
            c(t) == CHOOSE x \in t : TRUE
<1>0. \A t \in SUBSET S : IsFiniteSet(t) /\ Cardinality(t) \in Nat
  BY FS_Subset, FS_CardinalityType
<1>1. 0 \in D
  <2>1. \A t \in SUBSET T : Cardinality(t) = 0 => t = {}
    BY <1>0, FS_EmptySet
  <2>2. k[{}] = 0 /\ h[{}] = 0
    BY DEF IsSum
  <2>. QED  BY <2>1, <2>2
<1>2. ASSUME NEW n \in D
      PROVE  n + 1 \in D
  <2>0. n \in Nat /\ n + 1 \in Nat
    OBVIOUS
  <2>1. SUFFICES ASSUME NEW t \in SUBSET T, Cardinality(t) = n + 1 PROVE k[t] = h[t]
    BY <2>0
  <2>2. t # {}
    <3>1. Cardinality({}) = 0
      BY FS_EmptySet
    <3>2. ASSUME t = {} PROVE FALSE
      <4>. HIDE DEF D
      <4>. QED  BY <2>0, <2>1, <3>1, <3>2
    <3>. QED  BY <3>2
  <2>3. c(t) \in t
    BY <2>2
  <2>4. k[t] = g[c(t)] + k[t \ {c(t)}] /\ h[t] = g[c(t)] + h[t \ {c(t)}]
    BY <2>2 DEF IsSum
  <2>. HIDE DEF c
  <2>5. t \ {c(t)} \in SUBSET T /\ Cardinality(t \ {c(t)}) = n
    <3>1. Cardinality(t \ {c(t)}) = Cardinality(t) - 1
      BY <1>0, <2>3, FS_RemoveElement
    <3>. QED  BY <2>0, <2>1, <3>1
  <2>6. k[t \ {c(t)}] = h[t \ {c(t)}]
    BY <2>5
  <2>. QED  BY <2>4, <2>6
<1>3. D = Nat
  <2>1. D \in SUBSET Nat
    OBVIOUS
  <2>. HIDE DEF D
  <2>. QED  BY <1>1, <1>2, <2>1, Induction
<1>4. Cardinality(T) \in D
  BY <1>0, <1>3
<1>. QED  BY <1>4

(* A sum over one element more.                                            *)
LEMMA SumStep ==
  ASSUME NEW S, IsFiniteSet(S), NEW g, \A y \in S : g[y] \in Int
  PROVE  /\ SumOver(g, S) \in Int
         /\ \A x \in S : SumOver(g, S) = g[x] + SumOver(g, S \ {x})
         /\ S = {} => SumOver(g, S) = 0
<1>. DEFINE h == CHOOSE h : IsSum(h, g, SUBSET S)
<1>1. IsSum(h, g, SUBSET S)
  BY SumExists
<1>2. SumOver(g, S) = h[S]
  BY SumIsChosen
<1>. HIDE DEF h
<1>3. /\ h[S] \in Int
      /\ \A x \in S : h[S] = g[x] + h[S \ {x}]
  BY <1>1, SumWithout
<1>4. ASSUME NEW x \in S
      PROVE  SumOver(g, S \ {x}) = h[S \ {x}]
  <2>. DEFINE T == S \ {x}
              k == CHOOSE k : IsSum(k, g, SUBSET T)
  <2>1. IsFiniteSet(T) /\ T \in SUBSET S
    BY FS_Subset
  <2>. HIDE DEF T
  <2>2. IsSum(k, g, SUBSET T)
    BY <2>1, SumExists
  <2>3. SumOver(g, T) = k[T]
    BY SumIsChosen
  <2>. HIDE DEF k
  <2>4. k[T] = h[T]
    <3>1. T \subseteq S
      BY <2>1
    <3>. QED  BY <1>1, <2>2, <3>1, SumsAgree
  <2>. QED  BY <2>3, <2>4 DEF T
<1>5. S = {} => h[S] = 0
  BY <1>1 DEF IsSum
<1>. QED  BY <1>2, <1>3, <1>4, <1>5

LEMMA SumInterval ==
  ASSUME NEW n \in Nat, NEW g, \A k \in 1..n : g[k] \in Int,
         NEW m \in 0..n
  PROVE  /\ SumOver(g, 1..m) \in Int
         /\ SumOver(g, 1..0) = 0
         /\ m < n => SumOver(g, 1..m + 1) = SumOver(g, 1..m) + g[m + 1]
<1>1. ASSUME NEW j \in 0..n
      PROVE  IsFiniteSet(1..j) /\ \A k \in 1..j : g[k] \in Int
  BY FS_Interval
<1>2. SumOver(g, 1..m) \in Int
  BY <1>1, SumStep
<1>3. 1..0 = {} /\ SumOver(g, 1..0) = 0
  <2>1. 1..0 = {} /\ 0 \in 0..n
    OBVIOUS
  <2>. QED  BY <1>1, <2>1, SumStep
<1>4. ASSUME m < n
      PROVE  SumOver(g, 1..m + 1) = SumOver(g, 1..m) + g[m + 1]
  <2>1. m + 1 \in 0..n /\ m + 1 \in 1..m + 1 /\ m + 1 \in 1..n
    BY <1>4
  <2>2. (1..m + 1) \ {m + 1} = 1..m
    OBVIOUS
  <2>3. SumOver(g, 1..m + 1) = g[m + 1] + SumOver(g, (1..m + 1) \ {m + 1})
    BY <1>1, <2>1, SumStep
  <2>4. SumOver(g, 1..m + 1) = g[m + 1] + SumOver(g, 1..m)
    BY <2>2, <2>3
  <2>5. g[m + 1] \in Int
    BY <2>1
  <2>. QED  BY <1>2, <2>4, <2>5
<1>. QED  BY <1>2, <1>3, <1>4

(* Every byte once more: the weights of all grow by 1.                     *)
LEMMA WeightsGrow ==
  ASSUME NEW n \in Nat, NEW b, \A k \in 1..n : b[k] \in Int, NEW c \in Int, NEW m \in 0..n
  PROVE  SumOver([k \in 1..n |-> (c + 1 - k) * b[k]], 1..m)
           = SumOver([k \in 1..n |-> (c - k) * b[k]], 1..m) + SumOver(b, 1..m)
<1>. DEFINE g == [k \in 1..n |-> (c + 1 - k) * b[k]]
            h == [k \in 1..n |-> (c - k) * b[k]]
            D == {j \in Nat : j <= n =>
                    SumOver(g, 1..j) = SumOver(h, 1..j) + SumOver(b, 1..j)}
<1>1. \A k \in 1..n : g[k] \in Int /\ h[k] \in Int /\ g[k] = h[k] + b[k]
  <2>1. \A a, z \in Int : a * z \in Int /\ (a + 1) * z = a * z + z
    OBVIOUS
  <2>2. \A k \in 1..n : c - k \in Int /\ c + 1 - k = (c - k) + 1
    OBVIOUS
  <2>. QED  BY <2>1, <2>2
<1>. HIDE DEF g, h
<1>2. 0 \in D
  <2>1. 0 \in 0..n
    OBVIOUS
  <2>2. SumOver(g, 1..0) = 0 /\ SumOver(h, 1..0) = 0 /\ SumOver(b, 1..0) = 0
    BY <1>1, <2>1, SumInterval
  <2>. QED  BY <2>2
<1>3. ASSUME NEW j \in D
      PROVE  j + 1 \in D
  <2>1. j \in Nat /\ j + 1 \in Nat
    OBVIOUS
  <2>2. SUFFICES ASSUME j + 1 <= n
                 PROVE  SumOver(g, 1..j + 1) = SumOver(h, 1..j + 1) + SumOver(b, 1..j + 1)
    BY <2>1
  <2>3. j \in 0..n /\ j < n /\ j + 1 \in 1..n
    BY <2>1, <2>2
  <2>4. /\ SumOver(g, 1..j + 1) = SumOver(g, 1..j) + g[j + 1]
        /\ SumOver(g, 1..j) \in Int
    BY <1>1, <2>3, SumInterval
  <2>5. /\ SumOver(h, 1..j + 1) = SumOver(h, 1..j) + h[j + 1]
        /\ SumOver(h, 1..j) \in Int
    BY <1>1, <2>3, SumInterval
  <2>6. /\ SumOver(b, 1..j + 1) = SumOver(b, 1..j) + b[j + 1]
        /\ SumOver(b, 1..j) \in Int
    BY <2>3, SumInterval
  <2>7. SumOver(g, 1..j) = SumOver(h, 1..j) + SumOver(b, 1..j)
    BY <2>3
  <2>8. g[j + 1] = h[j + 1] + b[j + 1] /\ h[j + 1] \in Int /\ b[j + 1] \in Int
    BY <1>1, <2>3
  <2>. HIDE DEF D
  <2>. QED  BY <2>4, <2>5, <2>6, <2>7, <2>8
<1>4. D = Nat
  <2>1. D \in SUBSET Nat
    OBVIOUS
  <2>. HIDE DEF D
  <2>. QED  BY <1>2, <1>3, <2>1, Induction
<1>5. m \in D
  BY <1>4
<1>. QED  BY <1>5 DEF g, h

-----------------------------------------------------------------------------
(* The sums of the definition over the first m bytes                       *)

(* The sums of the definition over the first m bytes of b.                 *)
Prefix(b, m) ==
  Sums(SumOver(b, 1..m), SumOver([k \in DOMAIN b |-> (m + 1 - k) * b[k]], 1..m))

LEMMA PrefixSteps ==
  ASSUME NEW n \in Nat, NEW b \in [1..n -> Nat], NEW m \in 0..n
  PROVE  /\ Prefix(b, 0) = Sums(0, 0)
         /\ m < n => Prefix(b, m + 1) = Add(Prefix(b, m), b[m + 1])
<1>. DEFINE w(c) == [k \in 1..n |-> (c - k) * b[k]]
<1>1. \A k \in 1..n : b[k] \in Int
  OBVIOUS
<1>2. \A c \in Int : \A k \in 1..n : w(c)[k] \in Int
  <2>1. \A a, z \in Int : a * z \in Int
    OBVIOUS
  <2>2. \A c \in Int, k \in 1..n : c - k \in Int
    OBVIOUS
  <2>. QED  BY <1>1, <2>1, <2>2
<1>3. \A j \in 0..n : Prefix(b, j) = Sums(SumOver(b, 1..j), SumOver(w(j + 1), 1..j))
  BY DEF Prefix
<1>4. Prefix(b, 0) = Sums(0, 0)
  <2>1. 0 \in 0..n /\ 0 + 1 \in Int
    OBVIOUS
  <2>2. SumOver(b, 1..0) = 0
    BY <1>1, SumInterval
  <2>3. SumOver(w(0 + 1), 1..0) = 0
    <3>1. \A k \in 1..n : w(0 + 1)[k] \in Int
      BY <1>2, <2>1
    <3>. HIDE DEF w
    <3>. QED  BY <3>1, SumInterval
  <2>. HIDE DEF w
  <2>. QED  BY <1>3, <2>1, <2>2, <2>3
<1>5. ASSUME m < n
      PROVE  Prefix(b, m + 1) = Add(Prefix(b, m), b[m + 1])
  <2>1. m + 1 \in 0..n /\ m + 1 \in 1..n /\ m + 1 \in Int /\ m + 2 \in Int
    BY <1>5
  <2>2. SumOver(b, 1..m + 1) = SumOver(b, 1..m) + b[m + 1] /\ SumOver(b, 1..m) \in Int
    BY <1>1, <1>5, SumInterval
  <2>3. SumOver(w(m + 2), 1..m + 1) = SumOver(w(m + 1), 1..m + 1) + SumOver(b, 1..m + 1)
    <3>1. w(m + 2) = [k \in 1..n |-> ((m + 1) + 1 - k) * b[k]]
      OBVIOUS
    <3>2. SumOver([k \in 1..n |-> ((m + 1) + 1 - k) * b[k]], 1..m + 1)
            = SumOver([k \in 1..n |-> ((m + 1) - k) * b[k]], 1..m + 1)
              + SumOver(b, 1..m + 1)
      BY <1>1, <2>1, WeightsGrow, ZenonT(30)
    <3>. QED  BY <3>1, <3>2
  <2>4. /\ SumOver(w(m + 1), 1..m + 1) = SumOver(w(m + 1), 1..m) + w(m + 1)[m + 1]
        /\ SumOver(w(m + 1), 1..m) \in Int
    <3>1. \A k \in 1..n : w(m + 1)[k] \in Int
      BY <1>2, <2>1
    <3>. HIDE DEF w
    <3>. QED  BY <1>5, <3>1, SumInterval
  <2>5. w(m + 1)[m + 1] = 0
    <3>1. w(m + 1)[m + 1] = (m + 1 - (m + 1)) * b[m + 1]
      BY <2>1
    <3>2. b[m + 1] \in Nat /\ m + 1 - (m + 1) = 0
      BY <2>1
    <3>3. \A z \in Nat : 0 * z = 0
      OBVIOUS
    <3>. QED  BY <3>1, <3>2, <3>3
  <2>6. Prefix(b, m + 1) = Sums(SumOver(b, 1..m + 1), SumOver(w(m + 2), 1..m + 1))
    <3>1. (m + 1) + 1 = m + 2
      OBVIOUS
    <3>. HIDE DEF w
    <3>. QED  BY <1>3, <2>1, <3>1
  <2>7. Prefix(b, m) = Sums(SumOver(b, 1..m), SumOver(w(m + 1), 1..m))
    BY <1>3
  <2>8. b[m + 1] \in Int
    BY <2>1
  <2>. HIDE DEF w
  <2>9. SumOver(w(m + 2), 1..m + 1) = SumOver(w(m + 1), 1..m) + SumOver(b, 1..m) + b[m + 1]
    BY <2>2, <2>3, <2>4, <2>5, <2>8
  <2>. QED  BY <2>2, <2>6, <2>7, <2>9 DEF Add, Sums
<1>. QED  BY <1>4, <1>5

LEMMA PrefixType ==
  ASSUME NEW n \in Nat, NEW b \in [1..n -> Nat]
  PROVE  \A m \in 0..n : Prefix(b, m) \in SumsType
<1>. DEFINE D == {m \in Nat : m <= n => Prefix(b, m) \in SumsType}
<1>1. 0 \in D
  BY PrefixSteps DEF Sums, SumsType
<1>2. ASSUME NEW m \in D
      PROVE  m + 1 \in D
  <2>1. SUFFICES ASSUME m + 1 <= n PROVE Prefix(b, m + 1) \in SumsType
    OBVIOUS
  <2>2. m \in 0..n /\ m < n /\ m + 1 \in 1..n
    BY <2>1
  <2>3. Prefix(b, m) \in SumsType /\ b[m + 1] \in Nat
    BY <2>2
  <2>4. Prefix(b, m + 1) = Add(Prefix(b, m), b[m + 1])
    BY <2>2, PrefixSteps
  <2>. QED  BY <2>3, <2>4 DEF Add, Sums, SumsType
<1>3. D = Nat
  <2>1. D \in SUBSET Nat
    OBVIOUS
  <2>. HIDE DEF D
  <2>. QED  BY <1>1, <1>2, <2>1, Induction
<1>. QED  BY <1>3

-----------------------------------------------------------------------------
(* What a hash has followed: the calls of mvt_hash_update() take the bytes *)
(* of b one after the other, whatever the implementation, and what is left *)
(* of the data of a call are the next ones                                 *)

(* The hash follows the data                                               *)

Bytes(n) == [1..n -> UInt8]

(* k bytes of d from i on are those of b after the first m.                *)
Reads(d, i, b, m, k) == \A j \in 0..k - 1 : d[i + j] = b[m + j + 1]

LEMMA ReadsSplit ==
  ASSUME NEW d, NEW i \in Nat, NEW b, NEW m \in Nat, NEW k \in Nat, NEW l \in Nat,
         Reads(d, i, b, m, k + l)
  PROVE  Reads(d, i, b, m, k) /\ Reads(d, i + k, b, m + k, l)
<1>1. Reads(d, i, b, m, k)
  BY DEF Reads
<1>2. ASSUME NEW j \in 0..l - 1
      PROVE  d[(i + k) + j] = b[(m + k) + j + 1]
  <2>1. /\ k + j \in 0..(k + l) - 1
        /\ (i + k) + j = i + (k + j) /\ (m + k) + j + 1 = m + (k + j) + 1
    OBVIOUS
  <2>. QED  BY <2>1 DEF Reads
<1>. QED  BY <1>1, <1>2 DEF Reads

LEMMA PrefixIsSums ==
  ASSUME NEW n \in Nat, NEW b \in Bytes(n), NEW m \in 0..n
  PROVE  /\ Prefix(b, m) \in SumsType
         /\ Prefix(b, 0) = Sums(0, 0)
         /\ m < n => Prefix(b, m + 1) = Add(Prefix(b, m), b[m + 1])
<1>1. UInt8 \subseteq Nat
  BY DEF UInt8
<1>2. b \in [1..n -> Nat]
  BY <1>1 DEF Bytes
<1>. QED  BY <1>2, PrefixType, PrefixSteps

(* The macros take the sums over m bytes to those over 1, 2, ... more.     *)
LEMMA DO1Follows ==
  ASSUME NEW n \in Nat, NEW b \in Bytes(n), NEW m \in Nat, m + 1 <= n,
         NEW r \in SumsType, Agree(Prefix(b, m), r),
         NEW d, NEW i \in Nat, Reads(d, i, b, m, 1)
  PROVE  DO1(r, d, i) \in SumsType /\ Agree(Prefix(b, m + 1), DO1(r, d, i))
<1>1. m \in 0..n /\ m < n /\ m + 1 \in 1..n /\ b[m + 1] \in UInt8
  BY DEF Bytes
<1>2. d[i] = b[m + 1]
  BY DEF Reads
<1>3. Prefix(b, m) \in SumsType /\ Prefix(b, m + 1) = Add(Prefix(b, m), b[m + 1])
  BY <1>1, PrefixIsSums
<1>. QED  BY <1>1, <1>2, <1>3, AddAgrees DEF DO1

LEMMA DO2Follows ==
  ASSUME NEW n \in Nat, NEW b \in Bytes(n), NEW m \in Nat, m + 2 <= n,
         NEW r \in SumsType, Agree(Prefix(b, m), r),
         NEW d, NEW i \in Nat, Reads(d, i, b, m, 2)
  PROVE  DO2(r, d, i) \in SumsType /\ Agree(Prefix(b, m + 2), DO2(r, d, i))
<1>. DEFINE t == DO1(r, d, i)
<1>1. Reads(d, i, b, m, 1) /\ Reads(d, i + 1, b, m + 1, 1)
  <2>1. Reads(d, i, b, m, 1 + 1)
    OBVIOUS
  <2>. QED  BY <2>1, ReadsSplit
<1>2. t \in SumsType /\ Agree(Prefix(b, m + 1), t)
  BY <1>1, DO1Follows
<1>. HIDE DEF t
<1>3. DO1(t, d, i + 1) \in SumsType /\ Agree(Prefix(b, (m + 1) + 1), DO1(t, d, i + 1))
  BY <1>1, <1>2, DO1Follows
<1>4. (m + 1) + 1 = m + 2
  OBVIOUS
<1>. QED  BY <1>3, <1>4 DEF DO2, t

LEMMA DO4Follows ==
  ASSUME NEW n \in Nat, NEW b \in Bytes(n), NEW m \in Nat, m + 4 <= n,
         NEW r \in SumsType, Agree(Prefix(b, m), r),
         NEW d, NEW i \in Nat, Reads(d, i, b, m, 4)
  PROVE  DO4(r, d, i) \in SumsType /\ Agree(Prefix(b, m + 4), DO4(r, d, i))
<1>. DEFINE t == DO2(r, d, i)
<1>1. Reads(d, i, b, m, 2) /\ Reads(d, i + 2, b, m + 2, 2)
  <2>1. Reads(d, i, b, m, 2 + 2)
    OBVIOUS
  <2>. QED  BY <2>1, ReadsSplit
<1>2. t \in SumsType /\ Agree(Prefix(b, m + 2), t)
  BY <1>1, DO2Follows
<1>. HIDE DEF t
<1>3. DO2(t, d, i + 2) \in SumsType /\ Agree(Prefix(b, (m + 2) + 2), DO2(t, d, i + 2))
  BY <1>1, <1>2, DO2Follows
<1>4. (m + 2) + 2 = m + 4
  OBVIOUS
<1>. QED  BY <1>3, <1>4 DEF DO4, t

LEMMA DO8Follows ==
  ASSUME NEW n \in Nat, NEW b \in Bytes(n), NEW m \in Nat, m + 8 <= n,
         NEW r \in SumsType, Agree(Prefix(b, m), r),
         NEW d, NEW i \in Nat, Reads(d, i, b, m, 8)
  PROVE  DO8(r, d, i) \in SumsType /\ Agree(Prefix(b, m + 8), DO8(r, d, i))
<1>. DEFINE t == DO4(r, d, i)
<1>1. Reads(d, i, b, m, 4) /\ Reads(d, i + 4, b, m + 4, 4)
  <2>1. Reads(d, i, b, m, 4 + 4)
    OBVIOUS
  <2>. QED  BY <2>1, ReadsSplit
<1>2. t \in SumsType /\ Agree(Prefix(b, m + 4), t)
  BY <1>1, DO4Follows
<1>. HIDE DEF t
<1>3. DO4(t, d, i + 4) \in SumsType /\ Agree(Prefix(b, (m + 4) + 4), DO4(t, d, i + 4))
  BY <1>1, <1>2, DO4Follows
<1>4. (m + 4) + 4 = m + 8
  OBVIOUS
<1>. QED  BY <1>3, <1>4 DEF DO8, t

LEMMA DO16Follows ==
  ASSUME NEW n \in Nat, NEW b \in Bytes(n), NEW m \in Nat, m + 16 <= n,
         NEW r \in SumsType, Agree(Prefix(b, m), r),
         NEW d, NEW i \in Nat, Reads(d, i, b, m, 16)
  PROVE  DO16(r, d, i) \in SumsType /\ Agree(Prefix(b, m + 16), DO16(r, d, i))
<1>. DEFINE t == DO8(r, d, i)
<1>1. Reads(d, i, b, m, 8) /\ Reads(d, i + 8, b, m + 8, 8)
  <2>1. Reads(d, i, b, m, 8 + 8)
    OBVIOUS
  <2>. QED  BY <2>1, ReadsSplit
<1>2. t \in SumsType /\ Agree(Prefix(b, m + 8), t)
  BY <1>1, DO8Follows
<1>. HIDE DEF t
<1>3. DO8(t, d, i + 8) \in SumsType /\ Agree(Prefix(b, (m + 8) + 8), DO8(t, d, i + 8))
  BY <1>1, <1>2, DO8Follows
<1>4. (m + 8) + 8 = m + 16
  OBVIOUS
<1>. QED  BY <1>3, <1>4 DEF DO16, t

(* Bytes of the call that the sums have still to take.                     *)
BytesLeft ==
  IF hpc = "words" THEN len + (words - word) * WordSize
  ELSE IF hpc = "idle" THEN 0 ELSE len

(* The hash has been given the first m bytes of b.                         *)
Follows(b, m) ==
  ~narrow =>
    IF hpc = "idle" THEN Agree(Prefix(b, m), Unpack(value))
    ELSE /\ BytesLeft \in Nat /\ BytesLeft <= m
         /\ Agree(Prefix(b, m - BytesLeft), ref)
         /\ Reads(buf, pos, b, m - BytesLeft, BytesLeft)

(* One step of mvt_hash_update() that takes k of them.                     *)
LEMMA TakeBytes ==
  ASSUME HInv, NEW n \in Nat, NEW b \in Bytes(n), NEW m \in 0..n, Follows(b, m),
         NEW k \in Nat, k <= BytesLeft,
         hpc # "idle", hpc' # "idle", narrow' = narrow,
         buf' = buf, pos' = pos + k, BytesLeft' = BytesLeft - k,
         ~narrow => Agree(Prefix(b, m - BytesLeft + k), ref')
  PROVE  Follows(b, m)'
<1>. SUFFICES ASSUME ~narrow' PROVE Follows(b, m)'
  BY DEF Follows
<1>1. /\ BytesLeft \in Nat /\ BytesLeft <= m
      /\ Reads(buf, pos, b, m - BytesLeft, BytesLeft)
  BY DEF Follows
<1>2. pos \in Nat
  BY DEF HInv, HashTypeOK
<1>. DEFINE before == m - BytesLeft
            rest == BytesLeft - k
<1>3. /\ before \in Nat /\ rest \in Nat /\ BytesLeft = k + rest
      /\ m - BytesLeft' = before + k /\ BytesLeft' = rest /\ BytesLeft' <= m
  BY <1>1
<1>4. Reads(buf, pos + k, b, before + k, rest)
  <2>1. Reads(buf, pos, b, before, k + rest)
    BY <1>1, <1>3
  <2>. HIDE DEF before, rest
  <2>. QED  BY <1>2, <1>3, <2>1, ReadsSplit
<1>5. Agree(Prefix(b, m - BytesLeft'), ref')
  BY <1>3
<1>. HIDE DEF before, rest
<1>. QED  BY <1>3, <1>4, <1>5 DEF Follows

(* Every step of a call keeps the hash with the message.                   *)
LEMMA StepFollows ==
  ASSUME HInv, NEW n \in Nat, NEW b \in Bytes(n), NEW m \in 0..n, Follows(b, m), HashStep
  PROVE  Follows(b, m)'
<1>. DEFINE before == m - BytesLeft
<1>0. /\ pos \in Nat /\ len \in Nat /\ word \in Nat /\ words \in Nat /\ word <= words
      /\ WordSize \in {8, 16} /\ ref \in SumsType /\ rlen \in Nat
      /\ hpc = "loop" => rlen <= len
      /\ hpc = "words" => (kernel = "swar" => WordSize = 8) /\ (kernel # "swar" => WordSize = 16)
  <2>1. WordSize \in {8, 16} /\ (kernel = "swar" => WordSize = 8)
        /\ (kernel # "swar" => WordSize = 16)
    BY DEF WordSize
  <2>2. /\ pos \in Nat /\ len \in Nat /\ word \in 0..words /\ words \in 0..23
        /\ ref \in SumsType /\ rlen \in Nat /\ (hpc = "loop" => rlen <= len)
    BY DEF HInv, HashTypeOK, SumsType, BufferInv, BlockWords
  <2>. QED  BY <2>1, <2>2
<1>1. ASSUME ~narrow, hpc # "idle"
      PROVE  /\ BytesLeft \in Nat /\ before \in Nat /\ before + BytesLeft <= n
             /\ Agree(Prefix(b, before), ref)
             /\ \A k \in 0..BytesLeft : Reads(buf, pos, b, before, k)
  BY <1>1 DEF Follows, Reads
<1>. HIDE DEF before
<1>2. ASSUME PeelBytes PROVE Follows(b, m)'
  <2>1. hpc = "loop" /\ hpc' = "loop" /\ narrow' = narrow /\ buf' = buf
    BY <1>2 DEF PeelBytes, Peel
  <2>2. BytesLeft = len /\ BytesLeft' = len'
    BY <2>1 DEF BytesLeft
  <2>3. ASSUME NEW size \in {1, 2, 4, 8}, rlen % (2 * size) = size
        PROVE  size <= rlen
    <3>1. \A r \in Nat : /\ r % 2 = 1 => 1 <= r
                         /\ r % 4 = 2 => 2 <= r
                         /\ r % 8 = 4 => 4 <= r
                         /\ r % 16 = 8 => 8 <= r
      OBVIOUS
    <3>. QED  BY <1>0, <2>3, <3>1
  <2>4. CASE Peel(1, DO1(s, buf, pos)) /\ ref' = DO1(ref, buf, pos)
    <3>1. rlen % (2 * 1) = 1 /\ pos' = pos + 1 /\ len' = len - 1
      BY <2>4 DEF Peel
    <3>2. 1 <= BytesLeft
      BY <1>0, <2>1, <2>2, <2>3, <3>1
    <3>3. ~narrow => Agree(Prefix(b, before + 1), ref')
      <4>1. SUFFICES ASSUME ~narrow PROVE Agree(Prefix(b, before + 1), ref')
        OBVIOUS
      <4>. QED  BY <1>0, <1>1, <2>1, <2>4, <3>2, <4>1, DO1Follows
    <3>. QED  BY <1>0, <2>1, <2>2, <3>1, <3>2, <3>3, TakeBytes DEF before
  <2>5. CASE Peel(2, DO2(s, buf, pos)) /\ ref' = DO2(ref, buf, pos)
    <3>1. rlen % (2 * 2) = 2 /\ pos' = pos + 2 /\ len' = len - 2
      BY <2>5 DEF Peel
    <3>2. 2 <= BytesLeft
      BY <1>0, <2>1, <2>2, <2>3, <3>1
    <3>3. ~narrow => Agree(Prefix(b, before + 2), ref')
      <4>1. SUFFICES ASSUME ~narrow PROVE Agree(Prefix(b, before + 2), ref')
        OBVIOUS
      <4>. QED  BY <1>0, <1>1, <2>1, <2>5, <3>2, <4>1, DO2Follows
    <3>. QED  BY <1>0, <2>1, <2>2, <3>1, <3>2, <3>3, TakeBytes DEF before
  <2>6. CASE Peel(4, DO4(s, buf, pos)) /\ ref' = DO4(ref, buf, pos)
    <3>1. rlen % (2 * 4) = 4 /\ pos' = pos + 4 /\ len' = len - 4
      BY <2>6 DEF Peel
    <3>2. 4 <= BytesLeft
      BY <1>0, <2>1, <2>2, <2>3, <3>1
    <3>3. ~narrow => Agree(Prefix(b, before + 4), ref')
      <4>1. SUFFICES ASSUME ~narrow PROVE Agree(Prefix(b, before + 4), ref')
        OBVIOUS
      <4>. QED  BY <1>0, <1>1, <2>1, <2>6, <3>2, <4>1, DO4Follows
    <3>. QED  BY <1>0, <2>1, <2>2, <3>1, <3>2, <3>3, TakeBytes DEF before
  <2>7. CASE Peel(8, DO8(s, buf, pos)) /\ ref' = DO8(ref, buf, pos)
    <3>1. rlen % (2 * 8) = 8 /\ pos' = pos + 8 /\ len' = len - 8
      BY <2>7 DEF Peel
    <3>2. 8 <= BytesLeft
      BY <1>0, <2>1, <2>2, <2>3, <3>1
    <3>3. ~narrow => Agree(Prefix(b, before + 8), ref')
      <4>1. SUFFICES ASSUME ~narrow PROVE Agree(Prefix(b, before + 8), ref')
        OBVIOUS
      <4>. QED  BY <1>0, <1>1, <2>1, <2>7, <3>2, <4>1, DO8Follows
    <3>. QED  BY <1>0, <2>1, <2>2, <3>1, <3>2, <3>3, TakeBytes DEF before
  <2>. QED  BY <1>2, <2>4, <2>5, <2>6, <2>7 DEF PeelBytes
<1>3. ASSUME StartBlock \/ EndBlocks \/ Reduce PROVE Follows(b, m)'
  <2>1. /\ hpc # "idle" /\ hpc' # "idle"
        /\ UNCHANGED <<narrow, buf, pos, ref, kernel>>
    BY <1>3 DEF StartBlock, EndBlocks, Reduce
  <2>2. BytesLeft' = BytesLeft
    <3>1. WordSize' = WordSize
      BY <2>1 DEF WordSize
    <3>2. CASE EndBlocks
      BY <3>2 DEF EndBlocks, BytesLeft
    <3>3. CASE StartBlock
      <4>1. PICK k \in Nat : words' = k /\ word' = 0 /\ len' = len - k * WordSize
                             /\ hpc = "loop" /\ hpc' = "words"
        <5>1. len \div WordSize \in Nat
          BY <1>0
        <5>. QED  BY <3>3, <5>1 DEF StartBlock, BlockWords
      <4>2. BytesLeft = len /\ BytesLeft' = len - k * WordSize + (k - 0) * WordSize
        BY <3>1, <4>1 DEF BytesLeft
      <4>. QED  BY <1>0, <4>2
    <3>4. CASE Reduce
      <4>1. word = words /\ len' = len /\ hpc = "words" /\ hpc' = "loop"
        BY <3>4 DEF Reduce
      <4>. QED  BY <1>0, <4>1 DEF BytesLeft
    <3>. QED  BY <1>3, <3>2, <3>3, <3>4
  <2>. QED  BY <2>1, <2>2 DEF Follows, Reads
<1>4. ASSUME Accumulate PROVE Follows(b, m)'
  <2>1. /\ hpc = "words" /\ hpc' = "words" /\ word < words /\ word' = word + 1
        /\ pos' = pos + WordSize
        /\ ref' = IF kernel = "swar" THEN DO8(ref, buf, pos) ELSE DO16(ref, buf, pos)
        /\ UNCHANGED <<narrow, buf, len, words, kernel>>
    BY <1>4 DEF Accumulate
  <2>2. BytesLeft' = BytesLeft - WordSize /\ WordSize <= BytesLeft
    <3>1. WordSize' = WordSize
      BY <2>1 DEF WordSize
    <3>2. /\ BytesLeft = len + (words - word) * WordSize
          /\ BytesLeft' = len + (words - (word + 1)) * WordSize
      BY <2>1, <3>1 DEF BytesLeft
    <3>. QED  BY <1>0, <2>1, <3>2
  <2>3. ~narrow => Agree(Prefix(b, before + WordSize), ref')
    <3>1. SUFFICES ASSUME ~narrow PROVE Agree(Prefix(b, before + WordSize), ref')
      OBVIOUS
    <3>2. /\ before \in Nat /\ before + WordSize <= n
          /\ Agree(Prefix(b, before), ref) /\ Reads(buf, pos, b, before, WordSize)
      BY <1>0, <1>1, <2>1, <2>2, <3>1
    <3>3. CASE kernel = "swar"
      BY <1>0, <2>1, <3>2, <3>3, DO8Follows
    <3>4. CASE kernel # "swar"
      BY <1>0, <2>1, <3>2, <3>4, DO16Follows
    <3>. QED  BY <3>3, <3>4
  <2>. QED  BY <1>0, <2>1, <2>2, <2>3, TakeBytes DEF before
<1>5. ASSUME TailByte PROVE Follows(b, m)'
  <2>1. /\ hpc = "tail" /\ hpc' = "tail" /\ len > 0 /\ len' = len - 1 /\ pos' = pos + 1
        /\ ref' = DO1(ref, buf, pos) /\ UNCHANGED <<narrow, buf>>
    BY <1>5 DEF TailByte
  <2>2. BytesLeft = len /\ BytesLeft' = len - 1 /\ 1 <= BytesLeft
    BY <1>0, <2>1 DEF BytesLeft
  <2>3. ~narrow => Agree(Prefix(b, before + 1), ref')
    <3>1. SUFFICES ASSUME ~narrow PROVE Agree(Prefix(b, before + 1), ref')
      OBVIOUS
    <3>. QED  BY <1>0, <1>1, <2>1, <2>2, <3>1, DO1Follows
  <2>. QED  BY <1>0, <2>1, <2>2, <2>3, TakeBytes DEF before
<1>6. ASSUME Return PROVE Follows(b, m)'
  <2>1. /\ hpc = "tail" /\ hpc' = "idle" /\ len = 0 /\ UNCHANGED <<narrow, ref>>
    BY <1>6 DEF Return
  <2>2. SUFFICES ASSUME ~narrow PROVE Agree(Prefix(b, m), Unpack(value'))
    BY <2>1 DEF Follows
  <2>3. BytesLeft = 0
    BY <2>1 DEF BytesLeft
  <2>4. Agree(Prefix(b, m), ref) /\ Prefix(b, m) \in SumsType
    BY <1>1, <2>1, <2>2, <2>3, PrefixIsSums DEF before
  <2>5. Unpack(value') = Reduced(ref)
    <3>1. HInv'
      BY <1>6, ReturnInv
    <3>. QED  BY <2>1, <2>2, <3>1 DEF HInv, AgreeInv, Unpack
  <2>. QED  BY <1>0, <2>4, <2>5, ReducedAgrees
<1>. QED  BY <1>2, <1>3, <1>4, <1>5, <1>6 DEF HashStep

(* mvt_hash_init(), and the calls of mvt_hash_update().                    *)
LEMMA InitFollows ==
  ASSUME HInv, HashInit, NEW n \in Nat, NEW b \in Bytes(n)
  PROVE  Follows(b, 0)'
<1>1. hpc' = "idle" /\ value' = Pack(Sums(0, 0))
  BY DEF HashInit
<1>2. Unpack(value') = Sums(0, 0)
  <2>1. Sums(0, 0) \in SumsType /\ Sums(0, 0).s1 = 0 /\ Sums(0, 0).s2 = 0
    BY DEF Sums, SumsType
  <2>2. Pack(Sums(0, 0)).lo = 0 /\ Pack(Sums(0, 0)).hi = 0
    BY <2>1 DEF Pack
  <2>. QED  BY <1>1, <2>2 DEF Unpack
<1>3. 0 \in 0..n /\ Sums(0, 0) \in SumsType
  BY DEF Sums, SumsType
<1>4. Agree(Prefix(b, 0), Unpack(value'))
  BY <1>2, <1>3, PrefixIsSums, AgreeRefl
<1>. QED  BY <1>1, <1>4 DEF Follows

(* So does a call with a single byte.                                      *)
LEMMA ByteFollows ==
  ASSUME HInv, NEW data \in Data(1), UpdateByte(data),
         NEW n \in Nat, NEW b \in Bytes(n), NEW m \in Nat, m + 1 <= n, Follows(b, m),
         Reads(data, 0, b, m, 1)
  PROVE  Follows(b, m + 1)'
<1>1. /\ hpc = "idle" /\ hpc' = "idle" /\ narrow' = narrow
      /\ ref' = DO1(Unpack(value), data, 0)
  BY DEF UpdateByte
<1>2. SUFFICES ASSUME ~narrow PROVE Agree(Prefix(b, m + 1), Unpack(value'))
  BY <1>1 DEF Follows
<1>3. Unpack(value) \in SumsType /\ Agree(Prefix(b, m), Unpack(value))
  BY <1>1, <1>2, UnpackType DEF HInv, Follows
<1>4. Agree(Prefix(b, m + 1), ref') /\ ref' \in SumsType
  BY <1>1, <1>3, DO1Follows
<1>5. Unpack(value') = Reduced(ref')
  <2>1. HInv'
    BY UpdateByteInv
  <2>. QED  BY <1>1, <1>2, <2>1 DEF HInv, AgreeInv, Unpack
<1>6. Prefix(b, m + 1) \in SumsType
  BY PrefixIsSums
<1>. QED  BY <1>4, <1>5, <1>6, ReducedAgrees

(* And the start of a longer call.                                         *)
LEMMA StartFollows ==
  ASSUME HInv, NEW k \in Nat \ {0}, NEW misalignment \in 0..15,
         NEW data \in Data(k), Start(data, k, misalignment),
         NEW n \in Nat, NEW b \in Bytes(n), NEW m \in Nat, m + k <= n, Follows(b, m),
         Reads(data, 0, b, m, k)
  PROVE  Follows(b, m + k)'
<1>1. /\ hpc = "idle" /\ hpc' \in {"tail", "overrun", "loop"}
      /\ ref' = Unpack(value) /\ buf' = data /\ pos' = 0 /\ len' = k
      /\ narrow => narrow'
  BY DEF Start
<1>2. SUFFICES ASSUME ~narrow' PROVE Follows(b, m + k)'
  BY DEF Follows
<1>3. BytesLeft' = k
  BY <1>1 DEF BytesLeft
<1>4. Agree(Prefix(b, m), ref')
  BY <1>1, <1>2 DEF Follows
<1>5. (m + k) - k = m
  OBVIOUS
<1>. QED  BY <1>1, <1>3, <1>4, <1>5 DEF Follows
=============================================================================
