------------------------ MODULE SurfaceQueue_proofs ------------------------
(***************************************************************************)
(* Proofs about SurfaceQueue, for any number of surfaces and any sequence  *)
(* of formats.                                                             *)
(***************************************************************************)
EXTENDS SurfaceQueue, FiniteSetTheorems, TLAPS

USE DEF EmptyHead, AdvanceHead, AdvanceTail, ClearRing

(* The two indices move like the hand of a clock with queueLength hours.   *)
LEMMA ModuloSuccessor ==
  ASSUME NEW n \in Nat, NEW i \in 0..(n - 1)
  PROVE  (i + 1) % n = IF i = n - 1 THEN 0 ELSE i + 1
<1>1. CASE i = n - 1
  BY <1>1
<1>2. CASE i # n - 1
  BY <1>2
<1>. QED  BY <1>1, <1>2

-----------------------------------------------------------------------------
(* The inductive invariant adds three facts to the properties checked by   *)
(* TLC: the set in use is finite, so that it can be counted; the array of  *)
(* surfaces is at least as long as the ring; a ring that serves buffers    *)
(* has a slot.                                                             *)
Sizes ==
  /\ queueLength <= numSurfaces
  /\ status = "ready" => queueLength > 0

IInv ==
  /\ TypeOK
  /\ Sizes
  /\ IsFiniteSet(inUse)
  /\ RingConsistent
  /\ OnePlace

LEMMA InitIInv == Init => IInv
<1>. SUFFICES ASSUME Init PROVE IInv
  OBVIOUS
<1>1. TypeOK /\ Sizes
  BY DEF Init, TypeOK, Sizes, Surface, Invalid
<1>2. IsFiniteSet(inUse)
  BY FS_EmptySet DEF Init
<1>. QED
  BY <1>1, <1>2 DEF Init, IInv, RingConsistent, OnePlace

-----------------------------------------------------------------------------
(* get_format()                                                            *)

(* The identities given to n new surfaces when k exist already.            *)
LEMMA NewSurfaces ==
  ASSUME NEW n \in Nat, NEW k \in Nat
  PROVE  /\ [i \in 1..n |-> k + i] \in Seq(Surface)
         /\ {k + i : i \in 1..n} \in SUBSET Surface
         /\ k + n \in Nat
<1>1. \A i \in 1..n : k + i \in Surface
  BY DEF Surface, Invalid
<1>. QED  BY <1>1

(* A ring filled with them has no empty slot and no surface twice.         *)
LEMMA FullRing ==
  ASSUME NEW k \in Nat, NEW n \in Nat, NEW i \in 0..(n - 1)
  PROVE  /\ k + i + 1 \in Surface
         /\ \A j \in 0..(n - 1) : k + i + 1 = k + j + 1 => i = j
  BY DEF Surface, Invalid

(* A new format leaves a full ring of distinct surfaces and nothing in use.*)
LEMMA GetFormatIInv ==
  ASSUME IInv, NEW refs \in Refs, GetFormat(refs)
  PROVE  IInv'
<1>1. SurfacesFor(refs) \in Nat /\ SurfacesFor(refs) > 0
  BY SurfaceQueueAssumption DEF SurfacesFor
<1>2. /\ numSurfaces' \in Nat /\ queueLength' \in Nat
      /\ queueLength' > 0 /\ queueLength' <= numSurfaces'
  BY <1>1 DEF GetFormat, GrowSurfaces, GrowQueue, Larger, IInv, TypeOK, Sizes
<1>. DEFINE m == numSurfaces'
            n == queueLength'
            f == ring'
<1>3. m \in Nat /\ n \in Nat /\ n > 0 /\ n <= m /\ created \in Nat
  BY <1>2 DEF IInv, TypeOK
<1>4. f = [i \in 0..(n - 1) |-> IF i < m THEN created + i + 1 ELSE Invalid]
  BY DEF GetFormat, FillRing
<1>5. /\ surfaces' = [i \in 1..m |-> created + i]
      /\ live' = live \cup {created + i : i \in 1..m}
      /\ created' = created + m
  BY DEF GetFormat, CreateSurfaces
<1>6. /\ head' = 0 /\ tail' = 0
      /\ inUse' = {} /\ Cardinality(inUse') = 0 /\ IsFiniteSet(inUse')
  BY FS_EmptySet DEF GetFormat, FillRing, Negotiates
<1>. HIDE DEF m, n, f
<1>7. f = [i \in 0..(n - 1) |-> created + i + 1]
  <2>1. \A i \in 0..(n - 1) : i < m
    BY <1>3
  <2>. QED  BY <1>4, <2>1
<1>8. /\ f \in [0..(n - 1) -> Nat]
      /\ \A i \in 0..(n - 1) : f[i] # Invalid
      /\ \A i, j \in 0..(n - 1) : f[i] = f[j] => i = j
  <2>1. \A i \in 0..(n - 1) :
          /\ created + i + 1 \in Surface
          /\ \A j \in 0..(n - 1) : created + i + 1 = created + j + 1 => i = j
    BY <1>3, FullRing
  <2>2. \A i \in 0..(n - 1) : f[i] = created + i + 1
    BY <1>7
  <2>. QED  BY <1>7, <2>1, <2>2 DEF Surface
<1>9. /\ [i \in 1..m |-> created + i] \in Seq(Surface)
      /\ {created + i : i \in 1..m} \in SUBSET Surface
      /\ created + m \in Nat
  BY <1>3, NewSurfaces
<1>10. TypeOK'
  <2>1. surfaces' \in Seq(Surface) /\ live' \in SUBSET Surface /\ created' \in Nat
    BY <1>5, <1>9 DEF IInv, TypeOK
  <2>2. ring' \in [0..(queueLength' - 1) -> Nat]
    BY <1>8 DEF f, n
  <2>3. surfCap' \in Nat /\ queueCap' \in Nat
    BY <1>1 DEF GetFormat, GrowSurfaces, GrowQueue
  <2>4. status' \in {"fresh", "ready", "failed", "closed"}
    BY DEF GetFormat
  <2>5. head' \in Nat /\ tail' \in Nat /\ inUse' \in SUBSET Surface
    BY <1>6
  <2>. QED
    BY <1>2, <2>1, <2>2, <2>3, <2>4, <2>5 DEF TypeOK
<1>11. \A i \in Slots' : ring'[i] # Invalid
  BY <1>8 DEF f, n, Slots
<1>12. RingConsistent'
  <2>1. 0 \in Slots'
    <3>1. 0 \in 0..(n - 1)
      BY <1>3
    <3>. QED  BY <3>1 DEF n, Slots
  <2>2. Gap' = 0 /\ \A i \in Slots' : ~EmptySlot(i)'
    BY <1>6, <1>11, <2>1 DEF EmptySlot, Gap
  <2>. QED
    BY <1>6, <1>11, <2>1, <2>2 DEF RingConsistent
<1>13. OnePlace'
  BY <1>6, <1>8 DEF OnePlace, Slots, f, n
<1>. QED  BY <1>2, <1>6, <1>10, <1>12, <1>13 DEF IInv, Sizes

(* The realloc() of the surfaces array may truncate what it holds.         *)
LEMMA TruncateType ==
  ASSUME surfaces \in Seq(Surface), NEW n \in Nat, TruncateSurfaces(n)
  PROVE  surfaces' \in Seq(Surface)
<1>1. CASE Len(surfaces) > n
  <2>1. surfaces' = [i \in 1..n |-> surfaces[i]]
    BY <1>1 DEF TruncateSurfaces
  <2>2. \A i \in 1..n : surfaces[i] \in Surface
    BY <1>1
  <2>. QED  BY <2>1, <2>2
<1>2. CASE ~(Len(surfaces) > n)
  BY <1>2 DEF TruncateSurfaces
<1>. QED  BY <1>1, <1>2

(* A failed format leaves a consistent state: no buffer is served then.    *)
LEMMA FailedFormatIInv ==
  ASSUME IInv, NEW refs \in Refs,
         \/ GetFormatRejected(refs)
         \/ GetFormatNoQueue(refs)
         \/ GetFormatNoSurfaces(refs)
  PROVE  IInv'
<1>. DEFINE n == SurfacesFor(refs)
<1>1. n \in Nat /\ n > 0
  BY SurfaceQueueAssumption DEF SurfacesFor
<1>2. status' = "failed" /\ inUse' = inUse
  BY DEF GetFormatRejected, GetFormatNoQueue, GetFormatNoSurfaces
<1>3. TypeOK' /\ queueLength' <= numSurfaces'
  <2>1. CASE GetFormatRejected(refs)
    BY <2>1 DEF GetFormatRejected, arrayVars, ringVars, IInv, TypeOK, Sizes
  <2>2. CASE GetFormatNoQueue(refs)
    <3>1. surfaces' \in Seq(Surface)
      BY <1>1, <2>2, TruncateType DEF GetFormatNoQueue, IInv, TypeOK
    <3>. QED
      BY <1>1, <2>2, <3>1
         DEF GetFormatNoQueue, GrowSurfaces, Larger, ringVars, IInv, TypeOK,
             Sizes
  <2>3. CASE GetFormatNoSurfaces(refs)
    <3>1. surfaces' \in Seq(Surface)
      BY <2>3 DEF GetFormatNoSurfaces
    <3>2. /\ queueLength' \in Nat /\ numSurfaces' \in Nat
          /\ queueLength' <= numSurfaces'
      BY <1>1, <2>3 DEF GetFormatNoSurfaces, GrowSurfaces, GrowQueue, Larger,
         IInv, TypeOK, Sizes
    <3>3. ring' \in [0..(queueLength' - 1) -> Nat]
      BY <2>3 DEF GetFormatNoSurfaces, ClearRing, Invalid
    <3>. QED
      BY <1>1, <2>3, <3>1, <3>2, <3>3
         DEF GetFormatNoSurfaces, GrowSurfaces, GrowQueue, IInv, TypeOK
  <2>. QED  BY <2>1, <2>2, <2>3
<1>. QED
  BY <1>2, <1>3 DEF IInv, Sizes, RingConsistent, OnePlace

-----------------------------------------------------------------------------
(* get_buffer()                                                            *)

(* The head moves to the next slot, cyclically.                            *)
LEMMA AcquireHead ==
  ASSUME IInv, Acquire
  PROVE  /\ queueLength \in Nat /\ queueLength > 0
         /\ head \in Slots /\ tail \in Slots
         /\ head' = IF head = queueLength - 1 THEN 0 ELSE head + 1
         /\ ring \in [Slots -> Nat] /\ ring[head] \in Surface
         /\ ring' = [ring EXCEPT ![head] = Invalid]
         /\ UNCHANGED <<status, tail, queueLength>>
         /\ status = "ready"
<1>1. /\ status = "ready" /\ ring[head] # Invalid
      /\ queueLength \in Nat /\ queueLength > 0
      /\ head \in Slots /\ tail \in Slots
      /\ ring \in [Slots -> Nat]
  BY DEF Acquire, IInv, TypeOK, Sizes, RingConsistent, Slots
<1>2. head' = IF head = queueLength - 1 THEN 0 ELSE head + 1
  BY <1>1, ModuloSuccessor DEF Acquire, Advance, Slots
<1>. QED
  BY <1>1, <1>2 DEF Acquire, arrayVars, Surface

LEMMA AcquireIInv ==
  ASSUME IInv, Acquire
  PROVE  IInv'
<1>. USE AcquireHead
<1>1. ring[head] \notin inUse
  BY DEF IInv, OnePlace
<1>2. /\ inUse' = inUse \cup {ring[head]}
      /\ IsFiniteSet(inUse')
      /\ Cardinality(inUse') = Cardinality(inUse) + 1
  BY <1>1, FS_AddElement DEF IInv, Acquire
<1>3. TypeOK' /\ Sizes'
  BY <1>2 DEF IInv, TypeOK, Sizes, Acquire, arrayVars, Slots, Invalid
<1>4. RingConsistent'
  <2>1. head' \in Slots /\ tail' \in Slots
    BY DEF Slots
  <2>2. ~EmptySlot(head)
    BY DEF IInv, RingConsistent, Surface
  <2>3. \A i \in Slots : ring[i] = Invalid <=> EmptySlot(i)
    BY DEF IInv, RingConsistent
  <2>4. \A i \in Slots : ring'[i] = Invalid <=> i = head \/ ring[i] = Invalid
    OBVIOUS
  <2>5. \A i \in Slots : EmptySlot(i)' <=> i = head \/ EmptySlot(i)
    <3>1. CASE head = tail
      BY <2>2, <2>4, <3>1 DEF EmptySlot, Slots
    <3>2. CASE head # tail
      BY <2>2, <2>3, <2>4, <3>2 DEF EmptySlot, Slots
    <3>. QED  BY <3>1, <3>2
  <2>6. Gap' = Gap + 1
    <3>1. CASE head = tail
      <4>1. Gap = 0
        BY <2>2, <3>1 DEF EmptySlot, Gap
      <4>2. CASE head' = tail'
        BY <2>1, <2>4, <3>1, <4>1, <4>2 DEF Gap, Slots
      <4>3. CASE head' # tail'
        BY <3>1, <4>1, <4>3 DEF Gap, Slots
      <4>. QED  BY <4>2, <4>3
    <3>2. CASE head # tail
      BY <2>2, <2>3, <2>4, <3>2 DEF EmptySlot, Gap, Slots
    <3>. QED  BY <3>1, <3>2
  <2>7. Cardinality(inUse') = Gap'
    BY <1>2, <2>6 DEF IInv, RingConsistent
  <2>. QED
    BY <2>1, <2>3, <2>4, <2>5, <2>7 DEF RingConsistent, Slots
<1>5. OnePlace'
  <2>1. \A i \in Slots : i # head => ring'[i] = ring[i] /\ ring[i] # ring[head]
    BY DEF IInv, OnePlace, Surface
  <2>2. ring'[head] = Invalid /\ Invalid \notin inUse'
    BY <1>3 DEF TypeOK, Surface
  <2>3. \A i \in Slots : ring'[i] \notin inUse'
    BY <1>2, <2>1, <2>2 DEF IInv, OnePlace
  <2>4. \A i, j \in Slots : ring'[i] # Invalid /\ ring'[i] = ring'[j] => i = j
    BY <2>1, <2>2 DEF IInv, OnePlace
  <2>. QED
    BY <2>3, <2>4 DEF OnePlace, Slots
<1>. QED  BY <1>2, <1>3, <1>4, <1>5 DEF IInv

-----------------------------------------------------------------------------
(* release_buffer()                                                        *)

(* A surface in use leaves an empty slot, and the tail is at one.          *)
LEMMA TailEmpty ==
  ASSUME IInv, status = "ready", inUse # {}
  PROVE  ring[tail] = Invalid
<1>1. /\ queueLength \in Nat /\ head \in Slots /\ tail \in Slots
      /\ \A i \in Slots : ring[i] = Invalid <=> EmptySlot(i)
      /\ Cardinality(inUse) = Gap
  BY DEF IInv, TypeOK, RingConsistent
<1>2. Gap # 0
  BY <1>1, FS_EmptySet DEF IInv
<1>3. CASE head = tail
  BY <1>2, <1>3 DEF Gap
<1>4. CASE head # tail
  <2>1. EmptySlot(tail)
    BY <1>1, <1>4 DEF EmptySlot, Slots
  <2>. QED  BY <1>1, <2>1
<1>. QED  BY <1>3, <1>4

LEMMA ReleaseTail ==
  ASSUME IInv, NEW s \in inUse, Release(s)
  PROVE  /\ queueLength \in Nat /\ queueLength > 0
         /\ head \in Slots /\ tail \in Slots
         /\ tail' = IF tail = queueLength - 1 THEN 0 ELSE tail + 1
         /\ ring \in [Slots -> Nat] /\ ring[tail] = Invalid
         /\ s \in Surface
         /\ ring' = [ring EXCEPT ![tail] = s]
         /\ UNCHANGED <<status, head, queueLength>>
         /\ status = "ready"
<1>1. /\ status = "ready" /\ ring[tail] = Invalid
      /\ queueLength \in Nat /\ queueLength > 0
      /\ head \in Slots /\ tail \in Slots
      /\ ring \in [Slots -> Nat] /\ s \in Surface
  BY TailEmpty DEF Release, IInv, TypeOK, Sizes, RingConsistent, Slots
<1>2. tail' = IF tail = queueLength - 1 THEN 0 ELSE tail + 1
  BY <1>1, ModuloSuccessor DEF Release, Advance, Slots
<1>. QED
  BY <1>1, <1>2 DEF Release, arrayVars

(* The surface given back fills the first of the empty slots.              *)
LEMMA ReleaseIInv ==
  ASSUME IInv, NEW s \in inUse, Release(s)
  PROVE  IInv'
<1>. USE ReleaseTail
<1>1. /\ inUse' = inUse \ {s}
      /\ IsFiniteSet(inUse')
      /\ Cardinality(inUse') = Cardinality(inUse) - 1
  BY FS_RemoveElement DEF IInv, Release
<1>2. TypeOK' /\ Sizes'
  <2>1. ring' \in [Slots -> Nat] /\ tail' \in Nat
    BY DEF Surface, Slots
  <2>2. inUse' \in SUBSET Surface
    BY <1>1 DEF IInv, TypeOK
  <2>. QED
    BY <2>1, <2>2 DEF IInv, TypeOK, Sizes, Release, arrayVars, Slots
<1>3. RingConsistent'
  <2>1. head' \in Slots /\ tail' \in Slots
    BY DEF Slots
  <2>2. EmptySlot(tail)
    BY DEF IInv, RingConsistent
  <2>3. \A i \in Slots : ring[i] = Invalid <=> EmptySlot(i)
    BY DEF IInv, RingConsistent
  <2>4. \A i \in Slots : ring'[i] = Invalid <=> i # tail /\ ring[i] = Invalid
    BY DEF Surface
  <2>5. \A i \in Slots : EmptySlot(i)' <=> i # tail /\ EmptySlot(i)
    <3>1. CASE head = tail
      BY <2>2, <2>3, <2>4, <3>1 DEF EmptySlot, Slots
    <3>2. CASE head # tail
      BY <2>2, <2>3, <2>4, <3>2 DEF EmptySlot, Slots
    <3>. QED  BY <3>1, <3>2
  <2>6. Gap' = Gap - 1
    <3>1. CASE head = tail
      <4>1. Gap = queueLength
        BY <3>1 DEF Gap
      <4>2. CASE head' = tail'
        BY <2>1, <2>4, <3>1, <4>1, <4>2 DEF Gap, Slots
      <4>3. CASE head' # tail'
        BY <3>1, <4>1, <4>3 DEF Gap, Slots
      <4>. QED  BY <4>2, <4>3
    <3>2. CASE head # tail
      <4>1. CASE head' = tail'
        BY <2>3, <2>4, <3>2, <4>1 DEF EmptySlot, Gap, Slots
      <4>2. CASE head' # tail'
        BY <3>2, <4>2 DEF Gap, Slots
      <4>. QED  BY <4>1, <4>2
    <3>. QED  BY <3>1, <3>2
  <2>7. Cardinality(inUse') = Gap'
    BY <1>1, <2>6 DEF IInv, RingConsistent
  <2>. QED
    BY <2>1, <2>3, <2>4, <2>5, <2>7 DEF RingConsistent, Slots
<1>4. OnePlace'
  <2>1. ring'[tail] = s /\ \A i \in Slots : i # tail => ring'[i] = ring[i]
    OBVIOUS
  <2>2. \A i \in Slots : ring[i] # s
    BY DEF IInv, OnePlace
  <2>3. \A i \in Slots : ring'[i] \notin inUse'
    BY <1>1, <2>1 DEF IInv, OnePlace
  <2>4. \A i, j \in Slots : ring'[i] # Invalid /\ ring'[i] = ring'[j] => i = j
    BY <2>1, <2>2 DEF IInv, OnePlace
  <2>. QED
    BY <2>3, <2>4 DEF OnePlace, Slots
<1>. QED  BY <1>1, <1>2, <1>3, <1>4 DEF IInv

-----------------------------------------------------------------------------
(* decoder_vaapi_finalize()                                                *)

LEMMA FinalizeIInv ==
  ASSUME IInv, Finalize
  PROVE  IInv'
<1>1. TypeOK'
  BY DEF IInv, TypeOK, Finalize, Invalid
<1>. QED
  BY <1>1 DEF IInv, Finalize, Sizes, RingConsistent, OnePlace

LEMMA NextIInv == IInv /\ [Next]_vars => IInv'
<1>. SUFFICES ASSUME IInv, [Next]_vars PROVE IInv'
  OBVIOUS
<1>1. ASSUME NEW refs \in Refs, GetFormat(refs) PROVE IInv'
  BY <1>1, GetFormatIInv
<1>2. ASSUME NEW refs \in Refs,
             \/ GetFormatRejected(refs)
             \/ GetFormatNoQueue(refs)
             \/ GetFormatNoSurfaces(refs)
      PROVE  IInv'
  BY <1>2, FailedFormatIInv
<1>3. CASE Acquire
  BY <1>3, AcquireIInv
<1>7. CASE AcquireFails
  BY <1>7 DEF AcquireFails, arrayVars, ringVars, IInv, TypeOK, Sizes,
     RingConsistent, Slots, EmptySlot, Gap, OnePlace
<1>4. ASSUME NEW s \in inUse, Release(s) PROVE IInv'
  BY <1>4, ReleaseIInv
<1>5. CASE Finalize
  BY <1>5, FinalizeIInv
<1>6. CASE UNCHANGED vars
  BY <1>6 DEF vars, arrayVars, ringVars, IInv, TypeOK, Sizes, RingConsistent,
     Slots, EmptySlot, Gap, OnePlace
<1>. QED
  BY <1>1, <1>2, <1>3, <1>4, <1>5, <1>6, <1>7 DEF Next, Terminated

-----------------------------------------------------------------------------
(* The properties that TLC checks on small rings, for every ring.          *)

THEOREM Invariance == Spec => []IInv
  BY InitIInv, NextIInv, PTL DEF Spec

(* Every index, count and slot has the type its code gives it.             *)
THEOREM TypeCorrect == Spec => []TypeOK
<1>1. IInv => TypeOK
  BY DEF IInv
<1>. QED  BY <1>1, Invariance, PTL

(* vaapi_acquire_surface() and vaapi_release_surface() keep the empty      *)
(* slots in one run from the tail to the head, one for each surface that   *)
(* FFmpeg holds.                                                           *)
THEOREM RingStaysConsistent == Spec => []RingConsistent
<1>1. IInv => RingConsistent
  BY DEF IInv
<1>. QED  BY <1>1, Invariance, PTL

(* A surface handed out by get_buffer() is never handed out again before   *)
(* release_buffer() has taken it back: no two frames share one.            *)
THEOREM SurfacesNeverShared == Spec => []OnePlace
<1>1. IInv => OnePlace
  BY DEF IInv
<1>. QED  BY <1>1, Invariance, PTL

(* The failure of vaapi_release_surface(), which release_buffer() ignores, *)
(* never happens.                                                          *)
THEOREM ReleaseAlwaysSucceeds == Spec => []NoReleaseDropped
<1>1. IInv => NoReleaseDropped
  BY TailEmpty DEF NoReleaseDropped
<1>. QED  BY <1>1, Invariance, PTL

(* get_buffer() reports that no surface is free only when FFmpeg holds     *)
(* every one of them.                                                      *)
THEOREM AcquireFailureIsExhaustion == Spec => []AcquireFailsOnlyWhenExhausted
<1>1. ASSUME IInv PROVE AcquireFailsOnlyWhenExhausted
  <2>1. SUFFICES ASSUME status = "ready", ring[head] = Invalid
                 PROVE  Cardinality(inUse) = queueLength
    BY DEF AcquireFailsOnlyWhenExhausted
  <2>2. EmptySlot(head) /\ Cardinality(inUse) = Gap
    BY <1>1, <2>1 DEF IInv, RingConsistent
  <2>3. head = tail
    BY <1>1, <2>1, <2>2 DEF IInv, TypeOK, EmptySlot
  <2>. QED
    BY <2>1, <2>2, <2>3 DEF Gap
<1>2. IInv => AcquireFailsOnlyWhenExhausted
  BY <1>1
<1>. QED  BY <1>2, Invariance, PTL

-----------------------------------------------------------------------------
(* The ring implements the pool.                                           *)

PoolFree == IF status = "ready" THEN FreeSurfaces ELSE {}

LEMMA FreeSurfacesType == TypeOK => FreeSurfaces \in SUBSET Surface
  BY DEF TypeOK, FreeSurfaces, Slots, Surface

(* get_buffer() takes exactly one surface out of the free ones.            *)
LEMMA AcquireTakes ==
  ASSUME IInv, Acquire
  PROVE  /\ ring[head] \in FreeSurfaces
         /\ FreeSurfaces' = FreeSurfaces \ {ring[head]}
         /\ inUse' = inUse \cup {ring[head]}
<1>. USE AcquireHead
<1>1. Slots' = Slots /\ ring[head] # Invalid
  BY DEF Slots, Surface
<1>2. \A i \in Slots : IF i = head THEN ring'[i] = Invalid
                                   ELSE ring'[i] = ring[i]
  OBVIOUS
<1>3. \A i \in Slots : ring[i] = ring[head] => i = head
  BY <1>1 DEF IInv, OnePlace
<1>. QED
  BY <1>1, <1>2, <1>3 DEF FreeSurfaces, Acquire

(* release_buffer() adds exactly the surface given back.                   *)
LEMMA ReleaseGives ==
  ASSUME IInv, NEW s \in inUse, Release(s)
  PROVE  /\ FreeSurfaces' = FreeSurfaces \cup {s}
         /\ inUse' = inUse \ {s}
<1>. USE ReleaseTail
<1>1. Slots' = Slots /\ s # Invalid
  BY DEF Slots, Surface
<1>2. \A i \in Slots : IF i = tail THEN ring'[i] = s
                                   ELSE ring'[i] = ring[i]
  OBVIOUS
<1>. QED
  BY <1>1, <1>2 DEF FreeSurfaces, Release

(* get_buffer() fails only when the ring is empty.                         *)
LEMMA FailureMeansEmpty ==
  ASSUME IInv, AcquireFails
  PROVE  FreeSurfaces = {} /\ UNCHANGED <<status, inUse, FreeSurfaces>>
<1>1. /\ head \in Slots
      /\ \A i \in Slots : ring[i] = Invalid <=> EmptySlot(i)
  BY DEF AcquireFails, IInv, RingConsistent
<1>2. EmptySlot(head) /\ ring[head] = Invalid
  BY <1>1 DEF AcquireFails
<1>3. head = tail
  BY <1>1, <1>2 DEF IInv, TypeOK, EmptySlot
<1>4. \A i \in Slots : ring[i] = Invalid
  BY <1>1, <1>2, <1>3 DEF EmptySlot
<1>. QED
  BY <1>4 DEF AcquireFails, FreeSurfaces, Slots, arrayVars, ringVars

(* vaapi_init_decoder() puts the surfaces of the array in the ring, slot   *)
(* by slot.                                                                *)
LEMMA GetFormatFills ==
  ASSUME IInv, NEW refs \in Refs, GetFormat(refs)
  PROVE  Conservation'
<1>1. SurfacesFor(refs) \in Nat
  BY SurfaceQueueAssumption DEF SurfacesFor
<1>2. /\ numSurfaces' \in Nat /\ queueLength' \in Nat
      /\ queueLength' <= numSurfaces'
  BY <1>1 DEF GetFormat, GrowSurfaces, GrowQueue, Larger, IInv, TypeOK, Sizes
<1>. DEFINE m == numSurfaces'
            n == queueLength'
            f == ring'
            a == surfaces'
<1>3. m \in Nat /\ n \in Nat /\ n <= m /\ created \in Nat /\ inUse' = {}
  BY <1>2 DEF IInv, TypeOK, GetFormat, Negotiates
<1>4. /\ f = [i \in 0..(n - 1) |-> IF i < m THEN created + i + 1 ELSE Invalid]
      /\ a = [i \in 1..m |-> created + i]
  BY DEF GetFormat, FillRing, CreateSurfaces
<1>5. Conservation' <=> (status' = "ready" =>
        {f[i] : i \in {j \in 0..(n - 1) : f[j] # Invalid}} = {a[i] : i \in 1..n})
  BY <1>3 DEF Conservation, FreeSurfaces, Slots
<1>. HIDE DEF m, n, f, a
<1>6. \A i \in 0..(n - 1) : /\ f[i] = created + i + 1
                            /\ f[i] # Invalid
                            /\ i + 1 \in 1..n
                            /\ a[i + 1] = f[i]
  <2>1. \A i \in 0..(n - 1) : i < m /\ i + 1 \in 1..m /\ i + 1 \in 1..n
    BY <1>3
  <2>2. \A i \in 0..(n - 1) : f[i] = created + i + 1
    BY <1>4, <2>1
  <2>3. \A i \in 0..(n - 1) : a[i + 1] = created + (i + 1)
    BY <1>4, <2>1
  <2>4. \A i \in 0..(n - 1) : /\ created + (i + 1) = created + i + 1
                              /\ created + i + 1 # Invalid
    BY <1>3 DEF Invalid
  <2>. QED  BY <2>1, <2>2, <2>3, <2>4
<1>7. \A k \in 1..n : k - 1 \in 0..(n - 1) /\ (k - 1) + 1 = k
  BY <1>3
<1>. QED
  BY <1>5, <1>6, <1>7

(* Nor does a surface get lost: each one of the current format is in the   *)
(* ring or with FFmpeg, whatever order FFmpeg gives them back in.          *)
THEOREM NoSurfaceLost == Spec => []Conservation
<1>1. Init => Conservation
  BY DEF Init, Conservation
<1>2. ASSUME IInv, Conservation, [Next]_vars
      PROVE  Conservation'
  <2>1. ASSUME NEW refs \in Refs, GetFormat(refs) PROVE Conservation'
    BY <1>2, <2>1, GetFormatFills
  <2>2. CASE status' # "ready"
    BY <2>2 DEF Conservation
  <2>3. CASE Acquire
    <3>1. UNCHANGED <<status, surfaces, queueLength>> /\ status = "ready"
      BY <2>3 DEF Acquire, arrayVars
    <3>2. FreeSurfaces' \cup inUse' = FreeSurfaces \cup inUse
      BY <1>2, <2>3, AcquireTakes
    <3>. QED  BY <1>2, <3>1, <3>2 DEF Conservation
  <2>4. ASSUME NEW s \in inUse, Release(s) PROVE Conservation'
    <3>1. UNCHANGED <<status, surfaces, queueLength>> /\ status = "ready"
      BY <2>4 DEF Release, arrayVars
    <3>2. FreeSurfaces' \cup inUse' = FreeSurfaces \cup inUse
      BY <1>2, <2>4, ReleaseGives
    <3>. QED  BY <1>2, <3>1, <3>2 DEF Conservation
  <2>5. CASE AcquireFails \/ UNCHANGED vars
    BY <1>2, <2>5 DEF AcquireFails, vars, arrayVars, ringVars, Conservation,
       FreeSurfaces, Slots
  <2>. QED
    BY <1>2, <2>1, <2>2, <2>3, <2>4, <2>5
       DEF Next, Terminated, GetFormatRejected, GetFormatNoQueue,
           GetFormatNoSurfaces, Finalize
<1>. QED
  BY <1>1, <1>2, Invariance, PTL DEF Spec

(* Every step of the ring is a step of the pool or leaves it unchanged:    *)
(* vaapi_acquire_surface() takes, or fails when nothing is free,           *)
(* vaapi_release_surface() gives back, and get_format() and                *)
(* decoder_vaapi_finalize() configure the pool anew.                       *)
THEOREM RingImplementsPool == Spec => ImplementsPool
<1>. USE DEF Pool!PoolInit, Pool!PoolNext, Pool!poolVars, Pool!Configure,
             Pool!Take, Pool!Refuse, Pool!Give, Pool!Surface
<1>1. Init => Pool!PoolInit
  BY DEF Init
<1>2. ASSUME IInv, IInv', [Next]_vars
      PROVE  [Pool!PoolNext]_(Pool!poolVars)
  <2>1. PoolFree' \in SUBSET (Nat \ {0})
    BY <1>2, FreeSurfacesType DEF PoolFree, IInv, Surface, Invalid, TypeOK,
       FreeSurfaces, Slots
  <2>2. CASE inUse = {} /\ inUse' = inUse /\ reply' = "none"
    BY <2>1, <2>2 DEF PoolFree
  <2>3. CASE Acquire
    <3>1. status = "ready" /\ status' = "ready" /\ reply' = "surface"
      BY <2>3 DEF Acquire
    <3>. QED
      BY <1>2, <2>3, <3>1, AcquireTakes
  <2>4. ASSUME NEW s \in inUse, Release(s)
        PROVE  Pool!Give
    <3>1. status = "ready" /\ status' = "ready" /\ reply' = "none"
      BY <2>4 DEF Release
    <3>. QED
      BY <1>2, <2>4, <3>1, ReleaseGives
  <2>5. CASE UNCHANGED vars
    BY <2>5 DEF vars, arrayVars, ringVars, FreeSurfaces, Slots
  <2>6. CASE AcquireFails
    <3>1. /\ status = "ready" /\ status' = "ready" /\ reply' = "failure"
          /\ FreeSurfaces = {} /\ FreeSurfaces' = {} /\ inUse' = inUse
      BY <1>2, <2>6, FailureMeansEmpty DEF AcquireFails
    <3>. QED  BY <3>1
  <2>. QED
    BY <1>2, <2>2, <2>3, <2>4, <2>5, <2>6
       DEF Next, Terminated, GetFormat, GetFormatRejected, GetFormatNoQueue,
           GetFormatNoSurfaces, Negotiates, Finalize
<1>. QED
  BY <1>1, <1>2, Invariance, PTL DEF Spec, ImplementsPool, Pool!PoolSpec
-----------------------------------------------------------------------------
(* The array of surfaces holds the latest ones created and, while the      *)
(* decoder is in service, no element that was never stored; as long as no  *)
(* format needs fewer surfaces than an earlier one, which would have       *)
(* realloc() cut off the end of the array.                                 *)
ArrayInv ==
  /\ Len(surfaces) <= numSurfaces
  /\ status = "ready" => Filled
  /\ \A s \in live : s <= created
  /\ \A s \in live : \A i \in DOMAIN surfaces :
        s \in Identities \/ s < surfaces[i]

LEMMA InitArray == Init => ArrayInv
  BY DEF Init, ArrayInv

LEMMA NewSurfacesAreLatest ==
  ASSUME TypeOK, ArrayInv, NEW refs \in Refs, GetFormat(refs)
  PROVE  ArrayInv'
<1>. DEFINE n == numSurfaces'
<1>1. n \in Nat
  BY SurfaceQueueAssumption
     DEF GetFormat, GrowSurfaces, Larger, SurfacesFor, TypeOK
<1>2. /\ surfaces' = [i \in 1..n |-> created + i]
      /\ live' = live \cup {created + i : i \in 1..n}
      /\ created' = created + n
  BY DEF GetFormat, CreateSurfaces
<1>3. Filled' <=> Len(surfaces') = n
  BY DEF Filled
<1>. HIDE DEF n
<1>4. Len(surfaces') <= numSurfaces' /\ Filled'
  <2>1. Len(surfaces') = n
    BY <1>1, <1>2
  <2>. QED  BY <1>1, <1>3, <2>1 DEF n
<1>5. \A s \in live' : s <= created'
  BY <1>1, <1>2 DEF ArrayInv, TypeOK, Surface
<1>6. ASSUME NEW s \in live', NEW i \in DOMAIN surfaces'
      PROVE  s \in Identities' \/ s < surfaces'[i]
  <2>1. CASE s \in live
    BY <1>1, <1>2, <1>6, <2>1 DEF ArrayInv, TypeOK, Surface
  <2>2. CASE s \in {created + j : j \in 1..n}
    BY <1>1, <1>2, <2>2 DEF Identities
  <2>. QED  BY <1>2, <2>1, <2>2
<1>. QED  BY <1>4, <1>5, <1>6 DEF ArrayInv

(* A format that fails before it creates surfaces leaves those it had in   *)
(* the array, or an array of which nothing is known.                       *)
LEMMA FailedFormatArray ==
  ASSUME ~Shrinks, TypeOK, ArrayInv, NEW refs \in Refs,
         \/ GetFormatRejected(refs)
         \/ GetFormatNoQueue(refs)
         \/ GetFormatNoSurfaces(refs)
  PROVE  ArrayInv'
<1>1. /\ Negotiates(refs) /\ status' = "failed"
      /\ UNCHANGED <<live, created>>
  BY DEF GetFormatRejected, GetFormatNoQueue, GetFormatNoSurfaces
<1>2. SurfacesFor(refs) \in Nat /\ SurfacesFor(refs) >= numSurfaces
  BY <1>1, SurfaceQueueAssumption DEF Negotiates, SurfacesFor
<1>3. Len(surfaces) \in Nat /\ numSurfaces \in Nat
  BY DEF TypeOK
<1>4. CASE GetFormatRejected(refs)
  BY <1>1, <1>4 DEF GetFormatRejected, arrayVars, ArrayInv, Identities
<1>5. CASE GetFormatNoQueue(refs)
  <2>1. surfaces' = surfaces
    BY <1>2, <1>3, <1>5 DEF GetFormatNoQueue, TruncateSurfaces, ArrayInv
  <2>2. numSurfaces' \in Nat /\ numSurfaces' >= numSurfaces
    BY <1>2, <1>3, <1>5 DEF GetFormatNoQueue, GrowSurfaces, Larger
  <2>3. Len(surfaces') <= numSurfaces'
    BY <1>3, <2>1, <2>2 DEF ArrayInv
  <2>. QED  BY <1>1, <2>1, <2>3 DEF ArrayInv, Identities
<1>6. CASE GetFormatNoSurfaces(refs)
  <2>1. surfaces' = <<>> /\ numSurfaces' \in Nat
    BY <1>2, <1>3, <1>6 DEF GetFormatNoSurfaces, GrowSurfaces, Larger
  <2>. QED  BY <1>1, <2>1 DEF ArrayInv
<1>. QED  BY <1>4, <1>5, <1>6

LEMMA FinalizeEmptiesArray ==
  ASSUME TypeOK, ArrayInv, Finalize
  PROVE  ArrayInv'
  BY DEF Finalize, ArrayInv

LEMMA NextArray ==
  ASSUME ~Shrinks, TypeOK, ArrayInv, [Next]_vars
  PROVE  ArrayInv'
<1>1. ASSUME NEW refs \in Refs, GetFormat(refs) PROVE ArrayInv'
  BY <1>1, NewSurfacesAreLatest
<1>2. ASSUME NEW refs \in Refs,
             \/ GetFormatRejected(refs)
             \/ GetFormatNoQueue(refs)
             \/ GetFormatNoSurfaces(refs)
      PROVE  ArrayInv'
  BY <1>2, FailedFormatArray
<1>3. CASE Finalize
  BY <1>3, FinalizeEmptiesArray
<1>4. CASE UNCHANGED <<status, surfaces, numSurfaces, live, created>>
  BY <1>4 DEF ArrayInv, Filled, Identities
<1>. QED
  BY <1>1, <1>2, <1>3, <1>4
     DEF Next, Acquire, AcquireFails, Release, Terminated, vars, arrayVars

(* Where no format needs fewer surfaces than an earlier one, the surfaces  *)
(* that outlive a decoder in service, or one whose array no failure has    *)
(* left half filled, are those of an earlier format.                       *)
THEOREM OnlyEarlierSurfacesLeft == ~Shrinks => (Spec => LatestDestroyed)
<1>. SUFFICES ASSUME ~Shrinks PROVE Spec => LatestDestroyed
  OBVIOUS
<1>1. Init => ArrayInv
  BY InitArray
<1>2. TypeOK /\ ArrayInv /\ [Next]_vars => ArrayInv'
  BY NextArray
<1>3. ASSUME TypeOK, ArrayInv, [Next]_vars
      PROVE  status # "closed" /\ status' = "closed"
               /\ (status = "ready" \/ Filled) =>
               \A s \in live' : \A i \in DOMAIN surfaces : s < surfaces[i]
  <2>. SUFFICES ASSUME status # "closed", status' = "closed",
                       status = "ready" \/ Filled
                PROVE  \A s \in live' : \A i \in DOMAIN surfaces : s < surfaces[i]
    OBVIOUS
  <2>1. Finalize
    BY <1>3 DEF Next, GetFormat, GetFormatRejected, GetFormatNoQueue,
       GetFormatNoSurfaces, Acquire, AcquireFails, Release, Terminated, vars
  <2>2. Filled
    BY <1>3 DEF ArrayInv
  <2>3. live' = live \ Identities
    BY <2>1, <2>2 DEF Finalize, Destroyable
  <2>. QED  BY <1>3, <2>3 DEF ArrayInv
<1>. QED  BY <1>1, <1>2, <1>3, TypeCorrect, PTL DEF Spec, LatestDestroyed
============================================================================
