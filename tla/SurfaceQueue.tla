---------------------------- MODULE SurfaceQueue ----------------------------
(***************************************************************************)
(* The VA-API surfaces of dec_ffmpeg.c.  get_format() creates the surfaces *)
(* and fills a ring of free ones; get_buffer() takes the surface at the    *)
(* head, release_buffer() stores one at the tail; an empty slot holds      *)
(* VA_INVALID_ID.  FFmpeg calls these from one thread (thread_count = 1),  *)
(* gives surfaces back in any order and asks for a new format when the     *)
(* sequence parameters change, once it has given back every surface.       *)
(***************************************************************************)
EXTENDS Integers, Sequences, FiniteSets

CONSTANTS
  Refs,        \* values of avctx->refs the streams may have
  Scratch,     \* SCRATCH_SURFACES
  MaxSurface,  \* bound: surfaces created in a run
  Shrinks,     \* a new format may need fewer surfaces than an earlier one
  InitErrors   \* the VA driver or the allocator may fail

ASSUME SurfaceQueueAssumption ==
  /\ Refs \subseteq Nat
  /\ Scratch \in Nat
  /\ MaxSurface \in Nat
  /\ Shrinks \in BOOLEAN
  /\ InitErrors \in BOOLEAN

VARIABLES
  status,       \* "fresh", "ready", "failed" (no format) or "closed"
  surfCap,      \* elements allocated to va_surfaces
  queueCap,     \* elements allocated to va_surfaces_queue
  numSurfaces,  \* num_va_surfaces
  queueLength,  \* va_surfaces_queue_length
  surfaces,     \* the initialised prefix of va_surfaces
  ring,         \* va_surfaces_queue, indexed from 0
  head,         \* va_surfaces_queue_head
  tail,         \* va_surfaces_queue_tail
  inUse,        \* surfaces held by FFmpeg
  reply,        \* what get_buffer() replied, if it was the last call
  live,         \* surfaces created and not destroyed
  created       \* number of surfaces created so far, the last identity used

arrayVars == <<surfCap, queueCap, numSurfaces, queueLength, surfaces>>
ringVars  == <<ring, head, tail>>
vars      == <<status, arrayVars, ringVars, inUse, reply, live, created>>

Invalid == 0   \* VA_INVALID_ID

Surface == Nat \ {Invalid}

Larger(a, b) == IF a < b THEN b ELSE a

TypeOK ==
  /\ status \in {"fresh", "ready", "failed", "closed"}
  /\ surfCap \in Nat
  /\ queueCap \in Nat
  /\ numSurfaces \in Nat
  /\ queueLength \in Nat
  /\ surfaces \in Seq(Surface)
  /\ ring \in [0..(queueLength - 1) -> Nat]
  /\ head \in Nat
  /\ tail \in Nat
  /\ inUse \in SUBSET Surface
  /\ reply \in {"none", "surface", "failure"}
  /\ live \in SUBSET Surface
  /\ created \in Nat

Init ==
  /\ status = "fresh"
  /\ surfCap = 0 /\ queueCap = 0 /\ numSurfaces = 0 /\ queueLength = 0
  /\ surfaces = <<>>
  /\ ring = [i \in 0..(queueLength - 1) |-> Invalid]
  /\ head = 0 /\ tail = 0
  /\ inUse = {} /\ live = {} /\ created = 0
  /\ reply = "none"

-----------------------------------------------------------------------------
(* get_format()                                                            *)

SurfacesFor(refs) == refs + 1 + Scratch

(* FFmpeg asks for a format; the number of surfaces needed.                *)
Negotiates(refs) ==
  /\ status # "closed"
  /\ inUse = {}
  /\ Shrinks \/ SurfacesFor(refs) >= numSurfaces

(* vaapi_ensure_surfaces(): realloc() always gives the arrays the new      *)
(* size, but the two counts never decrease.                                *)
GrowSurfaces(n) ==
  /\ surfCap' = n
  /\ numSurfaces' = Larger(numSurfaces, n)

GrowQueue(n) ==
  /\ queueCap' = n
  /\ queueLength' = Larger(queueLength, n)

(* realloc() keeps what fits of the old array.                             *)
TruncateSurfaces(n) ==
  surfaces' = IF Len(surfaces) > n THEN SubSeq(surfaces, 1, n) ELSE surfaces

(* Variant: the slots keep what they hold.                                 *)
KeepRing == UNCHANGED ring

(* Every slot of the ring is emptied, whatever its allocation.             *)
ClearRing == ring' = [i \in 0..(queueLength' - 1) |-> Invalid]

(* vaCreateSurfaces() fills the whole array with new surfaces.             *)
CreateSurfaces ==
  /\ surfaces' = [i \in 1..numSurfaces' |-> created + i]
  /\ live' = live \cup {created + i : i \in 1..numSurfaces'}
  /\ created' = created + numSurfaces'
  /\ created' <= MaxSurface

(* The ring is filled with all the surfaces and starts at slot 0.          *)
FillRing ==
  /\ ring' = [i \in 0..(queueLength' - 1) |->
                IF i < numSurfaces' THEN created + i + 1 ELSE Invalid]
  /\ head' = 0
  /\ tail' = 0

(* vaapi_init_decoder(): success, or vaCreateContext() fails once the      *)
(* surfaces exist.                                                         *)
GetFormat(refs) ==
  /\ Negotiates(refs)
  /\ GrowSurfaces(SurfacesFor(refs))
  /\ GrowQueue(SurfacesFor(refs))
  /\ CreateSurfaces
  /\ FillRing
  /\ status' \in IF InitErrors THEN {"ready", "failed"} ELSE {"ready"}
  /\ reply' = "none"
  /\ UNCHANGED inUse

(* No VA profile, no 4:2:0 surfaces, no VA config, or the first realloc()  *)
(* fails: nothing has changed yet.                                         *)
GetFormatRejected(refs) ==
  /\ InitErrors
  /\ Negotiates(refs)
  /\ status' = "failed"
  /\ reply' = "none"
  /\ UNCHANGED <<arrayVars, ringVars, inUse, live, created>>

(* The queue cannot be reallocated, va_surfaces already is.                *)
GetFormatNoQueue(refs) ==
  /\ InitErrors
  /\ Negotiates(refs)
  /\ GrowSurfaces(SurfacesFor(refs))
  /\ TruncateSurfaces(SurfacesFor(refs))
  /\ status' = "failed"
  /\ reply' = "none"
  /\ UNCHANGED <<queueCap, queueLength, ringVars, inUse, live, created>>

(* vaCreateSurfaces() fails: the arrays have their new size, the ring is   *)
(* empty and its indices are where they were.  What the driver wrote to    *)
(* the array before it failed is not known.                                *)
GetFormatNoSurfaces(refs) ==
  /\ InitErrors
  /\ Negotiates(refs)
  /\ GrowSurfaces(SurfacesFor(refs))
  /\ GrowQueue(SurfacesFor(refs))
  /\ ClearRing
  /\ surfaces' = <<>>
  /\ status' = "failed"
  /\ reply' = "none"
  /\ UNCHANGED <<head, tail, inUse, live, created>>

-----------------------------------------------------------------------------
(* get_buffer() and release_buffer()                                       *)

Advance(i) == (i + 1) % queueLength

(* Variants: the slot keeps the surface; the tail stays.                   *)
KeepSlot == UNCHANGED ring
KeepTail == UNCHANGED tail

EmptyHead   == ring' = [ring EXCEPT ![head] = Invalid]
AdvanceHead == head' = Advance(head)
AdvanceTail == tail' = Advance(tail)

(* vaapi_acquire_surface(): the surface at the head is handed out.         *)
Acquire ==
  /\ status = "ready"
  /\ ring[head] # Invalid
  /\ inUse' = inUse \cup {ring[head]}
  /\ reply' = "surface"
  /\ EmptyHead
  /\ AdvanceHead
  /\ UNCHANGED <<status, arrayVars, tail, live, created>>

(* Its slot is empty: get_buffer() fails.                                  *)
AcquireFails ==
  /\ status = "ready"
  /\ ring[head] = Invalid
  /\ reply' = "failure"
  /\ UNCHANGED <<status, arrayVars, ringVars, inUse, live, created>>

(* vaapi_release_surface(): stored at the tail.  When that slot is taken,  *)
(* release_buffer() ignores the failure: the surface is neither in the     *)
(* ring nor with FFmpeg any more.                                          *)
Release(s) ==
  /\ status = "ready"
  /\ s \in inUse
  /\ inUse' = inUse \ {s}
  /\ reply' = "none"
  /\ IF ring[tail] = Invalid
       THEN /\ ring' = [ring EXCEPT ![tail] = s]
            /\ AdvanceTail
       ELSE UNCHANGED <<ring, tail>>
  /\ UNCHANGED <<status, arrayVars, head, live, created>>

(* Every counted element of the array holds the identity vaCreateSurfaces()*)
(* gave it.  Not so when the array grew, or was written to, for a format   *)
(* that failed before it had its surfaces.                                 *)
Filled == Len(surfaces) = numSurfaces

Identities == {surfaces[i] : i \in DOMAIN surfaces}

(* Variant: nothing is destroyed unless the last format succeeded.         *)
DestroyableIfReady == IF status = "ready" THEN {Identities} ELSE {{}}

(* What vaDestroySurfaces() may destroy, given all numSurfaces elements:   *)
(* exactly those surfaces when each is valid.  The driver may give up at   *)
(* an element that is not, before or after it has destroyed others, and a  *)
(* value nobody stored may name any surface that is alive.                 *)
Destroyable == IF Filled THEN {Identities} ELSE SUBSET live

(* decoder_vaapi_finalize(): the surfaces of the array are destroyed and   *)
(* the counts reset; the codec was closed before, nothing is in use.       *)
Finalize ==
  /\ status # "closed"
  /\ inUse = {}
  /\ status' = "closed"
  /\ \E gone \in Destroyable : live' = live \ gone
  /\ surfCap' = 0 /\ queueCap' = 0 /\ numSurfaces' = 0 /\ queueLength' = 0
  /\ surfaces' = <<>>
  /\ ClearRing
  /\ reply' = "none"
  /\ UNCHANGED <<head, tail, inUse, created>>

Terminated == status = "closed" /\ UNCHANGED vars

Next ==
  \/ \E refs \in Refs : \/ GetFormat(refs)
                        \/ GetFormatRejected(refs)
                        \/ GetFormatNoQueue(refs)
                        \/ GetFormatNoSurfaces(refs)
  \/ Acquire
  \/ AcquireFails
  \/ \E s \in inUse : Release(s)
  \/ Finalize
  \/ Terminated

Spec == Init /\ [][Next]_vars

-----------------------------------------------------------------------------
(* Properties                                                              *)

Slots == 0..(queueLength - 1)

FreeSurfaces == {ring[i] : i \in {j \in Slots : ring[j] # Invalid}}

(* Number of empty slots, read off the two indices: the tail is behind the *)
(* head by the number of surfaces FFmpeg holds.                            *)
Gap ==
  IF head = tail THEN (IF ring[head] = Invalid THEN queueLength ELSE 0)
  ELSE IF tail < head THEN head - tail
  ELSE head - tail + queueLength

(* The empty slots are the ones from the tail up to the head, cyclically.  *)
EmptySlot(i) ==
  IF head = tail THEN ring[head] = Invalid
  ELSE IF tail < head THEN tail <= i /\ i < head
  ELSE tail <= i \/ i < head

(* The ring is consistent: the empty slots form one run from the tail to   *)
(* the head and there are as many as surfaces in use.                      *)
RingConsistent ==
  status = "ready" =>
    /\ head \in Slots /\ tail \in Slots
    /\ \A i \in Slots : ring[i] = Invalid <=> EmptySlot(i)
    /\ Cardinality(inUse) = Gap

(* No surface is in two places: twice in the ring, or in the ring and with *)
(* FFmpeg.  Two pictures would otherwise be decoded into one surface.      *)
OnePlace ==
  status = "ready" =>
    /\ \A i, j \in Slots : ring[i] # Invalid /\ ring[i] = ring[j] => i = j
    /\ \A i \in Slots : ring[i] \notin inUse

(* release_buffer() never finds the slot at the tail taken, so that the    *)
(* failure it ignores cannot happen and no surface leaks.                  *)
NoReleaseDropped ==
  status = "ready" /\ inUse # {} => ring[tail] = Invalid

(* get_buffer() fails only when FFmpeg holds every surface of the ring.    *)
AcquireFailsOnlyWhenExhausted ==
  status = "ready" /\ ring[head] = Invalid =>
    Cardinality(inUse) = queueLength

(* No surface of the current format is ever lost.                          *)
Conservation ==
  status = "ready" =>
    FreeSurfaces \cup inUse = {surfaces[i] : i \in 1..queueLength}

(* "Ensures the array of VA surfaces and queue of free VA surfaces are     *)
(* allocated": the counts that bound every loop over the two arrays stay   *)
(* within what realloc() has given them.                                   *)
ArraysAllocated == numSurfaces <= surfCap /\ queueLength <= queueCap

(* What decoder_vaapi_finalize() leaves behind is older than the array:    *)
(* only surfaces of an earlier format, over which a later one was created, *)
(* outlive the decoder.  So it is for a decoder in service, and unless a   *)
(* format failed between the realloc() of the array and the creation of    *)
(* its surfaces; a format rejected before, or failed after, does no harm.  *)
LatestDestroyed ==
  [][status # "closed" /\ status' = "closed" /\ (status = "ready" \/ Filled) =>
       \A s \in live' : \A i \in DOMAIN surfaces : s < surfaces[i]]_vars

(* The ring implements a pool of surfaces, which refuses a surface only    *)
(* when it has none.                                                       *)
Pool == INSTANCE SurfacePool
          WITH free <- IF status = "ready" THEN FreeSurfaces ELSE {},
               used <- inUse
ImplementsPool == Pool!PoolSpec
=============================================================================
