---------------------------- MODULE SurfacePool ----------------------------
(***************************************************************************)
(* What the VA-API decoder promises to FFmpeg about its surfaces: a pool.  *)
(* Any free surface may be handed out, a surface in use is handed out to   *)
(* nobody else, and every surface given back is free again.  A request is  *)
(* refused only when no surface is free.                                   *)
(***************************************************************************)
EXTENDS Naturals

VARIABLES
  free,   \* surfaces that may be handed out
  used,   \* surfaces FFmpeg holds
  reply   \* what the last request was answered, if the last call was one

poolVars == <<free, used, reply>>

Surface == Nat \ {0}

PoolTypeOK ==
  /\ free \in SUBSET Surface
  /\ used \in SUBSET Surface
  /\ reply \in {"none", "surface", "failure"}

Disjoint == free \cap used = {}

PoolInit == free = {} /\ used = {} /\ reply = "none"

(* A new set of surfaces replaces the old one; none may be in use.         *)
Configure ==
  /\ used = {}
  /\ free' \in SUBSET Surface
  /\ reply' = "none"
  /\ UNCHANGED used

Take ==
  /\ \E s \in free : free' = free \ {s} /\ used' = used \cup {s}
  /\ reply' = "surface"

Refuse ==
  /\ free = {}
  /\ reply' = "failure"
  /\ UNCHANGED <<free, used>>

Give ==
  /\ \E s \in used : used' = used \ {s} /\ free' = free \cup {s}
  /\ reply' = "none"

PoolNext == Configure \/ Take \/ Refuse \/ Give

PoolSpec == PoolInit /\ [][PoolNext]_poolVars
=============================================================================
