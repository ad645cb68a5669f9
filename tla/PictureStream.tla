--------------------------- MODULE PictureStream ---------------------------
(***************************************************************************)
(* What a reference decoder promises to its caller: the pictures of the    *)
(* stream are handed over one at a time, in output order, each exactly     *)
(* once, and the run reports success only when none is left.  A run that   *)
(* fails stops delivering at some point and never reports success.         *)
(***************************************************************************)
EXTENDS Naturals, Sequences

CONSTANT NumPictures   \* number of pictures in the stream, a natural number

VARIABLES
  shown,    \* the pictures handed to the caller, in the order they were
  verdict   \* "running", "success" or "failure"

streamVars == <<shown, verdict>>

StreamTypeOK ==
  /\ shown \in Seq(1..NumPictures)
  /\ verdict \in {"running", "success", "failure"}

StreamInit ==
  /\ shown = <<>>
  /\ verdict = "running"

Show ==
  /\ verdict = "running"
  /\ Len(shown) < NumPictures
  /\ shown' = Append(shown, Len(shown) + 1)
  /\ UNCHANGED verdict

Succeed ==
  /\ verdict = "running"
  /\ Len(shown) = NumPictures
  /\ verdict' = "success"
  /\ UNCHANGED shown

Fail ==
  /\ verdict = "running"
  /\ verdict' = "failure"
  /\ UNCHANGED shown

StreamNext == Show \/ Succeed \/ Fail

StreamSpec == StreamInit /\ [][StreamNext]_streamVars
=============================================================================
