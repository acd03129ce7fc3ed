--------------------------------- MODULE Call ---------------------------------
(***************************************************************************)
(* A call of a function that reads a file, as its caller sees it: nothing  *)
(* comes back, and then one of the values that the arguments and the file  *)
(* permit, once and for all.  Stonesh takes its readers like this.         *)
(***************************************************************************)

VARIABLES
    permitted,  \* the values the call may return
    returned    \* none yet, or the one

CInit == returned = {}

CReturn ==
    /\ returned = {}
    /\ \E v \in permitted : returned' = {v}
    /\ UNCHANGED permitted

CSpec == CInit /\ [][CReturn]_<<permitted, returned>>
=============================================================================
