---------------------------- MODULE AtomicLedger ----------------------------
(***************************************************************************)
(* What a JSON registry promises to the daemon and the command line tools   *)
(* that share it: each change is applied to what all earlier ones left, at  *)
(* once, and a change is reported only once it is in the file.               *)
(***************************************************************************)
CONSTANT Changes

VARIABLES
    file,       \* the changes the file holds
    reported    \* the changes whose caller was told so

vars == <<file, reported>>

Init == file = {} /\ reported = {}

Apply(c) == file' = file \cup {c} /\ UNCHANGED reported

Report(c) == c \in file /\ reported' = reported \cup {c} /\ UNCHANGED file

Next == \E c \in Changes : Apply(c) \/ Report(c)

Spec == Init /\ [][Next]_vars
=============================================================================
