---------------------------- MODULE ConfigHistory ----------------------------
(***************************************************************************)
(* What the configuration workflow promises (docs/ARCHITECTURE.md, "Diffs  *)
(* are always computed ..." and "Restore ..."): the version log is an      *)
(* append-only record of what was deployed.  A text becomes live and is    *)
(* recorded in one step; a text that fails is as if it had never been.     *)
(***************************************************************************)
EXTENDS Sequences

CONSTANTS Contents,  \* the texts that can be deployed
          First      \* the text the installer deployed, which has no row

VARIABLES live,  \* the deployed text
          log    \* the contents of versions 1, 2, 3, ...

Init == live = First /\ log = <<>>

Deploy(t) == live' = t /\ log' = Append(log, t)

Next == \E t \in Contents : Deploy(t)

Spec == Init /\ [][Next]_<<live, log>>

\* The part of the promise that is about the log alone.
LogSpec == log = <<>> /\ [][\E t \in Contents : log' = Append(log, t)]_log
=============================================================================
