----------------------------- MODULE MCAdvance -----------------------------
(***************************************************************************)
(* Instances of Advance for TLC.  A duration of 9 is beyond every horizon, *)
(* that is, no timer.                                                      *)
(***************************************************************************)
EXTENDS Advance

\* A session that is renewed at once, one that is renewed later, and one that
\* ends by its session or its idle timeout.
MCPolicy ==
    {[lease |-> 0, renew |-> TRUE, idle |-> 9],
     [lease |-> 1, renew |-> TRUE, idle |-> 9],
     [lease |-> 1, renew |-> FALSE, idle |-> 1]}

=============================================================================
