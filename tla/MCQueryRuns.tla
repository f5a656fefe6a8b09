---------------------------- MODULE MCQueryRuns -----------------------------
(***************************************************************************)
(* Three requests of a user on one server whose log is at the cap.         *)
(***************************************************************************)
EXTENDS QueryRuns, TLC

CONSTANTS u1, r1, r2, r3

MCUser == {u1}
MCRequest == {r1, r2, r3}
MCLimits == {2}

\* A truncated statement, a blank one and one that fails.
MCBatches == { << <<3>>, <<>>, <<Fail>> >> }
MCTexts == { <<1>> }

Symmetry == Permutations(MCRequest)

\* Every text of up to three commands of zero to three rows, or failing.
MCAnyText == BoundedSeq(0..3 \cup {Fail}, 3)
=============================================================================
