---------------------------- MODULE MCGroupKeys ----------------------------
(* Small instances of GroupKeys for TLC.                                   *)
EXTENDS GroupKeys, TLC

(* Nothing orders users, servers, keys, passwords or groups.               *)
Symmetry ==
    Permutations(User) \cup Permutations(Server) \cup Permutations(Key)
        \cup Permutations(Password) \cup Permutations(Group)

=============================================================================
