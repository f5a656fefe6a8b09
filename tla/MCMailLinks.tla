----------------------------- MODULE MCMailLinks ----------------------------
(* Instances of MailLinks.  Threads and users are interchangeable.         *)
EXTENDS MailLinks, TLC

Symmetry == Permutations(User) \cup Permutations(Request)

=============================================================================
