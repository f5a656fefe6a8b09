----------------------------- MODULE MCAccounts -----------------------------
(* Instances of Accounts.  Passwords, tokens, servers and threads are      *)
(* interchangeable; so are users.                                          *)
EXTENDS Accounts, TLC

Symmetry == Permutations(User) \cup Permutations(Password) \cup Permutations(Server)
            \cup Permutations(Token) \cup Permutations(Request)

=============================================================================
