--------------------------- MODULE MCBrowserWaits ---------------------------
(* What is waited for, on small instances. *)
EXTENDS BrowserWaits

CONSTANTS q1, q2, q3

=============================================================================
