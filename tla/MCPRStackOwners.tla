--------------------------- MODULE MCPRStackOwners ---------------------------
(***************************************************************************)
(* Values for the constants of PRStackOwners.                              *)
(***************************************************************************)
EXTENDS PRStackOwners

CONSTANTS cart

OneService == {cart}
NoService == {}

\* One for each of the six places that may hold a password, both stacks' copies
\* counted, and one more.
OddPasswords == {1, 3, 5, 7}
EvenPasswords == {2, 4, 6, 8}

Always == {TRUE}

=============================================================================
