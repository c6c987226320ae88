------------------------- MODULE MCPRStackOperator -------------------------
(***************************************************************************)
(* Values for the constants of PRStackOperator that the .cfg files share.  *)
(***************************************************************************)
EXTENDS PRStackOperator, TLC

CONSTANTS cart, order

\* The services the stack deploys, and fewer databases where they do not matter.
BothServices == {cart, order}
OneService == {cart}
NoService == {}

\* The services are alike where no database is provisioned for only one of them.
ServiceSymmetry == Permutations(BothServices)

\* One value for each place that can hold a password, and one more.
SixPasswords == 1..6

Always == {TRUE}
Never == {FALSE}
Either == {TRUE, FALSE}

=============================================================================
