----------------------------- MODULE MCAccounts -----------------------------
(***************************************************************************)
(* Values for TLC: a client and administrators.                            *)
(***************************************************************************)
EXTENDS Accounts, TLC

CONSTANTS alice, ana, ada, w1, w2, w3, q1, q2, k1, k2

\* Two accounts.
AdminUsers == {ana, ada}
AdminRole == [u \in AdminUsers |-> "ADMIN"]

\* The table is empty: the first account comes from a bootstrap.
FirstRole == [u \in AdminUsers |-> None]

EveryOperation == AllOps
BrowserOperations == SessionOps \cup IdentityOps \cup {"login"}

\* Interchangeable in every property.
Symmetric == Permutations(Workers) \cup Permutations(Requests) \cup Permutations(Keys)

=============================================================================
