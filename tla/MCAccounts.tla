------------------------------ MODULE MCAccounts ------------------------------
(***************************************************************************)
(* Small instances of Accounts for TLC.                                    *)
(***************************************************************************)
EXTENDS Accounts, TLC

CONSTANTS older, current  \* two versions of the script

NotDefault == [v \in Scripts |-> "acme"]

\* erp-plan-3-master-data.md extends the permissions of the admin role.
Perms ==
  [v \in Scripts |-> [admin |-> IF v = older THEN {"po"} ELSE {"po", "masterdata"},
                      approver |-> {"po"}]]

Symmetric == Permutations(Shells)

===============================================================================
