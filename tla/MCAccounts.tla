----------------------------- MODULE MCAccounts -----------------------------
EXTENDS Accounts, TLC

CONSTANTS u1, u2, c1, c2, c3, a1, t1, t2, t3

(* Two clients behind one address, and one whose address is not known.     *)
SomeAddresses == [c \in Clients |-> IF c = c3 THEN None ELSE a1]
TokenSymmetry == Permutations(Tokens) \cup Permutations({c1, c2})

(* Bound: the third client begins no request but the first of all, which   *)
(* may still run next to all the others.                                   *)
MCAccountsNext == AccountsNext /\ (begun # 0 => begun' = begun \/ req'[c3] = req[c3])
MCAccountsSpec == AccountsInit /\ [][MCAccountsNext]_accountVars
=============================================================================
