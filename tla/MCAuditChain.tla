---------------------------- MODULE MCAuditChain ----------------------------
(* Model checking of AuditChain: alice has two requests in flight at once, *)
(* bob one at a time and two transactions.                                 *)
EXTENDS AuditChain, TLC

CONSTANTS r1, r2, r3, t1, t2, t3, alice, bob,
          approve, block

MCAccounts == {alice, bob}
MCRequests == {r1, r2, r3}
MCAccountOf == [w \in MCRequests |-> IF w = r3 THEN bob ELSE alice]
MCTxs == {t1, t2, t3}
MCOwnerOf == [t \in MCTxs |-> IF t = t1 THEN alice ELSE bob]

\* Of alice's requests, bob's transactions and the decisions none is special.
Symmetry == Permutations({r1, r2}) \union Permutations({t2, t3})
            \union Permutations(Decisions)
=============================================================================
