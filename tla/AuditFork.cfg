SPECIFICATION Spec
CONSTANTS
    r1 = r1
    r2 = r2
    r3 = r3
    t1 = t1
    t2 = t2
    t3 = t3
    alice = alice
    bob = bob
    approve = approve
    block = block
    Requests <- MCRequests
    AccountOf <- MCAccountOf
    Txs <- MCTxs
    Accounts <- MCAccounts
    OwnerOf <- MCOwnerOf
    NoTx = NoTx
    Decisions = {approve, block}
    MaxRecords = 2
INVARIANT EveryChainVerifies
