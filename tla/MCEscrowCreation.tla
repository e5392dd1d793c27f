-------------------------- MODULE MCEscrowCreation --------------------------
EXTENDS EscrowCreation, TLC

D(item, amount, buyer) == [item |-> item, amount |-> amount, buyer |-> buyer]

\* Two bodies for one item, one for another item, and one that is refused.
MCEscrowDtos ==
    {D("i1", 1, "buyer"), D("i1", 2, "buyer"), D("i2", 1, "buyer"), D("i2", 0, "vendor")}

Symmetric == Permutations(Calls) \cup Permutations(Keys)
=============================================================================
