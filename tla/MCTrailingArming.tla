-------------------------- MODULE MCTrailingArming --------------------------
\* Instances of TrailingArming: a full tier from level 1, a partial one from 2.
EXTENDS TrailingArming

MinProfitValue == [t \in Tiers |-> t]
MaxDrawdownValue == [t \in Tiers |-> 40]
=============================================================================
