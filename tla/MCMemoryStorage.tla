-------------------------- MODULE MCMemoryStorage --------------------------
EXTENDS MemoryStorage

MCTermOf == [i \in Indexes |-> IF i <= 2 THEN 1 ELSE 2]
=============================================================================
