----------------------------- MODULE MCCilkProf ------------------------------
\* A Cilk function that calls itself from one site, its spawn helper, and a C
\* function.  The first two addresses hash alike until the table has 16 chains.
EXTENDS CilkProf

MCSites == {[rip |-> 4, fn |-> 1, type |-> "SPAWNER"],
            [rip |-> 36, fn |-> 2, type |-> "HELPER"],
            [rip |-> 12, fn |-> 3, type |-> "C_FUNCTION"]}
MCMainSite == [rip |-> 20, fn |-> 4, type |-> "MAIN"]
=============================================================================
