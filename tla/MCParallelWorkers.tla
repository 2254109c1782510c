------------------------- MODULE MCParallelWorkers -------------------------
EXTENDS ParallelWorkers

CONSTANTS a, b

HolderDef == 1 .. Items
Files == {a, b}
Jobs == {{a}, {a, b}}
=============================================================================
