--------------------------- MODULE MCModelContext ---------------------------
EXTENDS ModelContext
=============================================================================
