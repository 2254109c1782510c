----------------------------- MODULE MCRunView -----------------------------
EXTENDS RunView
=============================================================================
