---------------------------- MODULE MCWorkQueue -----------------------------
EXTENDS WorkQueue
=============================================================================
