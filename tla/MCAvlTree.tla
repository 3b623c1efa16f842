----------------------------- MODULE MCAvlTree ------------------------------
EXTENDS AvlTree
=============================================================================
