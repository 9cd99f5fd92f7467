----------------------------- MODULE MCLossLists -----------------------------
EXTENDS LossLists
=============================================================================
