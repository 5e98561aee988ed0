----------------------------- MODULE MCTurnFlow -----------------------------
EXTENDS TurnFlow
=============================================================================
