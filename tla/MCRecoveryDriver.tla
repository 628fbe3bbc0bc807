-------------------------- MODULE MCRecoveryDriver --------------------------
\* Lists of one and of two providers, for the runs of RecoveryDriver.
EXTENDS RecoveryDriver

CONSTANTS a, b

OneProvider == <<a>>
TwoProviders == <<a, b>>
=============================================================================
