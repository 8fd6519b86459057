-------------------------- MODULE MCTargetRuntime --------------------------
\* TargetRuntime for TLC; the configurations say which question they ask.
EXTENDS TargetRuntime
=============================================================================
