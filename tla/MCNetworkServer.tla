-------------------------- MODULE MCNetworkServer ---------------------------
EXTENDS NetworkServer

\* One command stays within the limit and may be stopped for reading the
\* terminal, the other goes beyond the limit and then fills its pipe.
TestCommands == {[size |-> 1, tty |-> TRUE], [size |-> 6, tty |-> FALSE]}
=============================================================================
