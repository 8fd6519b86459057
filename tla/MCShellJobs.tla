---------------------------- MODULE MCShellJobs -----------------------------
\* The constants are given by MCShellJobs.cfg.
EXTENDS ShellJobs
=============================================================================
