-------------------------- MODULE MCHostManagement --------------------------
EXTENDS HostManagement, SequencesExt

\* Threads are alike, so one order of the requests stands for all.
Order == FoldSet(LAMBDA r, s : Append(s, r), <<>>, Requests)
Sorted == {h \in [Handlers -> 1 .. Len(Order)] :
             \A a, b \in Handlers : a < b => h[a] <= h[b]}
TestMixes == {[h \in Handlers |-> Order[s[h]]] : s \in Sorted}
=============================================================================
