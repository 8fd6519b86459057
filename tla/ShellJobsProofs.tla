-------------------------- MODULE ShellJobsProofs ---------------------------
(***************************************************************************)
(* Proofs about module ShellJobs, for every set of process numbers, every  *)
(* length of pipeline and any number of lines and stops.                   *)
(***************************************************************************)
EXTENDS ShellJobs, FiniteSetTheorems, TLAPS

-----------------------------------------------------------------------------
(* The inductive invariant *)

\* The processes started for job i that are not yet collected.
Own(i) == {p \in Pids : Live(p) /\ owner[p] = i}

\* The shell's place agrees with the line it runs and the job it works on.
Places ==
  /\ pc = "fork" => cmd.op = "run"
  /\ pc = "reap_job" => cmd.op \in {"fg", "bg"}
  /\ pc = "continue" => cmd.op \in {"fg", "bg"}
  /\ pc \notin {"fork", "cleanup"} => pids = <<>>
  /\ pc \in {"continue", "wait"} => current \in DOMAIN jobs
  /\ pc = "continue" => jobs[current].state # "done"
  /\ pc = "exited" => jobs = NoJobs
  /\ tty # Shell =>
       /\ pc = "wait" \/ (pc = "continue" /\ cmd.op = "fg")
       /\ tty = jobs[current].pgid

\* Only a child that runs or is stopped has something other to report than
\* its end.
Reporting == \A p \in Pids : report[p] # "none" => life[p] \in {"running", "stopped"}

\* A child is listed by its job, and by none that is newer.
Listed ==
  pc # "exited" =>
    \A p \in Pids : Live(p) =>
      \/ owner[p] = next_id
      \/ /\ owner[p] \in DOMAIN jobs /\ p \in jobs[owner[p]].pids
         /\ \A j \in DOMAIN jobs : j > owner[p] => p \notin jobs[j].pids

\* The pipeline being started: its children are those of the next job.
Starting ==
  /\ pc # "exited" => Own(next_id) = SetOf(pids)
  /\ \A a, b \in 1 .. Len(pids) : pids[a] = pids[b] => a = b

\* Two children are in one group when they are of one job; it is the group the
\* job remembers.
Groups ==
  pc # "exited" =>
    /\ \A p, q \in Pids : Live(p) /\ Live(q) => (group[p] = group[q] <=> owner[p] = owner[q])
    /\ \A p \in Pids : Live(p) /\ owner[p] \in DOMAIN jobs => group[p] = jobs[owner[p]].pgid
    /\ pc = "fork" => \A p \in SetOf(pids) : group[p] = pids[1]

Counted ==
  \A i \in DOMAIN jobs :
    /\ jobs[i].remaining = Cardinality(Own(i))
    /\ jobs[i].state = "done" <=> jobs[i].remaining = 0

IInv == TypeOK /\ Places /\ Reporting /\ Listed /\ Starting /\ Groups /\ Counted

LEMMA OwnFinite == \A i : IsFiniteSet(Own(i)) /\ Cardinality(Own(i)) \in Nat
<1> TAKE i
<1>1. Own(i) \subseteq Pids  BY DEF Own
<1>2. IsFiniteSet(Own(i))  BY <1>1, PidsAssumption, FS_Subset
<1> QED  BY <1>2, FS_CardinalityType

LEMMA InitIInv == Init => IInv
<1> SUFFICES ASSUME Init PROVE IInv  OBVIOUS
<1> USE DEF Init
<1>1. TypeOK
  <2>1. jobs \in [DOMAIN jobs -> Jobs] /\ DOMAIN jobs = {}  BY DEF NoJobs
  <2>2. cmd \in Lines  BY DEF Lines, NoLine
  <2>3. pids \in Seq(Pids)  OBVIOUS
  <2>4. next_id \in Nat \ {0} /\ DOMAIN jobs \subseteq 1 .. next_id - 1  BY <2>1
  <2>5. current \in Nat /\ lines \in Nat /\ stops \in Nat /\ owner \in [Pids -> Nat]
    BY DEF NoJob
  <2>6. pc \in Reaping  BY DEF Reaping
  <2> QED  BY <2>1, <2>2, <2>3, <2>4, <2>5, <2>6 DEF TypeOK
<1>2. \A p \in Pids : ~Live(p)  BY DEF Live
<1>3. SetOf(pids) = {}  BY DEF SetOf
<1>4. Own(next_id) = {}  BY <1>2 DEF Own
<1>5. Places  BY DEF Places
<1>6. Counted  BY DEF Counted, NoJobs
<1>7. Reporting  BY DEF Reporting
<1>8. Listed  BY <1>2 DEF Listed
<1>9. Starting
  <2>1. 1 .. Len(pids) = {}  OBVIOUS
  <2> QED  BY <1>3, <1>4, <2>1 DEF Starting
<1>10. Groups  BY <1>2, <1>3 DEF Groups
<1> QED  BY <1>1, <1>5, <1>6, <1>7, <1>8, <1>9, <1>10 DEF IInv

-----------------------------------------------------------------------------
(* Frames *)

\* Steps that leave the table of children and the jobs' shape alone.
LEMMA Frame ==
  ASSUME IInv,
         \A p \in Pids : Live(p)' <=> Live(p),
         UNCHANGED <<owner, group, next_id, jobs, pids>>,
         pc' # "exited" => pc # "exited", pc' = "fork" => pc = "fork" \/ pids = <<>>
  PROVE  Listed' /\ Starting' /\ Groups' /\ Counted'
<1>1. \A i : Own(i)' = Own(i)  BY DEF Own
<1>2. SetOf(pids)' = SetOf(pids)  BY DEF SetOf
<1>3. Listed'  BY DEF IInv, Listed
<1>4. Starting'  BY <1>1, <1>2 DEF IInv, Starting
<1>5. Groups'
  <2>1. pids = <<>> => SetOf(pids) = {}  BY DEF SetOf
  <2> QED  BY <1>2, <2>1 DEF IInv, Groups
<1>6. Counted'  BY <1>1 DEF IInv, Counted
<1> QED  BY <1>3, <1>4, <1>5, <1>6

\* Steps that drop finished jobs.
LEMMA Shrink ==
  ASSUME IInv, NEW D \in SUBSET DOMAIN jobs,
         jobs' = [i \in D |-> jobs[i]],
         \A i \in DOMAIN jobs \ D : jobs[i].state = "done",
         UNCHANGED <<life, owner, group, next_id, pids>>,
         pc # "exited", pc' # "fork"
  PROVE  Listed' /\ Starting' /\ Groups' /\ Counted'
<1>1. \A i : Own(i)' = Own(i)  BY DEF Own, Live
<1>2. SetOf(pids)' = SetOf(pids)  BY DEF SetOf
<1>3. \A p \in Pids : Live(p)' <=> Live(p)  BY DEF Live
<1>4. \A p \in Pids : Live(p) /\ owner[p] \in DOMAIN jobs => owner[p] \in D
  <2> SUFFICES ASSUME NEW p \in Pids, Live(p), owner[p] \in DOMAIN jobs, owner[p] \notin D
               PROVE  FALSE
    OBVIOUS
  <2>1. p \in Own(owner[p])  BY DEF Own
  <2>2. Cardinality(Own(owner[p])) = 0  BY DEF IInv, Counted
  <2>3. Own(owner[p]) = {}  BY <2>2, OwnFinite, FS_EmptySet
  <2> QED  BY <2>1, <2>3
<1>5. DOMAIN jobs' = D /\ \A i \in D : jobs'[i] = jobs[i]  OBVIOUS
<1>6. Listed'  BY <1>3, <1>4, <1>5 DEF IInv, Listed
<1>7. Starting'  BY <1>1, <1>2 DEF IInv, Starting
<1>8. Groups'  BY <1>3, <1>5 DEF IInv, Groups
<1>9. Counted'  BY <1>1, <1>5 DEF IInv, Counted
<1> QED  BY <1>6, <1>7, <1>8, <1>9

-----------------------------------------------------------------------------
(* waitpid and jobs_update_status *)

\* The job found for a child is its own.
LEMMA FindsOwner ==
  ASSUME IInv, pc # "exited", pids = <<>>, NEW p \in Pids, Live(p)
  PROVE  owner[p] \in DOMAIN jobs /\ jobs_find_pid(p) = owner[p] /\ owner[p] # NoJob
<1> DEFINE J == {i \in DOMAIN jobs : p \in jobs[i].pids}
<1>1. SetOf(pids) = {}  BY DEF SetOf
<1>2. owner[p] # next_id  BY <1>1 DEF IInv, Starting, Own
<1>3. owner[p] \in J /\ \A j \in DOMAIN jobs : j > owner[p] => j \notin J
  BY <1>2 DEF IInv, Listed
<1>4. owner[p] \in Nat /\ DOMAIN jobs \subseteq Int /\ \A i \in DOMAIN jobs : i # NoJob
  BY DEF IInv, TypeOK, NoJob
<1>5. \A j \in J : j <= owner[p]  BY <1>3, <1>4
<1>6. \A i \in J : (\A j \in J : j <= i) => i = owner[p]  BY <1>3, <1>4, <1>5
<1>7. (CHOOSE i \in J : \A j \in J : j <= i) = owner[p]  BY <1>3, <1>5, <1>6
<1>8. jobs_find_pid(p) = owner[p]  BY <1>3, <1>7 DEF jobs_find_pid
<1> QED  BY <1>3, <1>4, <1>8

LEMMA CollectKeeps ==
  ASSUME IInv, pc \in Reaping \cup {"wait"}, NEW p \in Pids, Collect(p),
         UNCHANGED <<group, stops, owner, tty, sigchld_seen, next_id, control>>
  PROVE  IInv'
<1> DEFINE o == owner[p]
<1>1. pids = <<>> /\ pc # "exited"  BY DEF IInv, Places, Reaping
<1>2. Live(p) /\ (life[p] = "zombie" => report[p] = "none")
  BY DEF IInv, Reporting, Collect, Live
<1>3. o \in DOMAIN jobs /\ jobs_find_pid(p) = o /\ o # NoJob  BY <1>1, <1>2, FindsOwner
<1>4. PICK e \in {"ended", "stopped", "continued"} :
        /\ jobs' = [jobs EXCEPT ![o] = Updated(@, e)]
        /\ e = "ended" <=> life[p] = "zombie"
        /\ e = "ended" => /\ life' = [life EXCEPT ![p] = "free"]
                          /\ doomed' = doomed \ {p} /\ UNCHANGED report
        /\ e # "ended" => /\ report' = [report EXCEPT ![p] = "none"]
                          /\ UNCHANGED <<life, doomed>>
  <2>1. CASE life[p] = "zombie"
    BY <1>2, <1>3, <2>1 DEF Collect, jobs_update_status
  <2>2. CASE life[p] # "zombie"
    <3>1. report[p] \in {"stopped", "continued"}  BY <2>2 DEF Collect, IInv, TypeOK
    <3> QED  BY <1>3, <2>2, <3>1 DEF Collect, jobs_update_status
  <2> QED  BY <2>1, <2>2
<1>5. jobs[o] \in Jobs /\ p \in Own(o) /\ jobs[o].remaining = Cardinality(Own(o))
  BY <1>2, <1>3 DEF IInv, TypeOK, Counted, Own
<1>6. jobs[o].remaining \in Nat \ {0}
  <2>1. Own(o) # {}  BY <1>5
  <2>2. Cardinality(Own(o)) # 0  BY <2>1, OwnFinite, FS_EmptySet
  <2> QED  BY <1>5, <2>2, OwnFinite
<1> DEFINE job == Updated(jobs[o], e)
<1>7. /\ job.pgid = jobs[o].pgid /\ job.pids = jobs[o].pids
      /\ job.remaining = IF e = "ended" THEN jobs[o].remaining - 1 ELSE jobs[o].remaining
      /\ job.state = "done" <=> job.remaining = 0
      /\ job \in Jobs
  <2>0. jobs[o].state # "done"  BY <1>3, <1>6 DEF IInv, Counted
  <2>1. CASE e = "ended"
    <3> DEFINE left == jobs[o].remaining - 1
    <3>1. left \in Nat  BY <1>6
    <3>2. job = [jobs[o] EXCEPT !.remaining = left, !.state = IF left = 0 THEN "done" ELSE @]
      <4>1. (IF jobs[o].remaining > 0 THEN jobs[o].remaining - 1 ELSE 0) = left  BY <1>6
      <4> HIDE DEF left
      <4>2. job = LET l == IF jobs[o].remaining > 0 THEN jobs[o].remaining - 1 ELSE 0
                  IN  [jobs[o] EXCEPT !.remaining = l, !.state = IF l = 0 THEN "done" ELSE @]
        BY <2>1, Zenon DEF Updated
      <4> QED  BY <4>1, <4>2, Zenon
    <3>3. /\ job.pgid = jobs[o].pgid /\ job.pids = jobs[o].pids /\ job.remaining = left
          /\ job.state = IF left = 0 THEN "done" ELSE jobs[o].state
      BY <1>5, <3>2 DEF Jobs
    <3>4. job \in Jobs  BY <1>5, <3>1, <3>2 DEF Jobs, States
    <3> HIDE DEF job
    <3>5. job.state = "done" <=> job.remaining = 0
      <4>1. CASE left = 0  BY <3>3, <4>1
      <4>2. CASE left # 0  BY <2>0, <3>3, <4>2
      <4> QED  BY <4>1, <4>2
    <3> QED  BY <2>1, <3>3, <3>4, <3>5
  <2>2. CASE e = "stopped"
    BY <1>5, <1>6, <2>2 DEF Updated, Jobs, States
  <2>3. CASE e = "continued"
    BY <1>5, <1>6, <2>3 DEF Updated, Jobs, States
  <2> QED  BY <1>4, <2>1, <2>2, <2>3
<1> HIDE DEF job
<1>8. /\ DOMAIN jobs' = DOMAIN jobs /\ jobs'[o] = job
      /\ \A i \in DOMAIN jobs : i # o => jobs'[i] = jobs[i]
  BY <1>3, <1>4 DEF job, IInv, TypeOK
<1>9. /\ \A q \in Pids : q # p => (Live(q)' <=> Live(q))
      /\ Live(p)' <=> e # "ended"
  BY <1>2, <1>4 DEF Live, IInv, TypeOK
<1>10. TypeOK'
  <2>1. jobs' \in [DOMAIN jobs' -> Jobs]
    <3>1. \A i \in DOMAIN jobs : jobs'[i] \in Jobs  BY <1>7, <1>8 DEF IInv, TypeOK
    <3>2. jobs' = [i \in DOMAIN jobs' |-> jobs'[i]]  BY <1>4 DEF IInv, TypeOK
    <3> QED  BY <1>8, <3>1, <3>2
  <2>2. life' \in [Pids -> {"free", "running", "stopped", "zombie"}]
    BY <1>4 DEF IInv, TypeOK
  <2>3. report' \in [Pids -> {"none", "stopped", "continued"}]  BY <1>4 DEF IInv, TypeOK
  <2>4. doomed' \subseteq Pids  BY <1>4 DEF IInv, TypeOK
  <2> QED  BY <1>8, <2>1, <2>2, <2>3, <2>4 DEF IInv, TypeOK, control
<1>11. Places'  BY <1>1, <1>7, <1>8 DEF IInv, Places, control, Reaping
<1>12. Reporting'  BY <1>2, <1>4 DEF IInv, Reporting, TypeOK
<1>17. \A i \in DOMAIN jobs : jobs'[i].pids = jobs[i].pids /\ jobs'[i].pgid = jobs[i].pgid
  BY <1>7, <1>8
<1>18. \A q \in Pids : Live(q)' => Live(q)  BY <1>2, <1>9
<1>13. Listed'
  <2> SUFFICES ASSUME NEW q \in Pids, Live(q)'
               PROVE  \/ owner[q] = next_id
                      \/ /\ owner[q] \in DOMAIN jobs /\ q \in jobs'[owner[q]].pids
                         /\ \A j \in DOMAIN jobs : j > owner[q] => q \notin jobs'[j].pids
    BY <1>8 DEF Listed
  <2> QED  BY <1>1, <1>17, <1>18 DEF IInv, Listed
<1>14. Starting'
  <2>1. Own(next_id)' = Own(next_id)
    <3>1. o # next_id  BY <1>3 DEF IInv, TypeOK
    <3> QED  BY <1>9, <3>1 DEF Own
  <2> QED  BY <2>1 DEF IInv, Starting, control, SetOf
<1>15. Groups'
  <2>1. \A q \in Pids : Live(q)' /\ owner[q] \in DOMAIN jobs => group[q] = jobs'[owner[q]].pgid
    BY <1>1, <1>17, <1>18 DEF IInv, Groups
  <2>2. pc' # "fork" /\ pc # "exited"  BY <1>1 DEF control, Reaping
  <2>3. \A q, r \in Pids : Live(q)' /\ Live(r)' => (group[q] = group[r] <=> owner[q] = owner[r])
    BY <1>1, <1>18 DEF IInv, Groups
  <2> QED  BY <1>8, <2>1, <2>2, <2>3 DEF Groups
<1>16. Counted'
  <2>1. \A i \in DOMAIN jobs : i # o => Own(i)' = Own(i)  BY <1>9 DEF Own
  <2>2. e # "ended" => Own(o)' = Own(o)  BY <1>9, <1>2 DEF Own
  <2>3. e = "ended" => Own(o)' = Own(o) \ {p}  BY <1>9 DEF Own
  <2>4. Cardinality(Own(o) \ {p}) = Cardinality(Own(o)) - 1
    BY <1>5, OwnFinite, FS_RemoveElement
  <2>5. job.remaining = Cardinality(Own(o)')  BY <1>5, <1>7, <2>2, <2>3, <2>4
  <2> QED  BY <1>7, <1>8, <2>1, <2>5 DEF IInv, Counted
<1> QED  BY <1>10, <1>11, <1>12, <1>13, <1>14, <1>15, <1>16 DEF IInv

-----------------------------------------------------------------------------
(* Starting a pipeline *)

\* What a sequence of children becomes at its ends.
LEMMA SetOfEnds ==
  ASSUME NEW s \in Seq(Pids), NEW p \in Pids
  PROVE  /\ SetOf(Append(s, p)) = SetOf(s) \cup {p}
         /\ SetOf(s) \subseteq Pids
         /\ s # <<>> => s[1] \in SetOf(s)
         /\ s # <<>> /\ (\A a, b \in 1 .. Len(s) : s[a] = s[b] => a = b)
              => /\ SetOf(Tail(s)) = SetOf(s) \ {Head(s)}
                 /\ \A a, b \in 1 .. Len(Tail(s)) : Tail(s)[a] = Tail(s)[b] => a = b
<1>1. SetOf(Append(s, p)) = SetOf(s) \cup {p}
  <2>1. Len(Append(s, p)) = Len(s) + 1 /\ Append(s, p)[Len(s) + 1] = p
    OBVIOUS
  <2>2. \A k \in 1 .. Len(s) : Append(s, p)[k] = s[k]  OBVIOUS
  <2>3. 1 .. Len(s) + 1 = (1 .. Len(s)) \cup {Len(s) + 1}  OBVIOUS
  <2> QED  BY <2>1, <2>2, <2>3 DEF SetOf
<1>2. SetOf(s) \subseteq Pids  BY DEF SetOf
<1>3. s # <<>> => s[1] \in SetOf(s)  BY DEF SetOf
<1>4. ASSUME s # <<>>, \A a, b \in 1 .. Len(s) : s[a] = s[b] => a = b
      PROVE  /\ SetOf(Tail(s)) = SetOf(s) \ {Head(s)}
             /\ \A a, b \in 1 .. Len(Tail(s)) : Tail(s)[a] = Tail(s)[b] => a = b
  <2>1. Len(Tail(s)) = Len(s) - 1 /\ Head(s) = s[1] /\ Len(s) \in Nat \ {0}
    BY <1>4
  <2>2. \A k \in 1 .. Len(s) - 1 : Tail(s)[k] = s[k + 1]  BY <1>4
  <2>3. ASSUME NEW x \in SetOf(Tail(s))  PROVE x \in SetOf(s) \ {Head(s)}
    <3>1. PICK k \in 1 .. Len(s) - 1 : x = Tail(s)[k]  BY <2>1 DEF SetOf
    <3>2. x = s[k + 1] /\ k + 1 \in 1 .. Len(s) /\ k + 1 # 1 /\ 1 \in 1 .. Len(s)
      BY <2>1, <2>2, <3>1
    <3>3. x # s[1]  BY <1>4, <3>2
    <3> QED  BY <2>1, <3>2, <3>3 DEF SetOf
  <2>4. ASSUME NEW x \in SetOf(s), x # Head(s)  PROVE x \in SetOf(Tail(s))
    <3>1. PICK k \in 1 .. Len(s) : x = s[k]  BY DEF SetOf
    <3>2. k # 1  BY <2>1, <2>4, <3>1
    <3>3. k - 1 \in 1 .. Len(s) - 1 /\ (k - 1) + 1 = k  BY <2>1, <3>2
    <3>4. x = Tail(s)[k - 1]  BY <2>2, <3>1, <3>3
    <3> QED  BY <2>1, <3>3, <3>4 DEF SetOf
  <2>5. \A a, b \in 1 .. Len(Tail(s)) : Tail(s)[a] = Tail(s)[b] => a = b
    <3> SUFFICES ASSUME NEW a \in 1 .. Len(s) - 1, NEW b \in 1 .. Len(s) - 1,
                        s[a + 1] = s[b + 1]
                 PROVE  a = b
      BY <2>1, <2>2
    <3>1. a + 1 \in 1 .. Len(s) /\ b + 1 \in 1 .. Len(s)  BY <2>1
    <3>2. a + 1 = b + 1  BY <1>4, <3>1
    <3> QED  BY <3>2
  <2> QED  BY <2>3, <2>4, <2>5
<1> QED  BY <1>1, <1>2, <1>3, <1>4

LEMMA ForkKeeps ==
  ASSUME IInv, NEW p \in Pids, Fork(p)
  PROVE  IInv'
<1> USE DEF Fork
<1>1. pids \in Seq(Pids) /\ pc = "fork" /\ pc' = "fork" /\ next_id \in Nat
  BY DEF IInv, TypeOK
<1>2. ~Live(p) /\ \A q \in Pids : Live(q) => group[q] # p  BY DEF Free, Members
<1>3. SetOf(pids') = SetOf(pids) \cup {p} /\ SetOf(pids) \subseteq Pids
  BY <1>1, SetOfEnds
<1>4. \A q \in SetOf(pids) : Live(q) /\ owner[q] = next_id /\ q # p
  BY <1>1, <1>2 DEF IInv, Starting, Own
<1>5. Live(p)' /\ \A q \in Pids : q # p => (Live(q)' <=> Live(q))
  BY DEF Live, IInv, TypeOK
<1>6. /\ owner'[p] = next_id /\ group'[p] = GroupOf(p)
      /\ \A q \in Pids : q # p => owner'[q] = owner[q] /\ group'[q] = group[q]
  BY DEF IInv, TypeOK
<1>7. \A i : i # next_id => Own(i)' = Own(i)  BY <1>2, <1>5, <1>6 DEF Own
<1>8. Own(next_id)' = Own(next_id) \cup {p}  BY <1>5, <1>6 DEF Own, list
<1>9. pids # <<>> => pids[1] \in SetOf(pids)  BY <1>1, SetOfEnds
<1>10. TypeOK'
  <2>1. GroupOf(p) \in Pids  BY <1>3, <1>9 DEF GroupOf
  <2>2. pids' \in Seq(Pids)  BY <1>1
  <2>3. /\ life' \in [Pids -> {"free", "running", "stopped", "zombie"}]
        /\ report' \in [Pids -> {"none", "stopped", "continued"}]
        /\ owner' \in [Pids -> Nat] /\ group' \in [Pids -> Pids \cup {Shell}]
    BY <1>1, <2>1 DEF IInv, TypeOK
  <2> QED  BY <2>2, <2>3 DEF IInv, TypeOK, list
<1>11. Places'  BY <1>1 DEF IInv, Places, list
<1>12. Reporting'  BY DEF IInv, Reporting, TypeOK
<1>13. Listed'  BY <1>1, <1>5, <1>6 DEF IInv, Listed, list
<1>14. Starting'
  <2>1. Own(next_id)' = SetOf(pids')  BY <1>1, <1>3, <1>8 DEF IInv, Starting
  <2>2. Len(pids') = Len(pids) + 1 /\ pids'[Len(pids) + 1] = p
        /\ \A k \in 1 .. Len(pids) : pids'[k] = pids[k] /\ pids[k] # p
    <3>1. \A k \in 1 .. Len(pids) : pids[k] \in SetOf(pids)  BY DEF SetOf
    <3> QED  BY <1>1, <1>4, <3>1
  <2>3. \A a, b \in 1 .. Len(pids') : pids'[a] = pids'[b] => a = b
    <3> SUFFICES ASSUME NEW a \in 1 .. Len(pids) + 1, NEW b \in 1 .. Len(pids) + 1,
                        pids'[a] = pids'[b]
                 PROVE  a = b
      BY <2>2
    <3>1. Len(pids) \in Nat  BY <1>1
    <3>2. CASE a = Len(pids) + 1  BY <2>2, <3>1, <3>2
    <3>3. CASE b = Len(pids) + 1  BY <2>2, <3>1, <3>3
    <3>4. CASE a \in 1 .. Len(pids) /\ b \in 1 .. Len(pids)
      BY <2>2, <3>4 DEF IInv, Starting
    <3> QED  BY <3>1, <3>2, <3>3, <3>4
  <2>5. SetOf(pids)' = SetOf(pids')  BY DEF SetOf
  <2> QED  BY <2>1, <2>3, <2>5 DEF Starting, list, Own
<1>15. Groups'
  <2>1. ASSUME NEW q \in Pids, Live(q)  PROVE group[q] = GroupOf(p) <=> owner[q] = next_id
    <3>1. CASE pids = <<>>
      <4>1. SetOf(pids) = {}  BY <3>1 DEF SetOf
      <4>2. owner[q] # next_id  BY <1>1, <2>1, <4>1 DEF IInv, Starting, Own
      <4> QED  BY <1>2, <2>1, <3>1, <4>2 DEF GroupOf
    <3>2. CASE pids # <<>>
      <4>1. pids[1] \in Pids /\ Live(pids[1]) /\ owner[pids[1]] = next_id
        BY <1>3, <1>4, <1>9, <3>2
      <4>2. group[pids[1]] = pids[1]  BY <1>1, <1>9, <3>2 DEF IInv, Groups
      <4> QED  BY <1>1, <2>1, <3>2, <4>1, <4>2 DEF IInv, Groups, GroupOf
    <3> QED  BY <3>1, <3>2
  <2>2. \A q, r \in Pids : Live(q)' /\ Live(r)' => (group'[q] = group'[r] <=> owner'[q] = owner'[r])
    <3> SUFFICES ASSUME NEW q \in Pids, NEW r \in Pids, Live(q)', Live(r)'
                 PROVE  group'[q] = group'[r] <=> owner'[q] = owner'[r]
      OBVIOUS
    <3>1. CASE q = p /\ r = p  BY <3>1
    <3>2. CASE q = p /\ r # p  BY <1>5, <1>6, <2>1, <3>2
    <3>3. CASE q # p /\ r = p  BY <1>5, <1>6, <2>1, <3>3
    <3>4. CASE q # p /\ r # p  BY <1>1, <1>5, <1>6, <3>4 DEF IInv, Groups
    <3> QED  BY <3>1, <3>2, <3>3, <3>4
  <2>3. \A q \in Pids : Live(q)' /\ owner'[q] \in DOMAIN jobs => group'[q] = jobs[owner'[q]].pgid
    <3>1. next_id \notin DOMAIN jobs  BY DEF IInv, TypeOK
    <3> QED  BY <1>1, <1>5, <1>6, <3>1 DEF IInv, Groups
  <2>4. \A q \in SetOf(pids') : group'[q] = pids'[1]
    <3>1. pids'[1] = GroupOf(p)  BY <1>1 DEF GroupOf
    <3>2. \A q \in SetOf(pids) : group[q] = GroupOf(p)
      <4>1. pids = <<>> => SetOf(pids) = {}  BY DEF SetOf
      <4> QED  BY <1>1, <4>1 DEF IInv, Groups, GroupOf
    <3> QED  BY <1>3, <1>4, <1>6, <3>1, <3>2
  <2>5. SetOf(pids)' = SetOf(pids')  BY DEF SetOf
  <2> QED  BY <2>2, <2>3, <2>4, <2>5 DEF Groups, list
<1>16. Counted'
  <2>1. \A i \in DOMAIN jobs : i # next_id  BY DEF IInv, TypeOK
  <2> QED  BY <1>7, <2>1 DEF IInv, Counted, list
<1> QED  BY <1>10, <1>11, <1>12, <1>13, <1>14, <1>15, <1>16 DEF IInv

\* Distinct children are as many as the sequence is long.
LEMMA SetOfSize ==
  ASSUME NEW s \in Seq(Pids), \A a, b \in 1 .. Len(s) : s[a] = s[b] => a = b
  PROVE  Cardinality(SetOf(s)) = Len(s)
<1>1. s \in [1 .. Len(s) -> SetOf(s)] /\ DOMAIN s = 1 .. Len(s)
  <2>1. s \in [1 .. Len(s) -> Pids]  OBVIOUS
  <2>2. \A k \in 1 .. Len(s) : s[k] \in SetOf(s)  BY DEF SetOf
  <2> QED  BY <2>1, <2>2
<1>2. s \in Injection(1 .. Len(s), SetOf(s))  BY <1>1 DEF Injection, IsInjective
<1>3. \A t \in SetOf(s) : \E k \in 1 .. Len(s) : s[k] = t  BY DEF SetOf
<1>4. s \in Surjection(1 .. Len(s), SetOf(s))  BY <1>1, <1>3 DEF Surjection
<1>5. ExistsBijection(1 .. Len(s), SetOf(s))  BY <1>2, <1>4 DEF ExistsBijection, Bijection
<1> QED  BY <1>5, FS_CountingElements

LEMMA StartedKeeps ==
  ASSUME IInv, Started
  PROVE  IInv'
<1> USE DEF Started, jobs_add, NextId
<1>1. pids \in Seq(Pids) /\ pc = "fork" /\ next_id \in Nat \ {0} /\ cmd.members \in Nat \ {0}
  <2>1. cmd \in Lines /\ cmd.op = "run"  BY DEF IInv, TypeOK, Places
  <2>2. cmd.members \in 1 .. MaxMembers  BY <2>1 DEF Lines
  <2> QED  BY <2>2, BoundsAssumption DEF IInv, TypeOK
<1>2. pids # <<>> /\ Len(pids) \in Nat \ {0} /\ pids[1] \in SetOf(pids) /\ SetOf(pids) \subseteq Pids
  <2>1. pids # <<>> /\ Len(pids) \in Nat \ {0}  BY <1>1
  <2>2. pids[1] \in SetOf(pids)  BY <2>1 DEF SetOf
  <2> QED  BY <1>1, <2>1, <2>2 DEF SetOf
<1> DEFINE job == [pgid |-> pids[1], pids |-> SetOf(pids), remaining |-> Len(pids), state |-> "running"]
<1>3. next_id \notin DOMAIN jobs  BY DEF IInv, TypeOK
<1>4. /\ DOMAIN jobs' = DOMAIN jobs \cup {next_id} /\ jobs'[next_id] = job
      /\ \A i \in DOMAIN jobs : jobs'[i] = jobs[i]
  BY <1>3
<1>5. \A p \in Pids : Live(p)' <=> Live(p)  BY DEF Live, kernel
<1>6. \A i : Own(i)' = Own(i)  BY DEF Own, Live, kernel
<1>7. Own(next_id) = SetOf(pids)  BY <1>1 DEF IInv, Starting
<1>8. pids' = <<>> /\ SetOf(pids)' = {}  BY DEF SetOf
<1>9. pc' \in {"reap", "wait"}  OBVIOUS
<1>10. job \in Jobs  BY <1>2 DEF Jobs, States
<1>11. TypeOK'
  <2>1. jobs' \in [DOMAIN jobs' -> Jobs]
    <3>1. \A i \in DOMAIN jobs' : jobs'[i] \in Jobs  BY <1>4, <1>10 DEF IInv, TypeOK
    <3>2. jobs' = [i \in DOMAIN jobs' |-> jobs'[i]]  BY <1>4
    <3> QED  BY <3>1, <3>2
  <2>2. next_id' \in Nat \ {0} /\ DOMAIN jobs' \subseteq 1 .. next_id' - 1
    BY <1>1, <1>4 DEF IInv, TypeOK
  <2>3. current' \in Nat /\ tty' \in Pids \cup {Shell} /\ pc' \in Reaping \cup {"wait"}
    <3>1. CASE cmd.background
      BY <3>1 DEF IInv, TypeOK, Reaping
    <3>2. CASE ~cmd.background
      BY <1>1, <1>2, <3>2 DEF IInv, TypeOK
    <3> QED  BY <3>1, <3>2
  <2>4. pids' \in Seq(Pids)  OBVIOUS
  <2> QED  BY <2>1, <2>2, <2>3, <2>4 DEF IInv, TypeOK, kernel
<1>12. Places'
  <2>1. tty = Shell  BY <1>1 DEF IInv, Places
  <2>2. CASE cmd.background
    BY <1>8, <2>1, <2>2 DEF Places
  <2>3. CASE ~cmd.background
    BY <1>4, <1>8, <2>3 DEF Places
  <2> QED  BY <2>2, <2>3
<1>13. Reporting'  BY DEF IInv, Reporting, kernel
<1>14. Listed'
  <2> SUFFICES ASSUME NEW p \in Pids, Live(p)
               PROVE  /\ owner[p] \in DOMAIN jobs' /\ p \in jobs'[owner[p]].pids
                      /\ \A j \in DOMAIN jobs' : j > owner[p] => p \notin jobs'[j].pids
    BY <1>5 DEF Listed, kernel
  <2>1. CASE owner[p] = next_id
    <3>1. p \in SetOf(pids)  BY <1>7, <2>1 DEF Own
    <3>2. \A j \in DOMAIN jobs' : ~(j > next_id)  BY <1>1, <1>4 DEF IInv, TypeOK
    <3> QED  BY <1>4, <2>1, <3>1, <3>2
  <2>2. CASE owner[p] # next_id
    <3>1. p \notin SetOf(pids)  BY <1>7, <2>2 DEF Own
    <3>2. /\ owner[p] \in DOMAIN jobs /\ p \in jobs[owner[p]].pids
          /\ \A j \in DOMAIN jobs : j > owner[p] => p \notin jobs[j].pids
      BY <1>1, <2>2 DEF IInv, Listed
    <3> QED  BY <1>4, <3>1, <3>2
  <2> QED  BY <2>1, <2>2
<1>15. Starting'
  <2>1. Own(next_id + 1) = {}
    <3> SUFFICES ASSUME NEW p \in Pids, Live(p), owner[p] = next_id + 1  PROVE FALSE
      BY DEF Own
    <3> QED  BY <1>1 DEF IInv, Listed, TypeOK
  <2>2. 1 .. Len(pids') = {}  BY <1>8
  <2>3. Own(next_id)' = {}
    <3>1. \A p \in Pids : ~(Live(p) /\ owner[p] = next_id + 1)  BY <2>1 DEF Own
    <3> QED  BY <1>5, <3>1 DEF Own, kernel
  <2> QED  BY <1>8, <2>2, <2>3 DEF Starting
<1>16. Groups'
  <2>1. \A p \in Pids : Live(p) /\ owner[p] \in DOMAIN jobs' => group[p] = jobs'[owner[p]].pgid
    <3> SUFFICES ASSUME NEW p \in Pids, Live(p), owner[p] \in DOMAIN jobs'
                 PROVE  group[p] = jobs'[owner[p]].pgid
      OBVIOUS
    <3>1. CASE owner[p] = next_id
      <4>1. p \in SetOf(pids)  BY <1>7, <3>1 DEF Own
      <4> QED  BY <1>1, <1>4, <3>1, <4>1 DEF IInv, Groups
    <3>2. CASE owner[p] # next_id
      BY <1>1, <1>4, <3>2 DEF IInv, Groups
    <3> QED  BY <3>1, <3>2
  <2>2. \A p, q \in Pids : Live(p) /\ Live(q) => (group[p] = group[q] <=> owner[p] = owner[q])
    BY <1>1 DEF IInv, Groups
  <2> QED  BY <1>5, <1>9, <2>1, <2>2 DEF Groups, kernel
<1>17. Counted'
  <2>1. Cardinality(Own(next_id)) = Len(pids)
    BY <1>1, <1>7, SetOfSize DEF IInv, Starting
  <2>2. job.remaining = Len(pids) /\ job.state # "done" /\ Len(pids) # 0  BY <1>2
  <2> HIDE DEF job
  <2>3. \A i \in DOMAIN jobs' : /\ jobs'[i].remaining = Cardinality(Own(i))
                                /\ jobs'[i].state = "done" <=> jobs'[i].remaining = 0
    BY <1>4, <2>1, <2>2 DEF IInv, Counted
  <2> QED  BY <1>6, <2>3 DEF Counted
<1> QED  BY <1>11, <1>12, <1>13, <1>14, <1>15, <1>16, <1>17 DEF IInv

LEMMA CleanupWaitKeeps ==
  ASSUME IInv, CleanupWait
  PROVE  IInv'
<1> USE DEF CleanupWait
<1>1. pids \in Seq(Pids) /\ pids # <<>> /\ pc = "cleanup" /\ pc' = "cleanup"
  BY DEF IInv, TypeOK
<1>0. PICK p \in Pids : p = Head(pids)  BY <1>1
<1>2. /\ p = pids[1] /\ p \in SetOf(pids)
      /\ SetOf(Tail(pids)) = SetOf(pids) \ {p}
      /\ \A a, b \in 1 .. Len(Tail(pids)) : Tail(pids)[a] = Tail(pids)[b] => a = b
  <2>1. p = pids[1]  BY <1>1, <1>0
  <2> QED  BY <1>1, <1>0, <2>1, SetOfEnds DEF IInv, Starting
<1>3. Live(p) /\ owner[p] = next_id  BY <1>1, <1>2 DEF IInv, Starting, Own
<1>4. ~Live(p)' /\ \A q \in Pids : q # p => (Live(q)' <=> Live(q))
  BY <1>0 DEF Live, IInv, TypeOK
<1>5. \A i : i # next_id => Own(i)' = Own(i)  BY <1>3, <1>4 DEF Own
<1>6. Own(next_id)' = Own(next_id) \ {p}  BY <1>4 DEF Own, list
<1>7. TypeOK'
  <2>1. pids' \in Seq(Pids)  BY <1>1
  <2>2. life' \in [Pids -> {"free", "running", "stopped", "zombie"}] /\ doomed' \subseteq Pids
    BY <1>0 DEF IInv, TypeOK
  <2> QED  BY <2>1, <2>2 DEF IInv, TypeOK, list
<1>8. Places'  BY <1>1 DEF IInv, Places, list
<1>9. Reporting'
  <2>1. report[p] = "none"  BY <1>0 DEF IInv, Reporting
  <2> QED  BY <1>0, <2>1 DEF IInv, Reporting, TypeOK
<1>10. Listed'  BY <1>1, <1>3, <1>4 DEF IInv, Listed, list
<1>11. Starting'
  <2>1. SetOf(pids)' = SetOf(Tail(pids))  BY DEF SetOf
  <2> QED  BY <1>1, <1>2, <1>6, <2>1 DEF IInv, Starting
<1>12. Groups'
  <2>1. \A q \in Pids : Live(q)' => Live(q)  BY <1>3, <1>4
  <2> QED  BY <1>1, <2>1 DEF IInv, Groups, list
<1>13. Counted'
  <2>1. \A i \in DOMAIN jobs : i # next_id  BY DEF IInv, TypeOK
  <2> QED  BY <1>5, <2>1 DEF IInv, Counted, list
<1> QED  BY <1>7, <1>8, <1>9, <1>10, <1>11, <1>12, <1>13 DEF IInv

-----------------------------------------------------------------------------
(* The other steps *)

\* A child runs, stops or ends.
LEMMA KernelKeeps ==
  ASSUME IInv, NEW p \in Pids, Ends(p) \/ Stops(p) \/ Resumes(p)
  PROVE  IInv'
<1> USE DEF Ends, Stops, Resumes, Signalled, list, control
<1>1. \A q \in Pids : Live(q)' <=> Live(q)  BY DEF Live, IInv, TypeOK
<1>2. Listed' /\ Starting' /\ Groups' /\ Counted'  BY <1>1, Frame
<1>3. /\ life' \in [Pids -> {"free", "running", "stopped", "zombie"}]
      /\ report' \in [Pids -> {"none", "stopped", "continued"}]
  BY DEF IInv, TypeOK
<1>4. stops' \in Nat  BY DEF IInv, TypeOK
<1>5. TypeOK'  BY <1>3, <1>4 DEF IInv, TypeOK
<1>6. Places'  BY DEF IInv, Places
<1>7. Reporting'  BY DEF IInv, Reporting, TypeOK
<1> QED  BY <1>2, <1>5, <1>6, <1>7 DEF IInv

\* Steps that change only where the shell is.
LEMMA MoveKeeps ==
  ASSUME IInv, Prompt \/ ReapedLine \/ ClearFlag \/ Dispatch \/ ForkFails \/ CleanupEnd
                 \/ FindJob \/ (\E c \in Lines : Read(c))
  PROVE  IInv'
<1> USE DEF Prompt, ReapedLine, ClearFlag, Dispatch, ForkFails, CleanupEnd, FindJob, Read,
            Reaped, list, kernel
<1>1. UNCHANGED <<life, report, group, owner, jobs, next_id, pids>>  OBVIOUS
<1>2. pc # "exited" /\ (pc' = "fork" => pids = <<>>)
  BY DEF IInv, Places, Reaping
<1>3. \A p \in Pids : Live(p)' <=> Live(p)  BY <1>1 DEF Live
<1>4. Listed' /\ Starting' /\ Groups' /\ Counted'  BY <1>1, <1>2, <1>3, Frame
<1>5. Reporting'  BY <1>1 DEF IInv, Reporting
<1>6. TypeOK'
  <2>1. cmd' \in Lines  BY DEF IInv, TypeOK, Lines, NoLine
  <2>2. doomed' \subseteq Pids  BY DEF IInv, TypeOK, Terminate, Members
  <2>3. lines' \in Nat /\ stops' = stops  BY DEF IInv, TypeOK
  <2>4. pc' \in Reaping \cup {"read", "clear", "line", "continue", "fork", "cleanup"}
    BY DEF Reaping
  <2>5. current' \in Nat /\ tty' \in Pids \cup {Shell} /\ sigchld_seen' \in BOOLEAN
    <3>1. CASE FindJob
      <4>1. \A i \in DOMAIN jobs : i \in Nat /\ jobs[i].pgid \in Pids
        BY DEF IInv, TypeOK, Jobs
      <4>2. current' = current \/ current' \in DOMAIN jobs  BY <3>1
      <4>3. tty' = tty \/ \E i \in DOMAIN jobs : tty' = jobs[i].pgid  BY <3>1
      <4>4. sigchld_seen' = sigchld_seen  BY <3>1
      <4> QED  BY <4>1, <4>2, <4>3, <4>4 DEF IInv, TypeOK
    <3>2. CASE ~FindJob
      <4>1. tty' = tty /\ current' \in {current, NoJob} /\ sigchld_seen' \in {sigchld_seen, FALSE}
        BY <3>2
      <4>2. current' \in Nat  BY <4>1 DEF IInv, TypeOK, NoJob
      <4>3. sigchld_seen' \in BOOLEAN
        <5>1. sigchld_seen \in BOOLEAN  BY DEF IInv, TypeOK
        <5> QED  BY <4>1, <5>1, Zenon
      <4> QED  BY <4>1, <4>2, <4>3 DEF IInv, TypeOK
    <3> QED  BY <3>1, <3>2
  <2> QED  BY <1>1, <2>1, <2>2, <2>3, <2>4, <2>5 DEF IInv, TypeOK
<1>7. Places'
  <2>1. CASE FindJob
    BY <1>1, <2>1 DEF IInv, Places
  <2>2. CASE Dispatch
    BY <1>1, <2>2 DEF IInv, Places
  <2>3. CASE ~FindJob /\ ~Dispatch
    BY <1>1, <2>3 DEF IInv, Places
  <2> QED  BY <2>1, <2>2, <2>3
<1> QED  BY <1>4, <1>5, <1>6, <1>7 DEF IInv

LEMMA DestroyKeeps ==
  ASSUME IInv, Exit \/ EndOfInput
  PROVE  IInv'
<1> USE DEF Exit, EndOfInput, Destroy, kernel
<1>1. pc \in {"line", "read"} /\ pc' = "exited" /\ jobs' = NoJobs  OBVIOUS
<1>2. DOMAIN NoJobs = {} /\ NoJobs \in [DOMAIN NoJobs -> Jobs]  BY DEF NoJobs
<1>3. TypeOK'  BY <1>1, <1>2 DEF IInv, TypeOK
<1>4. Places'  BY <1>1 DEF IInv, Places
<1>5. Reporting'  BY DEF IInv, Reporting
<1>6. Starting' /\ Listed' /\ Groups'  BY <1>1 DEF IInv, Starting, Listed, Groups
<1>7. Counted'  BY <1>1, <1>2 DEF Counted
<1> QED  BY <1>3, <1>4, <1>5, <1>6, <1>7 DEF IInv

LEMMA DropKeeps ==
  ASSUME IInv, jobs_print \/ WaitEnd
  PROVE  IInv'
<1> USE DEF jobs_print, WaitEnd, Reaped, kernel
<1>1. pc \in {"reap_jobs", "wait"} /\ pc' = "reap" /\ pids = <<>>
  BY DEF IInv, Places
<1>2. UNCHANGED <<life, report, owner, group, next_id, pids, doomed, stops, cmd, current, lines,
                  sigchld_seen>>
  OBVIOUS
<1>3. tty' = Shell
  BY DEF IInv, Places, TerminalBack
<1>4. PICK D \in SUBSET DOMAIN jobs :
        /\ jobs' = [i \in D |-> jobs[i]]
        /\ \A i \in DOMAIN jobs \ D : jobs[i].state = "done"
  <2>1. CASE jobs_print
    <3> DEFINE D == {j \in DOMAIN jobs : jobs[j].state # "done"}
    <3>1. D \in SUBSET DOMAIN jobs /\ jobs' = [i \in D |-> jobs[i]]
      BY <2>1 DEF jobs_remove_done
    <3>2. \A i \in DOMAIN jobs \ D : jobs[i].state = "done"  OBVIOUS
    <3> HIDE DEF D
    <3> QED  BY <3>1, <3>2
  <2>2. CASE WaitEnd /\ jobs[current].state = "done"
    <3> DEFINE D == DOMAIN jobs \ {current}
    <3>1. D \in SUBSET DOMAIN jobs /\ jobs' = [i \in D |-> jobs[i]]
      BY <2>2 DEF Without
    <3>2. \A i \in DOMAIN jobs \ D : jobs[i].state = "done"  BY <2>2
    <3> HIDE DEF D
    <3> QED  BY <3>1, <3>2
  <2>3. CASE WaitEnd /\ jobs[current].state # "done"
    <3>1. jobs' = jobs /\ jobs = [i \in DOMAIN jobs |-> jobs[i]]  BY <2>3 DEF IInv, TypeOK
    <3> QED  BY <3>1
  <2> QED  BY <2>1, <2>2, <2>3
<1>5. Listed' /\ Starting' /\ Groups' /\ Counted'
  BY <1>1, <1>2, <1>4, Shrink
<1>6. TypeOK'
  <2>1. DOMAIN jobs' \subseteq DOMAIN jobs /\ jobs' \in [DOMAIN jobs' -> Jobs]
    BY <1>4 DEF IInv, TypeOK
  <2>2. pc' \in Reaping  BY <1>1 DEF Reaping
  <2> QED  BY <1>2, <1>3, <2>1, <2>2 DEF IInv, TypeOK
<1>7. Places'  BY <1>1, <1>2, <1>3 DEF Places
<1>8. Reporting'  BY <1>2 DEF IInv, Reporting
<1> QED  BY <1>5, <1>6, <1>7, <1>8 DEF IInv

LEMMA ContinueKeeps ==
  ASSUME IInv, Continue
  PROVE  IInv'
<1> USE DEF Continue, SendContinue
<1>1. /\ pc = "continue" /\ pids = <<>> /\ current \in DOMAIN jobs
      /\ jobs[current].state # "done" /\ cmd.op \in {"fg", "bg"}
      /\ pc' = IF cmd.op = "fg" THEN "wait" ELSE "reap"
  BY DEF IInv, Places
<1>2. /\ life' \in [Pids -> {"free", "running", "stopped", "zombie"}]
      /\ report' \in [Pids -> {"none", "stopped", "continued"}]
      /\ \A p \in Pids : Live(p)' <=> Live(p)
  BY DEF IInv, TypeOK, Live
<1>3. Reporting'  BY DEF IInv, Reporting, TypeOK
<1>4. PICK st \in {jobs[current].state, "running"} : jobs' = [jobs EXCEPT ![current].state = st]
  <2>1. jobs[current] = [jobs[current] EXCEPT !.state = jobs[current].state]
    BY <1>1 DEF IInv, TypeOK, Jobs
  <2>2. jobs = [jobs EXCEPT ![current].state = jobs[current].state]
    BY <1>1, <2>1 DEF IInv, TypeOK
  <2> QED  BY <2>2
<1>5. jobs[current] \in Jobs  BY <1>1 DEF IInv, TypeOK
<1>6. /\ DOMAIN jobs' = DOMAIN jobs
      /\ \A i \in DOMAIN jobs : i # current => jobs'[i] = jobs[i]
      /\ jobs'[current] = [jobs[current] EXCEPT !.state = st]
  BY <1>1, <1>4 DEF IInv, TypeOK
<1>7. /\ jobs'[current] \in Jobs /\ jobs'[current].state # "done"
      /\ jobs'[current].pgid = jobs[current].pgid
      /\ jobs'[current].pids = jobs[current].pids
      /\ jobs'[current].remaining = jobs[current].remaining
  BY <1>1, <1>4, <1>5, <1>6 DEF Jobs, States
<1>8. \A i \in DOMAIN jobs : /\ jobs'[i].pgid = jobs[i].pgid /\ jobs'[i].pids = jobs[i].pids
                             /\ jobs'[i].remaining = jobs[i].remaining
                             /\ jobs'[i].state = "done" <=> jobs[i].state = "done"
  BY <1>1, <1>6, <1>7
<1>9. TypeOK'
  <2>1. jobs' \in [DOMAIN jobs' -> Jobs]
    <3>1. \A i \in DOMAIN jobs : jobs'[i] \in Jobs  BY <1>6, <1>7 DEF IInv, TypeOK
    <3>2. jobs' = [i \in DOMAIN jobs' |-> jobs'[i]]  BY <1>4 DEF IInv, TypeOK
    <3> QED  BY <1>6, <3>1, <3>2
  <2>2. pc' \in Reaping \cup {"wait"}  BY <1>1 DEF Reaping
  <2>3. sigchld_seen' \in BOOLEAN  BY DEF IInv, TypeOK
  <2> QED  BY <1>2, <1>6, <2>1, <2>2, <2>3 DEF IInv, TypeOK
<1>10. Places'  BY <1>1, <1>6, <1>8 DEF IInv, Places
<1>11. \A i : Own(i)' = Own(i)  BY <1>2 DEF Own
<1>12. Listed'
  <2> SUFFICES ASSUME NEW q \in Pids, Live(q)
               PROVE  \/ owner[q] = next_id
                      \/ /\ owner[q] \in DOMAIN jobs /\ q \in jobs'[owner[q]].pids
                         /\ \A j \in DOMAIN jobs : j > owner[q] => q \notin jobs'[j].pids
    BY <1>2, <1>6 DEF Listed
  <2> QED  BY <1>1, <1>8 DEF IInv, Listed
<1>13. Starting'  BY <1>1, <1>11 DEF IInv, Starting, SetOf
<1>14. Groups'
  <2>1. \A q \in Pids : Live(q) /\ owner[q] \in DOMAIN jobs => group[q] = jobs'[owner[q]].pgid
    BY <1>1, <1>8 DEF IInv, Groups
  <2> QED  BY <1>1, <1>2, <1>6, <2>1 DEF IInv, Groups
<1>15. Counted'  BY <1>6, <1>8, <1>11 DEF IInv, Counted
<1> QED  BY <1>3, <1>9, <1>10, <1>12, <1>13, <1>14, <1>15 DEF IInv

-----------------------------------------------------------------------------
(* Theorems *)

LEMMA NextIInv == IInv /\ [Next]_vars => IInv'
<1> SUFFICES ASSUME IInv, [Next]_vars PROVE IInv'  OBVIOUS
<1>1. CASE UNCHANGED vars
  <2>1. \A p \in Pids : Live(p)' <=> Live(p)  BY <1>1 DEF vars, Live
  <2>2. Listed' /\ Starting' /\ Groups' /\ Counted'  BY <1>1, <2>1, Frame DEF vars
  <2>3. TypeOK' /\ Places' /\ Reporting'  BY <1>1 DEF vars, IInv, TypeOK, Places, Reporting
  <2> QED  BY <2>2, <2>3 DEF IInv
<1>2. ASSUME NEW p \in Pids, Reap(p) \/ WaitOne(p)  PROVE IInv'
  BY <1>2, CollectKeeps DEF Reap, WaitOne
<1>3. ASSUME NEW p \in Pids, Fork(p)  PROVE IInv'  BY <1>3, ForkKeeps
<1>4. ASSUME NEW p \in Pids, Ends(p) \/ Stops(p) \/ Resumes(p)  PROVE IInv'
  BY <1>4, KernelKeeps
<1>5. CASE Prompt \/ ReapedLine \/ ClearFlag \/ Dispatch \/ ForkFails \/ CleanupEnd
             \/ FindJob \/ \E c \in Lines : Read(c)
  BY <1>5, MoveKeeps
<1>6. CASE Exit \/ EndOfInput  BY <1>6, DestroyKeeps
<1>7. CASE jobs_print \/ WaitEnd  BY <1>7, DropKeeps
<1>8. CASE Continue  BY <1>8, ContinueKeeps
<1>9. CASE Started  BY <1>9, StartedKeeps
<1>10. CASE CleanupWait  BY <1>10, CleanupWaitKeeps
<1>11. CASE Exited  BY <1>1, <1>11 DEF Exited
<1> QED
  BY <1>1, <1>2, <1>3, <1>4, <1>5, <1>6, <1>7, <1>8, <1>9, <1>10, <1>11 DEF Next, Step, User

LEMMA AlwaysIInv == Spec => []IInv
BY InitIInv, NextIInv, PTL DEF Spec

\* Every variable keeps its type; ids are never given out twice (jobs_add).
THEOREM ShellTypes == Spec => []TypeOK
<1>1. IInv => TypeOK  BY DEF IInv
<1> QED  BY <1>1, AlwaysIInv, PTL

\* A job's remaining is the number of its own processes not yet collected by
\* waitpid, and the job is done exactly when there is none, however process
\* numbers are used again (jobs_update_status, jobs_find_pid).
THEOREM ShellRemainingCounts == Spec => []RemainingCounts
<1>1. IInv => RemainingCounts  BY DEF IInv, Counted, RemainingCounts, Own
<1> QED  BY <1>1, AlwaysIInv, PTL

\* Every child is of the pipeline being started or ended, or of a listed job:
\* jobs_remove, jobs_remove_done and the cleanup after fork lose none.
THEOREM ShellNoneForgotten == Spec => []NoneForgotten
<1>1. IInv => NoneForgotten
  <2> SUFFICES ASSUME IInv, NEW p \in Pids, Live(p), pc # "exited", owner[p] \notin DOMAIN jobs
               PROVE  pc \in {"fork", "cleanup"} /\ p \in SetOf(pids)
    BY DEF NoneForgotten
  <2>1. p \in SetOf(pids)  BY DEF IInv, Listed, Starting, Own
  <2>2. pids # <<>>  BY <2>1 DEF SetOf
  <2> QED  BY <2>1, <2>2 DEF IInv, Places
<1> QED  BY <1>1, AlwaysIInv, PTL

\* The group that fg, bg and the wait use is that of the job's own processes.
THEOREM ShellGroupIsJob == Spec => []GroupIsJob
<1>1. IInv => GroupIsJob
  <2> SUFFICES ASSUME IInv, NEW i \in DOMAIN jobs, jobs[i].state # "done"
               PROVE  Members(jobs[i].pgid) = Own(i)
    BY DEF GroupIsJob, Own
  <2>1. pc # "exited"  BY DEF IInv, Places, NoJobs
  <2>2. Own(i) # {}
    <3>1. Cardinality(Own(i)) # 0  BY DEF IInv, Counted
    <3> QED  BY <3>1, FS_EmptySet
  <2>3. PICK q \in Pids : Live(q) /\ owner[q] = i  BY <2>2 DEF Own
  <2>4. group[q] = jobs[i].pgid  BY <2>1, <2>3 DEF IInv, Groups
  <2>5. \A p \in Pids : Live(p) => (group[p] = jobs[i].pgid <=> owner[p] = i)
    BY <2>1, <2>3, <2>4 DEF IInv, Groups
  <2> QED  BY <2>5 DEF Members, Own
<1> QED  BY <1>1, AlwaysIInv, PTL

\* Outside the wait and fg the terminal is the shell's.
THEOREM ShellTerminal == Spec => []TerminalAtPrompt
<1>1. IInv => TerminalAtPrompt  BY DEF IInv, Places, TerminalAtPrompt
<1> QED  BY <1>1, AlwaysIInv, PTL
=============================================================================
