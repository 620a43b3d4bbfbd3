------------------------------ MODULE Capsule ------------------------------
(***************************************************************************)
(* The capsule run-time, libcapsule/capsule.c.  One runner for each        *)
(* processor takes jobs from a common list; a job that finds a processor   *)
(* free (capsule_probe) hands work to it (capsule_divide), and waits for   *)
(* the jobs of its group (capsule_group_join) while it runs whatever job   *)
(* it finds in the list, on its own stack.  Semaphores are their counts,   *)
(* see Semaphore.                                                          *)
(*                                                                         *)
(* Jobs call the library as it is meant: they join the groups they have    *)
(* split off before they return, and no others.                            *)
(*                                                                         *)
(* runner: "boot", "wait" (for has_job), "pop", "run" (the job on top of   *)
(*   its stack), "push" and "give" (in capsule_divide), "join", "joined",  *)
(*   "done" (the job has returned), "free" (no job), "end" (of main)       *)
(***************************************************************************)
EXTENDS Integers, FiniteSets, Sequences, Functions

CONSTANTS
  Runner,
  MaxJob,    \* bound: jobs, main is 0
  MaxGroup,  \* bound: groups at a time, main's is 0
  MaxSplit   \* bound: groups split off

ASSUME CapsuleAssumption == {MaxJob, MaxGroup, MaxSplit} \subseteq Nat /\ IsFiniteSet(Runner)

VARIABLES
  booted,    \* app_start has run
  free_cpu, has_job,  \* counts of the semaphores
  jobs,      \* the list of jobs
  cp_pc,
  cstack,    \* jobs in progress on each runner, the current one last
  probed,    \* the job a runner has got from capsule_probe
  group,     \* job->group
  owner,     \* the job that has split the group off, -1 for a free group
  parent,    \* group->parent
  join,      \* count of group->join
  started,   \* jobs so far
  splits     \* groups split off so far

cpVars == <<booted, free_cpu, has_job, jobs, cp_pc, cstack, probed, group, owner, parent, join, started, splits>>

Group == 0..MaxGroup

CpInit ==
  /\ booted = FALSE /\ free_cpu = 0 /\ has_job = 0 /\ jobs = <<>>
  /\ cp_pc = [r \in Runner |-> "boot"] /\ cstack = [r \in Runner |-> <<>>]
  /\ probed = [r \in Runner |-> 0] /\ group = [j \in 0..MaxJob |-> 0]
  /\ owner = [g \in Group |-> IF g = 0 THEN 0 ELSE -1] /\ parent = [g \in Group |-> 0]
  /\ join = [g \in Group |-> IF g = 0 THEN 1 ELSE 0]
  /\ started = 0 /\ splits = 0

cur_job(r) == cstack[r][Len(cstack[r])]
CpAt(r, pc) == cp_pc[r] = pc
CpGoto(r, pc) == cp_pc' = [cp_pc EXCEPT ![r] = pc]

-----------------------------------------------------------------------------
\* waits for a runner, and makes main the first job
app_start ==
  /\ ~booted /\ free_cpu > 0
  /\ booted' = TRUE
  /\ free_cpu' = free_cpu - 1 /\ has_job' = has_job + 1 /\ jobs' = <<0>>
  /\ UNCHANGED <<cp_pc, cstack, probed, group, owner, parent, join, started, splits>>

\* capsule_sys_runner: says that it is free, at first and after each job
runner_free(r) ==
  /\ CpAt(r, "boot") \/ CpAt(r, "free")
  /\ free_cpu' = free_cpu + 1
  /\ CpGoto(r, "wait")
  /\ UNCHANGED <<booted, has_job, jobs, cstack, probed, group, owner, parent, join, started, splits>>

\* is told of a job
runner_take(r) ==
  /\ CpAt(r, "wait") /\ has_job > 0
  /\ has_job' = has_job - 1
  /\ CpGoto(r, "pop")
  /\ UNCHANGED <<booted, free_cpu, jobs, cstack, probed, group, owner, parent, join, started, splits>>

RunJob(r) ==
  /\ cstack' = [cstack EXCEPT ![r] = Append(@, Head(jobs))]
  /\ jobs' = Tail(jobs)
  /\ CpGoto(r, "run")

\* the job may be gone, a joining runner has taken it
runner_pop(r) ==
  /\ CpAt(r, "pop")
  /\ IF jobs = <<>> THEN CpGoto(r, "free") /\ UNCHANGED <<jobs, cstack>> ELSE RunJob(r)
  /\ UNCHANGED <<booted, free_cpu, has_job, probed, group, owner, parent, join, started, splits>>

\* MUTANT of capsule_probe: the group is not told of the job
MutProbe(r) ==
  LET g == group[cur_job(r)] IN
  /\ CpAt(r, "run") /\ free_cpu > 0 /\ started < MaxJob
  /\ free_cpu' = free_cpu - 1
  /\ started' = started + 1
  /\ probed' = [probed EXCEPT ![r] = started + 1]
  /\ group' = [group EXCEPT ![started + 1] = g]
  /\ CpGoto(r, "push")
  /\ UNCHANGED <<booted, has_job, jobs, cstack, owner, parent, join, splits>>

\* a processor is free: a job of the group of the caller
capsule_probe(r) ==
  LET g == group[cur_job(r)] IN
  /\ CpAt(r, "run") /\ free_cpu > 0 /\ started < MaxJob
  /\ free_cpu' = free_cpu - 1
  /\ started' = started + 1
  /\ probed' = [probed EXCEPT ![r] = started + 1]
  /\ group' = [group EXCEPT ![started + 1] = g]
  /\ join' = [join EXCEPT ![g] = @ - 1]
  /\ CpGoto(r, "push")
  /\ UNCHANGED <<booted, has_job, jobs, cstack, owner, parent, splits>>

\* capsule_divide: the job is put in the list ...
divide_push(r) ==
  /\ CpAt(r, "push")
  /\ jobs' = <<probed[r]>> \o jobs
  /\ probed' = [probed EXCEPT ![r] = 0]
  /\ CpGoto(r, "give")
  /\ UNCHANGED <<booted, free_cpu, has_job, cstack, group, owner, parent, join, started, splits>>

\* ... and a runner is told
divide_give(r) ==
  /\ CpAt(r, "give")
  /\ has_job' = has_job + 1
  /\ CpGoto(r, "run")
  /\ UNCHANGED <<booted, free_cpu, jobs, cstack, probed, group, owner, parent, join, started, splits>>

capsule_group_split(r) ==
  /\ CpAt(r, "run") /\ splits < MaxSplit
  /\ splits' = splits + 1
  /\ \E g \in Group :
       /\ owner[g] = -1 /\ \A h \in 0..(g - 1) : owner[h] # -1
       /\ owner' = [owner EXCEPT ![g] = cur_job(r)]
       /\ parent' = [parent EXCEPT ![g] = group[cur_job(r)]]
       /\ join' = [join EXCEPT ![g] = 1]
       /\ group' = [group EXCEPT ![cur_job(r)] = g]
  /\ UNCHANGED <<booted, free_cpu, has_job, jobs, cp_pc, cstack, probed, started>>

capsule_group_join(r) ==
  /\ CpAt(r, "run") /\ owner[group[cur_job(r)]] = cur_job(r)
  /\ CpGoto(r, "join")
  /\ UNCHANGED <<booted, free_cpu, has_job, jobs, cstack, probed, group, owner, parent, join, started, splits>>

\* _capsule_semaphore_take: meanwhile, another job; its has_job stays
join_steal(r) ==
  /\ CpAt(r, "join") /\ join[group[cur_job(r)]] <= 0 /\ jobs # <<>>
  /\ RunJob(r)
  /\ UNCHANGED <<booted, free_cpu, has_job, probed, group, owner, parent, join, started, splits>>

\* the others have ended
join_take(r) ==
  LET g == group[cur_job(r)] IN
  /\ CpAt(r, "join") /\ join[g] > 0
  /\ join' = [join EXCEPT ![g] = @ - 1]
  /\ CpGoto(r, "joined")
  /\ UNCHANGED <<booted, free_cpu, has_job, jobs, cstack, probed, group, owner, parent, started, splits>>

\* MUTANT of join_done: main's group gets no unit back
MutJoinDone(r) ==
  LET g == group[cur_job(r)] IN
  /\ CpAt(r, "joined")
  /\ IF g = 0
     THEN UNCHANGED <<join, group, owner, parent>>
     ELSE /\ group' = [group EXCEPT ![cur_job(r)] = parent[g]]
          /\ owner' = [owner EXCEPT ![g] = -1] /\ parent' = [parent EXCEPT ![g] = 0]
          /\ UNCHANGED join
  /\ CpGoto(r, "run")
  /\ UNCHANGED <<booted, free_cpu, has_job, jobs, cstack, probed, started, splits>>

\* the group is released; main's is kept
join_done(r) ==
  LET g == group[cur_job(r)] IN
  /\ CpAt(r, "joined")
  /\ IF g = 0
     THEN join' = [join EXCEPT ![g] = @ + 1] /\ UNCHANGED <<group, owner, parent>>
     ELSE /\ group' = [group EXCEPT ![cur_job(r)] = parent[g]]
          /\ owner' = [owner EXCEPT ![g] = -1] /\ parent' = [parent EXCEPT ![g] = 0]
          /\ UNCHANGED join
  /\ CpGoto(r, "run")
  /\ UNCHANGED <<booted, free_cpu, has_job, jobs, cstack, probed, started, splits>>

\* do_one_job: the job returns, its group is told
job_end(r) ==
  LET g == group[cur_job(r)] IN
  /\ CpAt(r, "run") /\ owner[g] # cur_job(r)
  /\ join' = [join EXCEPT ![g] = @ + 1]
  /\ CpGoto(r, "done")
  /\ UNCHANGED <<booted, free_cpu, has_job, jobs, cstack, probed, group, owner, parent, started, splits>>

\* back to the job below, which was joining, or to the runner
job_done(r) ==
  /\ CpAt(r, "done")
  /\ cstack' = [cstack EXCEPT ![r] = SubSeq(@, 1, Len(@) - 1)]
  /\ CpGoto(r, IF Len(cstack[r]) > 1 THEN "join" ELSE "free")
  /\ UNCHANGED <<booted, free_cpu, has_job, jobs, probed, group, owner, parent, join, started, splits>>

\* main does not return
main_end(r) ==
  /\ CpAt(r, "run") /\ cur_job(r) = 0 /\ group[0] = 0
  /\ CpGoto(r, "end")
  /\ UNCHANGED <<booted, free_cpu, has_job, jobs, cstack, probed, group, owner, parent, join, started, splits>>

\* what a runner does by itself; jobs are finite
Work(r) ==
  \/ runner_free(r) \/ runner_take(r) \/ runner_pop(r) \/ divide_push(r) \/ divide_give(r)
  \/ join_steal(r) \/ join_take(r) \/ join_done(r) \/ job_end(r) \/ job_done(r)

CpNext ==
  \/ app_start
  \/ \E r \in Runner :
       \/ Work(r) \/ capsule_probe(r) \/ capsule_group_split(r) \/ capsule_group_join(r) \/ main_end(r)

CpFair == WF_cpVars(app_start) /\ \A r \in Runner : WF_cpVars(Work(r) \/ capsule_group_join(r))
-----------------------------------------------------------------------------
\* The type invariant.
CpTypeOK ==
  /\ free_cpu \in 0..Cardinality(Runner) /\ has_job \in 0..Cardinality(Runner)
  /\ join \in [Group -> (-MaxJob)..1] /\ group \in [0..MaxJob -> Group]

\* jobs that have been probed and have not told their group that they end
Unfinished ==
  Range(jobs) \cup {probed[r] : r \in {q \in Runner : CpAt(q, "push")}} \cup
  UNION {Range(IF CpAt(r, "done") THEN SubSeq(cstack[r], 1, Len(cstack[r]) - 1) ELSE cstack[r]) : r \in Runner}

\* A join waits for every job of the group, those that other runners or the
\* joining one have taken from the list included, and finds the group's
\* semaphore as group_release asserts (capsule.c:131, 376).
JoinWaits ==
  \A r \in Runner : CpAt(r, "joined") =>
    LET g == group[cur_job(r)] IN
    /\ join[g] = 0
    /\ \A j \in Unfinished \ {cur_job(r)} : group[j] # g

\* Processors are neither lost nor counted twice, although joining runners take
\* jobs that other runners have been told of: each one that has booted is free,
\* promised to a job, told of one, or at work (capsule.c:198, 335, 393).
ProcessorsCounted ==
  Cardinality({r \in Runner : ~CpAt(r, "boot")}) =
    free_cpu + has_job
    + Cardinality({r \in Runner : CpAt(r, "push") \/ CpAt(r, "give")})
    + Cardinality({r \in Runner : ~CpAt(r, "boot") /\ ~CpAt(r, "wait")})

\* Every join returns, even when all the runners are joining (capsule.c:392).
JoinReturns == \A r \in Runner : CpAt(r, "join") ~> ~CpAt(r, "join")

\* What probe, divide, split, join and the runners keep true: a join waits for
\* all its jobs, processors are counted right (capsule.c:150-397).
CapsuleInv == CpTypeOK /\ JoinWaits /\ ProcessorsCounted
=============================================================================
