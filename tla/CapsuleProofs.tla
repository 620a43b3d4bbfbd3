----------------------------- MODULE CapsuleProofs -----------------------------
(***************************************************************************)
(* CapsuleInv holds of the capsule run-time for any finite number of       *)
(* processors and any number of jobs and groups: a join waits for all the  *)
(* jobs of its group, and no processor is lost or counted twice.           *)
(*                                                                         *)
(* A group's semaphore is one less the jobs a join of it has to wait for,  *)
(* Members, among them those that have split off groups of their own since *)
(* (JoinCounts).  To know which these are takes a place for each job       *)
(* (OnePlace) and the chain of groups it has been in (Chains).             *)
(***************************************************************************)
EXTENDS Capsule, FiniteSetTheorems, TLAPS

\* Zenon proves what names no other prover, within 20 seconds
USE ZenonT(20)

-----------------------------------------------------------------------------
(* Places.                                                                 *)

CpSpec == CpInit /\ [][CpNext]_cpVars

\* main is 0
Job == 0..MaxJob

\* runs no job
Idle(r) == cp_pc[r] \in {"boot", "wait", "pop", "free"}

\* what the variables hold
CpTypes ==
  /\ booted \in BOOLEAN /\ free_cpu \in Nat /\ has_job \in Nat
  /\ jobs \in Seq(Job) /\ cstack \in [Runner -> Seq(Job)] /\ probed \in [Runner -> Job]
  /\ cp_pc \in [Runner -> {"boot", "wait", "pop", "run", "push", "give", "join", "joined", "done", "free", "end"}]
  /\ group \in [Job -> Group] /\ owner \in [Group -> Job \cup {-1}] /\ parent \in [Group -> Group]
  /\ join \in [Group -> Int] /\ started \in Job

\* A runner has no job before it has taken one and after the last one has
\* ended; nothing runs before app_start.
Stacks ==
  /\ \A r \in Runner : Idle(r) <=> cstack[r] = <<>>
  /\ ~booted => /\ jobs = <<>> /\ has_job = 0 /\ group[0] = 0 /\ started = 0
                /\ \A r \in Runner : CpAt(r, "boot") \/ CpAt(r, "wait")
                /\ \A g \in Group \ {0} : owner[g] = -1

\* A job is in one place: in the list, with the runner that has probed it, or on
\* one stack.
OnePlace ==
  /\ \A i, k \in 1..Len(jobs) : jobs[i] = jobs[k] => i = k
  /\ \A i \in 1..Len(jobs) : jobs[i] <= started
  /\ \A r, q \in Runner : \A i \in 1..Len(cstack[r]), k \in 1..Len(cstack[q]) :
       cstack[r][i] = cstack[q][k] => r = q /\ i = k
  /\ \A r \in Runner : \A i \in 1..Len(cstack[r]) :
       cstack[r][i] <= started /\ \A k \in 1..Len(jobs) : cstack[r][i] # jobs[k]
  /\ \A r \in Runner : CpAt(r, "push") =>
       /\ probed[r] <= started
       /\ \A k \in 1..Len(jobs) : jobs[k] # probed[r]
       /\ \A q \in Runner : \A i \in 1..Len(cstack[q]) : cstack[q][i] # probed[r]
       /\ \A q \in Runner : q # r /\ CpAt(q, "push") => probed[q] # probed[r]

\* Where the jobs are.
PlacesInv == CpTypes /\ Stacks /\ OnePlace

\* The jobs that have not ended, by their places.
Left(l, st, pr, pc) ==
  Range(l) \cup {pr[r] : r \in {q \in Runner : pc[q] = "push"}} \cup
  UNION {Range(IF pc[r] = "done" THEN SubSeq(st[r], 1, Len(st[r]) - 1) ELSE st[r]) : r \in Runner}

\* A job has not ended when it is in one of them.
LEMMA LeftIs ==
  ASSUME NEW l \in Seq(Job), NEW st \in [Runner -> Seq(Job)], NEW pr, NEW pc, NEW j
  PROVE  j \in Left(l, st, pr, pc) <=>
           \/ \E k \in 1..Len(l) : l[k] = j
           \/ \E r \in Runner : pc[r] = "push" /\ pr[r] = j
           \/ \E r \in Runner : \E i \in 1..Len(st[r]) : (pc[r] = "done" => i # Len(st[r])) /\ st[r][i] = j
  <1>1. j \in Range(l) <=> \E k \in 1..Len(l) : l[k] = j
    BY SMTT(30) DEF Range
  <1>2. j \in {pr[r] : r \in {q \in Runner : pc[q] = "push"}} <=>
          \E r \in Runner : pc[r] = "push" /\ pr[r] = j
    OBVIOUS
  <1>3. ASSUME NEW r \in Runner
        PROVE  j \in Range(IF pc[r] = "done" THEN SubSeq(st[r], 1, Len(st[r]) - 1) ELSE st[r])
                 <=> \E i \in 1..Len(st[r]) : (pc[r] = "done" => i # Len(st[r])) /\ st[r][i] = j
    <2>1. PICK s, n : s = st[r] /\ n = Len(s)
      OBVIOUS
    <2>2. s \in Seq(Job) /\ n \in Nat
      BY <2>1, SMTT(30)
    <2>3. CASE pc[r] = "done"
      <3>1. PICK t : t = SubSeq(s, 1, n - 1)
        OBVIOUS
      <3>2. DOMAIN t = 1..(n - 1) /\ \A i \in 1..(n - 1) : t[i] = s[i]
        BY <2>1, <2>2, <3>1, SMTT(30)
      <3>3. j \in Range(t) <=> \E i \in 1..(n - 1) : s[i] = j
        BY <3>2 DEF Range
      <3>4. \A i : i \in 1..(n - 1) <=> (i \in 1..n /\ i # n)
        BY <2>2, SMTT(30)
      <3> QED
        BY <2>1, <2>3, <3>1, <3>3, <3>4
    <2>4. CASE pc[r] # "done"
      BY <2>1, <2>2, <2>4, SMTT(30) DEF Range
    <2> QED
      BY <2>3, <2>4
  <1>4. j \in UNION {Range(IF pc[r] = "done" THEN SubSeq(st[r], 1, Len(st[r]) - 1) ELSE st[r]) : r \in Runner}
          <=> \E r \in Runner : \E i \in 1..Len(st[r]) : (pc[r] = "done" => i # Len(st[r])) /\ st[r][i] = j
    BY <1>3
  <1> QED
    BY <1>1, <1>2, <1>4 DEF Left

\* The same in this state ...
LEMMA UnfinishedIs ==
  ASSUME CpTypes, NEW j
  PROVE  j \in Unfinished <=>
           \/ \E k \in 1..Len(jobs) : jobs[k] = j
           \/ \E r \in Runner : CpAt(r, "push") /\ probed[r] = j
           \/ \E r \in Runner : \E i \in 1..Len(cstack[r]) :
                (CpAt(r, "done") => i # Len(cstack[r])) /\ cstack[r][i] = j
  <1>1. Unfinished = Left(jobs, cstack, probed, cp_pc)
    BY DEF Unfinished, Left, CpAt
  <1>2. jobs \in Seq(Job) /\ cstack \in [Runner -> Seq(Job)]
    BY DEF CpTypes
  <1> QED
    BY <1>1, <1>2, LeftIs, SMTT(30) DEF CpAt

\* ... and in the next one.
LEMMA UnfinishedNext ==
  ASSUME jobs' \in Seq(Job), cstack' \in [Runner -> Seq(Job)], NEW j
  PROVE  j \in Unfinished' <=>
           \/ \E k \in 1..Len(jobs') : jobs'[k] = j
           \/ \E r \in Runner : CpAt(r, "push")' /\ probed'[r] = j
           \/ \E r \in Runner : \E i \in 1..Len(cstack'[r]) :
                (CpAt(r, "done")' => i # Len(cstack'[r])) /\ cstack'[r][i] = j
  <1>1. Unfinished' = Left(jobs', cstack', probed', cp_pc')
    BY DEF Unfinished, Left, CpAt
  <1> QED
    BY <1>1, LeftIs, SMTT(30) DEF CpAt

\* A runner goes on; no job changes its place.
LEMMA GoesOn ==
  ASSUME PlacesInv, NEW r \in Runner, NEW b,
         b \in {"boot", "wait", "pop", "run", "give", "join", "joined", "done", "free", "end"},
         cp_pc' = [cp_pc EXCEPT ![r] = b],
         b \in {"boot", "wait", "pop", "free"} <=> cstack[r] = <<>>,
         UNCHANGED <<jobs, cstack, probed, started>>
  PROVE  OnePlace' /\ \A q \in Runner : Idle(q)' <=> cstack'[q] = <<>>
  <1>1. \A q \in Runner : CpAt(q, "push")' => CpAt(q, "push")
    BY DEF PlacesInv, CpTypes, CpAt
  <1>2. OnePlace'
    BY <1>1, SMTT(30) DEF PlacesInv, OnePlace
  <1>3. \A q \in Runner : Idle(q)' <=> cstack'[q] = <<>>
    BY DEF PlacesInv, CpTypes, Stacks, Idle
  <1> QED
    BY <1>2, <1>3

\* No job is probed or ends.
LEMMA SameJobs ==
  ASSUME UNCHANGED <<jobs, cstack, probed>>,
         \A q \in Runner : (CpAt(q, "push")' <=> CpAt(q, "push")) /\ (CpAt(q, "done")' <=> CpAt(q, "done"))
  PROVE  Unfinished' = Unfinished
  <1>1. {q \in Runner : CpAt(q, "push")}' = {q \in Runner : CpAt(q, "push")}
    OBVIOUS
  <1>2. \A q \in Runner :
          (IF CpAt(q, "done")' THEN SubSeq(cstack[q], 1, Len(cstack[q]) - 1) ELSE cstack[q]) =
          (IF CpAt(q, "done") THEN SubSeq(cstack[q], 1, Len(cstack[q]) - 1) ELSE cstack[q])
    OBVIOUS
  <1> QED
    BY <1>1, <1>2 DEF Unfinished

\* Taking the first job of the list.
LEMMA ListTaken ==
  ASSUME NEW S, NEW s \in Seq(S), s # <<>>
  PROVE  /\ Head(s) = s[1] /\ s[1] \in S /\ Len(s) \in Nat \ {0}
         /\ Tail(s) \in Seq(S) /\ Len(Tail(s)) = Len(s) - 1
         /\ \A i \in 1..(Len(s) - 1) : Tail(s)[i] = s[i + 1] /\ i + 1 \in 1..Len(s)
  BY SMTT(30)

\* Putting a job on a stack, or in front of the list.
LEMMA StackGrows ==
  ASSUME NEW S, NEW s \in Seq(S), NEW x \in S
  PROVE  /\ Append(s, x) \in Seq(S) /\ Append(s, x) # <<>> /\ Len(Append(s, x)) = Len(s) + 1
         /\ \A i \in 1..Len(s) : Append(s, x)[i] = s[i]
         /\ Append(s, x)[Len(s) + 1] = x
  BY SMTT(30)

\* The same for a job that is put in front of the list.
LEMMA ListGrows ==
  ASSUME NEW S, NEW s \in Seq(S), NEW x \in S
  PROVE  /\ <<x>> \o s \in Seq(S) /\ Len(<<x>> \o s) = Len(s) + 1
         /\ (<<x>> \o s)[1] = x
         /\ \A i \in 1..Len(s) : (<<x>> \o s)[i + 1] = s[i]
         /\ \A i \in 1..(Len(s) + 1) : i = 1 \/ (i - 1 \in 1..Len(s) /\ (<<x>> \o s)[i] = s[i - 1])
  <1>1. <<x>> \in Seq(S) /\ Len(<<x>>) = 1 /\ <<x>>[1] = x /\ Len(s) \in Nat
    BY SMTT(30)
  <1>2. PICK t : t = <<x>>
    OBVIOUS
  <1>3. t \o s \in Seq(S) /\ Len(t \o s) = 1 + Len(s)
    BY <1>1, <1>2, SMTT(30)
  <1>4. \A i \in 1..(Len(s) + 1) : (t \o s)[i] = IF i <= 1 THEN t[i] ELSE s[i - 1]
    BY <1>1, <1>2, SMTT(30)
  <1> QED
    BY <1>1, <1>2, <1>3, <1>4, SMTT(30)

\* The job on top of a stack leaves it.
LEMMA StackShrinks ==
  ASSUME NEW S, NEW s \in Seq(S), s # <<>>
  PROVE  /\ SubSeq(s, 1, Len(s) - 1) \in Seq(S) /\ Len(SubSeq(s, 1, Len(s) - 1)) = Len(s) - 1
         /\ \A i \in 1..(Len(s) - 1) : SubSeq(s, 1, Len(s) - 1)[i] = s[i] /\ i \in 1..Len(s)
         /\ SubSeq(s, 1, Len(s) - 1) = <<>> <=> Len(s) = 1
         /\ Len(s) \in Nat \ {0}
  <1>1. PICK n : n = Len(s)
    OBVIOUS
  <1>2. n \in Nat \ {0} /\ \A i \in 1..n : s[i] \in S
    BY <1>1, SMTT(30)
  <1>3. PICK t : t = SubSeq(s, 1, n - 1)
    OBVIOUS
  <1>4. t \in Seq(S) /\ Len(t) = n - 1 /\ \A i \in 1..(n - 1) : t[i] = s[i] /\ i \in 1..n
    BY <1>1, <1>2, <1>3, SMTT(30)
  <1>5. t = <<>> <=> n = 1
    BY <1>2, <1>4, SMTT(30)
  <1> QED
    BY <1>1, <1>2, <1>3, <1>4, <1>5

\* RunJob moves a job from the list to a stack.
LEMMA TakesJob ==
  ASSUME PlacesInv, NEW r \in Runner, jobs # <<>>, RunJob(r), CpAt(r, "pop") \/ CpAt(r, "join"),
         UNCHANGED <<probed, started>>
  PROVE  /\ jobs' \in Seq(Job) /\ cstack' \in [Runner -> Seq(Job)]
         /\ cp_pc' = [cp_pc EXCEPT ![r] = "run"]
         /\ OnePlace' /\ \A q \in Runner : Idle(q)' <=> cstack'[q] = <<>>
         /\ booted
         /\ Unfinished' = Unfinished
         /\ \A q \in Runner \ {r} : cstack'[q] = cstack[q]
         /\ Len(cstack'[r]) = Len(cstack[r]) + 1
         /\ \A i \in 1..Len(cstack[r]) : cstack'[r][i] = cstack[r][i]
         /\ CpTypes
  <1>1. PICK l, n, s, m, j : l = jobs /\ n = Len(l) /\ s = cstack[r] /\ m = Len(s) /\ j = Head(l)
    OBVIOUS
  <1>2. CpTypes /\ Stacks /\ OnePlace
    BY DEF PlacesInv
  <1>3. l \in Seq(Job) /\ s \in Seq(Job) /\ n \in Nat \ {0} /\ m \in Nat
    BY <1>1, <1>2, ListTaken, SMTT(30) DEF CpTypes
  <1>4. /\ j = l[1] /\ j \in Job /\ jobs' = Tail(l) /\ jobs' \in Seq(Job) /\ Len(jobs') = n - 1
        /\ \A i \in 1..(n - 1) : jobs'[i] = l[i + 1] /\ i + 1 \in 1..n
    BY <1>1, <1>3, ListTaken, SMTT(30) DEF RunJob
  <1>5. /\ cstack' = [cstack EXCEPT ![r] = Append(s, j)] /\ cstack'[r] = Append(s, j)
        /\ cstack' \in [Runner -> Seq(Job)]
        /\ cstack'[r] # <<>> /\ Len(cstack'[r]) = m + 1
        /\ \A i \in 1..m : cstack'[r][i] = s[i]
        /\ cstack'[r][m + 1] = j
        /\ \A q \in Runner \ {r} : cstack'[q] = cstack[q]
    <2>1. cstack' = [cstack EXCEPT ![r] = Append(s, j)] /\ cstack \in [Runner -> Seq(Job)]
      BY <1>1, <1>2 DEF RunJob, CpTypes
    <2> QED
      BY <2>1, <1>1, <1>3, <1>4, StackGrows, SMTT(30)
  <1>6. /\ cp_pc' = [cp_pc EXCEPT ![r] = "run"] /\ cp_pc'[r] = "run"
        /\ \A q \in Runner \ {r} : cp_pc'[q] = cp_pc[q]
    BY <1>2 DEF RunJob, CpGoto, CpTypes
  <1>7. \A i \in 1..(m + 1) : i \in 1..m \/ i = m + 1
    BY <1>3, SMTT(30)
  <1>8. \A q \in Runner : Idle(q)' <=> cstack'[q] = <<>>
    BY <1>2, <1>5, <1>6 DEF Idle, Stacks
  <1>9. booted
    BY <1>2 DEF Stacks, CpTypes, CpAt
  <1>10. 1 \in 1..n /\ \A i \in 1..(n - 1) : i + 1 # 1
    BY <1>3, SMTT(30)
  <1>11. ASSUME NEW q \in Runner, NEW i \in 1..Len(cstack'[q])
         PROVE  (i \in 1..Len(cstack[q]) /\ cstack'[q][i] = cstack[q][i]) \/ (q = r /\ i = m + 1 /\ cstack'[q][i] = j)
    BY <1>1, <1>5, <1>7
  <1>12. \A q \in Runner : \A i \in 1..Len(cstack[q]) : cstack[q][i] # j /\ cstack[q][i] <= started
    BY <1>1, <1>2, <1>4, <1>10, SMTT(30) DEF OnePlace
  <1>13. \A i \in 1..(n - 1) : jobs'[i] # j
    BY <1>1, <1>2, <1>4, <1>10, SMTT(30) DEF OnePlace
  <1>14. OnePlace'
    <2>1. \A i, k \in 1..Len(jobs') : jobs'[i] = jobs'[k] => i = k
      <3>1. \A i, k \in 1..(n - 1) : i + 1 = k + 1 => i = k
        BY <1>3, SMTT(30)
      <3> QED
        BY <1>1, <1>2, <1>4, <3>1, SMTT(30) DEF OnePlace
    <2>2. \A i \in 1..Len(jobs') : jobs'[i] <= started'
      BY <1>1, <1>2, <1>4, SMTT(30) DEF OnePlace
    <2>3. \A p, q \in Runner : \A i \in 1..Len(cstack'[p]), k \in 1..Len(cstack'[q]) :
            cstack'[p][i] = cstack'[q][k] => p = q /\ i = k
      BY <1>2, <1>11, <1>12, SMTT(30) DEF OnePlace
    <2>4. ASSUME NEW q \in Runner, NEW i \in 1..Len(cstack'[q])
          PROVE  cstack'[q][i] <= started' /\ \A k \in 1..Len(jobs') : cstack'[q][i] # jobs'[k]
      BY <1>1, <1>2, <1>4, <1>10, <1>11, <1>13, SMTT(30) DEF OnePlace
    <2>5. ASSUME NEW q \in Runner, CpAt(q, "push")'
          PROVE  /\ probed'[q] <= started'
                 /\ \A k \in 1..Len(jobs') : jobs'[k] # probed'[q]
                 /\ \A p \in Runner : \A i \in 1..Len(cstack'[p]) : cstack'[p][i] # probed'[q]
                 /\ \A p \in Runner : p # q /\ CpAt(p, "push")' => probed'[p] # probed'[q]
      <3>1. CpAt(q, "push") /\ \A p \in Runner : CpAt(p, "push")' => CpAt(p, "push")
        BY <1>6, <2>5 DEF CpAt
      <3>2. \A k \in 1..n : l[k] # probed[q]
        BY <1>1, <1>2, <3>1 DEF OnePlace
      <3>3. \A p \in Runner : \A i \in 1..Len(cstack[p]) : cstack[p][i] # probed[q]
        BY <1>2, <3>1 DEF OnePlace
      <3>4. j # probed[q]
        BY <1>4, <1>10, <3>2
      <3> QED
        <4>1. probed[q] <= started /\ \A p \in Runner : p # q /\ CpAt(p, "push")' => probed[p] # probed[q]
          BY <1>2, <2>5, <3>1 DEF OnePlace
        <4>2. \A k \in 1..Len(jobs') : jobs'[k] # probed[q]
          BY <1>4, <3>2
        <4>3. \A p \in Runner : \A i \in 1..Len(cstack'[p]) : cstack'[p][i] # probed[q]
          BY <1>11, <3>3, <3>4
        <4> QED
          BY <4>1, <4>2, <4>3
    <2> QED
      BY <2>1, <2>2, <2>3, <2>4, <2>5 DEF OnePlace
  <1>15. Unfinished' = Unfinished
    <2>1. ASSUME NEW y \in Unfinished
          PROVE  y \in Unfinished'
      <3>1. CASE \E k \in 1..n : l[k] = y
        <4>1. PICK k \in 1..n : l[k] = y
          BY <3>1
        <4>2. CASE k = 1
          BY <1>4, <1>5, <1>6, <1>3, <4>1, <4>2, UnfinishedNext, SMTT(30) DEF CpAt
        <4>3. CASE k # 1
          <5>1. k - 1 \in 1..Len(jobs') /\ jobs'[k - 1] = y
            BY <1>3, <1>4, <4>1, <4>3, SMTT(30)
          <5> QED
            BY <1>4, <1>5, <5>1, UnfinishedNext
        <4> QED
          BY <4>2, <4>3
      <3>2. CASE \E q \in Runner : CpAt(q, "push") /\ probed[q] = y
        <4>1. \E q \in Runner : CpAt(q, "push")' /\ probed'[q] = y
          BY <1>6, <3>2 DEF CpAt
        <4> QED
          BY <1>4, <1>5, <4>1, UnfinishedNext
      <3>3. CASE \E q \in Runner : \E i \in 1..Len(cstack[q]) :
                   (CpAt(q, "done") => i # Len(cstack[q])) /\ cstack[q][i] = y
        <4>1. \E q \in Runner : \E i \in 1..Len(cstack'[q]) :
                (CpAt(q, "done")' => i # Len(cstack'[q])) /\ cstack'[q][i] = y
          <5>1. 1..m \subseteq 1..(m + 1)
            BY <1>3, SMTT(30)
          <5> QED
            BY <1>1, <1>5, <1>6, <3>3, <5>1, SMTT(30) DEF CpAt
        <4> QED
          BY <1>4, <1>5, <4>1, UnfinishedNext
      <3> QED
        BY <1>1, <1>2, <3>1, <3>2, <3>3, UnfinishedIs
    <2>2. ASSUME NEW y \in Unfinished'
          PROVE  y \in Unfinished
      <3>1. CASE \E k \in 1..Len(jobs') : jobs'[k] = y
        BY <1>1, <1>2, <1>4, <3>1, UnfinishedIs
      <3>2. CASE \E q \in Runner : CpAt(q, "push")' /\ probed'[q] = y
        <4>1. \E q \in Runner : CpAt(q, "push") /\ probed[q] = y
          BY <1>6, <3>2 DEF CpAt
        <4> QED
          BY <1>2, <4>1, UnfinishedIs
      <3>3. CASE \E q \in Runner : \E i \in 1..Len(cstack'[q]) :
                   (CpAt(q, "done")' => i # Len(cstack'[q])) /\ cstack'[q][i] = y
        <4>0. PICK q \in Runner : \E i \in 1..Len(cstack'[q]) :
                (CpAt(q, "done")' => i # Len(cstack'[q])) /\ cstack'[q][i] = y
          BY <3>3
        <4>1. PICK i \in 1..Len(cstack'[q]) : (CpAt(q, "done")' => i # Len(cstack'[q])) /\ cstack'[q][i] = y
          BY <4>0
        <4>2. CASE i \in 1..Len(cstack[q]) /\ cstack'[q][i] = cstack[q][i]
          <5>1. CpAt(q, "done") => i # Len(cstack[q])
            BY <1>5, <1>6, <4>1 DEF CpAt
          <5> QED
            BY <1>2, <4>1, <4>2, <5>1, UnfinishedIs
        <4>3. CASE y = j
          BY <1>1, <1>2, <1>4, <1>10, <4>3, UnfinishedIs
        <4> QED
          BY <1>11, <4>1, <4>2, <4>3
      <3> QED
        BY <1>4, <1>5, <3>1, <3>2, <3>3, UnfinishedNext
    <2> QED
      BY <2>1, <2>2
  <1> QED
    BY <1>1, <1>2, <1>4, <1>5, <1>6, <1>8, <1>9, <1>14, <1>15

\* divide_push moves a job from the runner that has probed it to the list.
LEMMA PutsJob ==
  ASSUME PlacesInv, NEW r \in Runner, divide_push(r)
  PROVE  /\ jobs' \in Seq(Job) /\ probed' \in [Runner -> Job]
         /\ cp_pc' = [cp_pc EXCEPT ![r] = "give"]
         /\ OnePlace' /\ \A q \in Runner : Idle(q)' <=> cstack'[q] = <<>>
         /\ booted
         /\ Unfinished' = Unfinished
  <1>1. PICK l, n, p : l = jobs /\ n = Len(l) /\ p = probed[r]
    OBVIOUS
  <1>2. CpTypes /\ Stacks /\ OnePlace
    BY DEF PlacesInv
  <1>3. /\ CpAt(r, "push") /\ jobs' = <<p>> \o l /\ probed' = [probed EXCEPT ![r] = 0]
        /\ cp_pc' = [cp_pc EXCEPT ![r] = "give"] /\ UNCHANGED <<cstack, started>>
    BY <1>1 DEF divide_push, CpGoto
  <1>4. l \in Seq(Job) /\ p \in Job /\ n \in Nat /\ 0 \in Job /\ started \in Nat
    BY <1>1, <1>2, CapsuleAssumption, SMTT(30) DEF CpTypes, Job
  <1>5. /\ jobs' \in Seq(Job) /\ Len(jobs') = n + 1 /\ jobs'[1] = p
        /\ \A i \in 1..n : jobs'[i + 1] = l[i] /\ i + 1 \in 1..(n + 1)
        /\ \A i \in 1..(n + 1) : i = 1 \/ (i - 1 \in 1..n /\ jobs'[i] = l[i - 1])
        /\ 1 \in 1..(n + 1)
    BY <1>1, <1>3, <1>4, ListGrows, SMTT(30)
  <1>6. /\ cp_pc'[r] = "give" /\ \A q \in Runner \ {r} : cp_pc'[q] = cp_pc[q] /\ probed'[q] = probed[q]
    BY <1>2, <1>3 DEF CpTypes
  <1>7. booted /\ \A q \in Runner : Idle(q)' <=> cstack'[q] = <<>>
    BY <1>2, <1>3, <1>6 DEF Stacks, Idle, CpAt
  <1>8. /\ p <= started /\ \A k \in 1..n : l[k] # p /\ l[k] <= started
        /\ \A q \in Runner : \A i \in 1..Len(cstack[q]) : cstack[q][i] # p /\ \A k \in 1..n : cstack[q][i] # l[k]
        /\ \A q \in Runner : q # r /\ CpAt(q, "push") => probed[q] # p
    <2>1. /\ p <= started /\ (\A k \in 1..n : l[k] # p)
          /\ \A q \in Runner : \A i \in 1..Len(cstack[q]) : cstack[q][i] # p
          /\ \A q \in Runner : q # r /\ CpAt(q, "push") => probed[q] # p
      BY <1>1, <1>2, <1>3 DEF OnePlace
    <2>2. /\ \A k \in 1..n : l[k] <= started
          /\ \A q \in Runner : \A i \in 1..Len(cstack[q]) : \A k \in 1..n : cstack[q][i] # l[k]
      BY <1>1, <1>2, SMTT(30) DEF OnePlace
    <2> QED
      BY <2>1, <2>2
  <1>9. OnePlace'
    <2>1. \A i, k \in 1..Len(jobs') : jobs'[i] = jobs'[k] => i = k
      <3>1. ASSUME NEW i \in 1..(n + 1), NEW k \in 1..(n + 1), jobs'[i] = jobs'[k]
            PROVE  i = k
        <4>1. CASE i = 1 \/ k = 1
          BY <1>5, <1>8, <3>1, <4>1, SMTT(30)
        <4>2. CASE i # 1 /\ k # 1
          <5>1. i - 1 \in 1..n /\ k - 1 \in 1..n /\ l[i - 1] = l[k - 1]
            BY <1>5, <3>1, <4>2
          <5>2. i - 1 = k - 1
            BY <1>1, <1>2, <5>1 DEF OnePlace
          <5> QED
            BY <1>4, <5>2, SMTT(30)
        <4> QED
          BY <4>1, <4>2
      <3> QED
        BY <1>5, <3>1
    <2>2. \A i \in 1..Len(jobs') : jobs'[i] <= started'
      BY <1>3, <1>5, <1>8
    <2>3. \A q \in Runner : \A i \in 1..Len(cstack[q]), k \in 1..Len(jobs') : cstack[q][i] # jobs'[k]
      BY <1>5, <1>8, SMTT(30)
    <2>4. ASSUME NEW q \in Runner, CpAt(q, "push")'
          PROVE  /\ probed'[q] <= started'
                 /\ \A k \in 1..Len(jobs') : jobs'[k] # probed'[q]
                 /\ \A o \in Runner : \A i \in 1..Len(cstack'[o]) : cstack'[o][i] # probed'[q]
                 /\ \A o \in Runner : o # q /\ CpAt(o, "push")' => probed'[o] # probed'[q]
      <3>1. /\ q # r /\ CpAt(q, "push") /\ probed'[q] = probed[q]
            /\ \A o \in Runner : CpAt(o, "push")' => o # r /\ CpAt(o, "push") /\ probed'[o] = probed[o]
        BY <1>6, <2>4 DEF CpAt
      <3>2. probed[q] # p
        BY <1>8, <3>1
      <3>3. /\ probed[q] <= started /\ \A k \in 1..n : l[k] # probed[q]
            /\ \A o \in Runner : \A i \in 1..Len(cstack[o]) : cstack[o][i] # probed[q]
            /\ \A o \in Runner : o # q /\ CpAt(o, "push") => probed[o] # probed[q]
        BY <1>1, <1>2, <3>1 DEF OnePlace
      <3>4. \A k \in 1..Len(jobs') : jobs'[k] # probed[q]
        BY <1>5, <3>2, <3>3, SMTT(30)
      <3> QED
        BY <1>3, <3>1, <3>3, <3>4
    <2> QED
      BY <1>2, <1>3, <2>1, <2>2, <2>3, <2>4, SMTT(30) DEF OnePlace
  <1>10. \A q \in Runner : (CpAt(q, "done")' <=> CpAt(q, "done")) /\ (CpAt(q, "push")' <=> CpAt(q, "push") /\ q # r)
    BY <1>3, <1>6 DEF CpAt
  <1>11. cstack' \in [Runner -> Seq(Job)] /\ cstack' = cstack
    BY <1>2, <1>3 DEF CpTypes
  <1>12. Unfinished' = Unfinished
    <2>1. ASSUME NEW y
          PROVE  (\E k \in 1..Len(jobs') : jobs'[k] = y) <=> (y = p \/ \E k \in 1..n : l[k] = y)
      BY <1>5, SMTT(30)
    <2>2. ASSUME NEW y
          PROVE  (y = p \/ \E q \in Runner : CpAt(q, "push")' /\ probed'[q] = y)
                   <=> (\E q \in Runner : CpAt(q, "push") /\ probed[q] = y)
      BY <1>1, <1>3, <1>6, <1>10
    <2>3. ASSUME NEW y
          PROVE  y \in Unfinished' <=> y \in Unfinished
      <3>1. y \in Unfinished <=>
              \/ \E k \in 1..Len(jobs) : jobs[k] = y
              \/ \E q \in Runner : CpAt(q, "push") /\ probed[q] = y
              \/ \E q \in Runner : \E i \in 1..Len(cstack[q]) :
                   (CpAt(q, "done") => i # Len(cstack[q])) /\ cstack[q][i] = y
        BY <1>2, UnfinishedIs
      <3>2. y \in Unfinished' <=>
              \/ \E k \in 1..Len(jobs') : jobs'[k] = y
              \/ \E q \in Runner : CpAt(q, "push")' /\ probed'[q] = y
              \/ \E q \in Runner : \E i \in 1..Len(cstack'[q]) :
                   (CpAt(q, "done")' => i # Len(cstack'[q])) /\ cstack'[q][i] = y
        BY <1>5, <1>11, UnfinishedNext
      <3>3. (\E q \in Runner : \E i \in 1..Len(cstack'[q]) :
                   (CpAt(q, "done")' => i # Len(cstack'[q])) /\ cstack'[q][i] = y)
            <=> (\E q \in Runner : \E i \in 1..Len(cstack[q]) :
                   (CpAt(q, "done") => i # Len(cstack[q])) /\ cstack[q][i] = y)
        BY <1>10, <1>11
      <3> QED
        BY <1>1, <2>1, <2>2, <3>1, <3>2, <3>3
    <2> QED
      BY <2>3
  <1>13. probed' \in [Runner -> Job]
    BY <1>2, <1>3, <1>4 DEF CpTypes
  <1> QED
    BY <1>3, <1>5, <1>7, <1>9, <1>12, <1>13

\* job_done takes a job that has ended off its stack.
LEMMA DropsJob ==
  ASSUME PlacesInv, NEW r \in Runner, job_done(r)
  PROVE  /\ cstack' \in [Runner -> Seq(Job)]
         /\ cp_pc' = [cp_pc EXCEPT ![r] = IF Len(cstack[r]) > 1 THEN "join" ELSE "free"]
         /\ OnePlace' /\ \A q \in Runner : Idle(q)' <=> cstack'[q] = <<>>
         /\ booted
         /\ Unfinished' = Unfinished
         /\ \A q \in Runner \ {r} : cstack'[q] = cstack[q]
         /\ Len(cstack[r]) \in Nat \ {0} /\ Len(cstack'[r]) = Len(cstack[r]) - 1
         /\ \A i \in 1..(Len(cstack[r]) - 1) : cstack'[r][i] = cstack[r][i]
  <1>1. PICK s, m : s = cstack[r] /\ m = Len(s)
    OBVIOUS
  <1>2. CpTypes /\ Stacks /\ OnePlace
    BY DEF PlacesInv
  <1>3. /\ CpAt(r, "done") /\ cstack' = [cstack EXCEPT ![r] = SubSeq(s, 1, m - 1)]
        /\ cp_pc' = [cp_pc EXCEPT ![r] = IF m > 1 THEN "join" ELSE "free"]
        /\ UNCHANGED <<jobs, probed, started>>
    BY <1>1 DEF job_done, CpGoto
  <1>4. s \in Seq(Job) /\ s # <<>>
    BY <1>1, <1>2, <1>3 DEF CpTypes, Stacks, Idle, CpAt
  <1>5. /\ m \in Nat \ {0} /\ cstack' \in [Runner -> Seq(Job)]
        /\ Len(cstack'[r]) = m - 1
        /\ \A i \in 1..(m - 1) : cstack'[r][i] = s[i] /\ i \in 1..m
        /\ cstack'[r] = <<>> <=> m = 1
        /\ \A q \in Runner \ {r} : cstack'[q] = cstack[q]
    <2>1. cstack \in [Runner -> Seq(Job)]
      BY <1>2 DEF CpTypes
    <2>2. PICK t : t = SubSeq(s, 1, m - 1)
      OBVIOUS
    <2>3. /\ t \in Seq(Job) /\ Len(t) = m - 1 /\ (\A i \in 1..(m - 1) : t[i] = s[i] /\ i \in 1..m)
          /\ (t = <<>> <=> m = 1) /\ m \in Nat \ {0}
      BY <1>1, <1>4, <2>2, StackShrinks
    <2>4. cstack' = [cstack EXCEPT ![r] = t] /\ cstack'[r] = t
      BY <1>3, <2>1, <2>2
    <2> QED
      BY <2>1, <2>3, <2>4
  <1>6. /\ cp_pc'[r] = (IF m > 1 THEN "join" ELSE "free")
        /\ \A q \in Runner \ {r} : cp_pc'[q] = cp_pc[q]
    BY <1>2, <1>3 DEF CpTypes
  <1>7. \A q \in Runner : Idle(q)' <=> cstack'[q] = <<>>
    <2>1. Idle(r)' <=> cstack'[r] = <<>>
      BY <1>5, <1>6, SMTT(30) DEF Idle
    <2>2. \A q \in Runner \ {r} : Idle(q)' <=> cstack'[q] = <<>>
      BY <1>2, <1>5, <1>6 DEF Idle, Stacks
    <2> QED
      BY <2>1, <2>2
  <1>8. booted
    BY <1>2, <1>3 DEF Stacks, CpAt
  <1>9. \A q \in Runner : /\ ~CpAt(q, "done")' \/ q # r
                          /\ CpAt(q, "push")' <=> CpAt(q, "push")
                          /\ q # r => (CpAt(q, "done")' <=> CpAt(q, "done"))
    BY <1>3, <1>6, SMTT(30) DEF CpAt
  <1>10. ASSUME NEW q \in Runner, NEW i \in 1..Len(cstack'[q])
         PROVE  i \in 1..Len(cstack[q]) /\ cstack'[q][i] = cstack[q][i] /\ (q = r => i # m)
    <2>1. CASE q = r
      BY <1>1, <1>5, <2>1, SMTT(30)
    <2>2. CASE q # r
      BY <1>5, <2>2
    <2> QED
      BY <2>1, <2>2
  <1>11. OnePlace'
    <2>0. jobs' = jobs /\ probed' = probed /\ started' = started
      BY <1>3
    <2>1. \A p, q \in Runner : \A i \in 1..Len(cstack'[p]), k \in 1..Len(cstack'[q]) :
            cstack'[p][i] = cstack'[q][k] => p = q /\ i = k
      <3> SUFFICES ASSUME NEW p \in Runner, NEW q \in Runner,
                          NEW i \in 1..Len(cstack'[p]), NEW k \in 1..Len(cstack'[q]),
                          cstack'[p][i] = cstack'[q][k]
                   PROVE  p = q /\ i = k
        OBVIOUS
      <3>1. /\ i \in 1..Len(cstack[p]) /\ k \in 1..Len(cstack[q])
            /\ cstack[p][i] = cstack[q][k]
        BY <1>10
      <3>2. OnePlace
        BY <1>2
      <3> QED
        BY ONLY <3>1, <3>2, p \in Runner, q \in Runner DEF OnePlace
    <2>2. \A q \in Runner : \A i \in 1..Len(cstack'[q]) :
            cstack'[q][i] <= started /\ \A k \in 1..Len(jobs) : cstack'[q][i] # jobs[k]
      BY <1>2, <1>10, SMTT(30) DEF OnePlace
    <2>3. \A q \in Runner : CpAt(q, "push") =>
            \A p \in Runner : \A i \in 1..Len(cstack'[p]) : cstack'[p][i] # probed[q]
      BY <1>2, <1>10, SMTT(30) DEF OnePlace
    <2>4. ASSUME NEW q \in Runner, CpAt(q, "push")'
          PROVE  /\ probed'[q] <= started'
                 /\ \A k \in 1..Len(jobs') : jobs'[k] # probed'[q]
                 /\ \A p \in Runner : \A i \in 1..Len(cstack'[p]) : cstack'[p][i] # probed'[q]
                 /\ \A p \in Runner : p # q /\ CpAt(p, "push")' => probed'[p] # probed'[q]
      <3>1. CpAt(q, "push") /\ \A p \in Runner : CpAt(p, "push")' => CpAt(p, "push")
        BY <1>9, <2>4
      <3>2. /\ probed[q] <= started
            /\ \A k \in 1..Len(jobs) : jobs[k] # probed[q]
            /\ \A p \in Runner : p # q /\ CpAt(p, "push") => probed[p] # probed[q]
        BY <1>2, <3>1 DEF OnePlace
      <3>3. \A p \in Runner : \A i \in 1..Len(cstack'[p]) : cstack'[p][i] # probed[q]
        BY <2>3, <3>1
      <3> QED
        BY <2>0, <3>1, <3>2, <3>3
    <2>5. /\ \A i, k \in 1..Len(jobs') : jobs'[i] = jobs'[k] => i = k
          /\ \A i \in 1..Len(jobs') : jobs'[i] <= started'
      BY <1>2, <1>3 DEF OnePlace
    <2>6. \A q \in Runner : \A i \in 1..Len(cstack'[q]) :
            cstack'[q][i] <= started' /\ \A k \in 1..Len(jobs') : cstack'[q][i] # jobs'[k]
      BY <2>0, <2>2
    <2> QED
      BY <2>1, <2>4, <2>5, <2>6 DEF OnePlace
  <1>12. Unfinished' = Unfinished
    <2>1. ASSUME NEW y
          PROVE  (\E q \in Runner : \E i \in 1..Len(cstack'[q]) :
                    (CpAt(q, "done")' => i # Len(cstack'[q])) /\ cstack'[q][i] = y)
                 <=> (\E q \in Runner : \E i \in 1..Len(cstack[q]) :
                        (CpAt(q, "done") => i # Len(cstack[q])) /\ cstack[q][i] = y)
      <3>1. ASSUME NEW q \in Runner, NEW i \in 1..Len(cstack'[q]),
                   CpAt(q, "done")' => i # Len(cstack'[q]), cstack'[q][i] = y
            PROVE  i \in 1..Len(cstack[q]) /\ (CpAt(q, "done") => i # Len(cstack[q])) /\ cstack[q][i] = y
        BY <1>1, <1>5, <1>9, <1>10, <3>1
      <3>2. ASSUME NEW q \in Runner, NEW i \in 1..Len(cstack[q]),
                   CpAt(q, "done") => i # Len(cstack[q]), cstack[q][i] = y
            PROVE  i \in 1..Len(cstack'[q]) /\ (CpAt(q, "done")' => i # Len(cstack'[q])) /\ cstack'[q][i] = y
        <4>1. CASE q = r
          <5>1. i \in 1..(m - 1)
            BY <1>1, <1>3, <1>5, <3>2, <4>1, SMTT(30)
          <5> QED
            BY <1>1, <1>5, <1>9, <3>2, <4>1, <5>1
        <4>2. CASE q # r
          BY <1>5, <1>9, <3>2, <4>2
        <4> QED
          BY <4>1, <4>2
      <3> QED
        BY <3>1, <3>2
    <2>2. ASSUME NEW y
          PROVE  y \in Unfinished' <=> y \in Unfinished
      <3>1. y \in Unfinished <=>
              \/ \E k \in 1..Len(jobs) : jobs[k] = y
              \/ \E q \in Runner : CpAt(q, "push") /\ probed[q] = y
              \/ \E q \in Runner : \E i \in 1..Len(cstack[q]) :
                   (CpAt(q, "done") => i # Len(cstack[q])) /\ cstack[q][i] = y
        BY <1>2, UnfinishedIs
      <3>2. y \in Unfinished' <=>
              \/ \E k \in 1..Len(jobs') : jobs'[k] = y
              \/ \E q \in Runner : CpAt(q, "push")' /\ probed'[q] = y
              \/ \E q \in Runner : \E i \in 1..Len(cstack'[q]) :
                   (CpAt(q, "done")' => i # Len(cstack'[q])) /\ cstack'[q][i] = y
        <4>1. jobs' \in Seq(Job)
          BY <1>2, <1>3 DEF CpTypes
        <4> QED
          BY <1>5, <4>1, UnfinishedNext
      <3> QED
        BY <1>3, <1>9, <2>1, <3>1, <3>2
    <2> QED
      BY <2>2
  <1> QED
    BY <1>1, <1>3, <1>5, <1>7, <1>8, <1>11, <1>12

\* capsule_probe makes a job.
LEMMA MakesJob ==
  ASSUME PlacesInv, NEW r \in Runner, capsule_probe(r)
  PROVE  /\ probed' \in [Runner -> Job] /\ started' \in Job /\ started' = started + 1
         /\ cp_pc' = [cp_pc EXCEPT ![r] = "push"]
         /\ OnePlace' /\ \A q \in Runner : Idle(q)' <=> cstack'[q] = <<>>
         /\ booted
         /\ Unfinished' = Unfinished \cup {started + 1} /\ started + 1 \notin Unfinished
  <1>1. PICK n : n = started + 1
    OBVIOUS
  <1>2. CpTypes /\ Stacks /\ OnePlace
    BY DEF PlacesInv
  <1>3. /\ CpAt(r, "run") /\ started < MaxJob /\ started' = n /\ probed' = [probed EXCEPT ![r] = n]
        /\ cp_pc' = [cp_pc EXCEPT ![r] = "push"] /\ UNCHANGED <<jobs, cstack>>
    BY <1>1 DEF capsule_probe, CpGoto
  <1>4. started \in Nat /\ MaxJob \in Nat /\ n \in Job /\ n \in Nat
    BY <1>1, <1>2, <1>3, CapsuleAssumption, SMTT(30) DEF CpTypes, Job
  <1>5. jobs \in Seq(Job) /\ cstack \in [Runner -> Seq(Job)] /\ probed \in [Runner -> Job]
    BY <1>2 DEF CpTypes
  <1>6. \A v \in Job : v <= started => v <= n /\ v # n
    BY <1>1, <1>4, SMTT(30) DEF Job
  <1>7. /\ \A k \in 1..Len(jobs) : jobs[k] \in Job
        /\ \A q \in Runner : \A i \in 1..Len(cstack[q]) : cstack[q][i] \in Job
    BY <1>5, SMTT(30)
  <1>8. /\ \A k \in 1..Len(jobs) : jobs[k] <= n /\ jobs[k] # n
        /\ \A q \in Runner : \A i \in 1..Len(cstack[q]) : cstack[q][i] <= n /\ cstack[q][i] # n
        /\ \A q \in Runner : CpAt(q, "push") => probed[q] <= n /\ probed[q] # n
    <2>1. \A k \in 1..Len(jobs) : jobs[k] <= started
      BY <1>2 DEF OnePlace
    <2>2. \A q \in Runner : \A i \in 1..Len(cstack[q]) : cstack[q][i] <= started
      BY <1>2 DEF OnePlace
    <2>3. \A q \in Runner : CpAt(q, "push") => probed[q] <= started
      BY <1>2 DEF OnePlace
    <2> QED
      BY <1>5, <1>6, <1>7, <2>1, <2>2, <2>3
  <1>9. /\ cp_pc'[r] = "push" /\ probed'[r] = n
        /\ \A q \in Runner \ {r} : cp_pc'[q] = cp_pc[q] /\ probed'[q] = probed[q]
    BY <1>2, <1>3, <1>5 DEF CpTypes
  <1>10. booted /\ \A q \in Runner : Idle(q)' <=> cstack'[q] = <<>>
    BY <1>2, <1>3, <1>9 DEF Stacks, Idle, CpAt
  <1>11. OnePlace'
    <2>1. /\ \A i, k \in 1..Len(jobs') : jobs'[i] = jobs'[k] => i = k
          /\ \A i \in 1..Len(jobs') : jobs'[i] <= started'
          /\ \A p, q \in Runner : \A i \in 1..Len(cstack'[p]), k \in 1..Len(cstack'[q]) :
               cstack'[p][i] = cstack'[q][k] => p = q /\ i = k
      BY <1>2, <1>3, <1>8, SMTT(30) DEF OnePlace
    <2>2. \A q \in Runner : \A i \in 1..Len(cstack'[q]) :
            cstack'[q][i] <= started' /\ \A k \in 1..Len(jobs') : cstack'[q][i] # jobs'[k]
      BY <1>2, <1>3, <1>8, SMTT(30) DEF OnePlace
    <2>3. ASSUME NEW q \in Runner, CpAt(q, "push")'
          PROVE  /\ probed'[q] <= started'
                 /\ \A k \in 1..Len(jobs') : jobs'[k] # probed'[q]
                 /\ \A p \in Runner : \A i \in 1..Len(cstack'[p]) : cstack'[p][i] # probed'[q]
                 /\ \A p \in Runner : p # q /\ CpAt(p, "push")' => probed'[p] # probed'[q]
      <3>1. CASE q = r
        <4>1. \A p \in Runner : p # q /\ CpAt(p, "push")' => probed'[p] # probed'[q]
          BY <1>8, <1>9, <3>1 DEF CpAt
        <4>2. probed'[q] <= started'
          BY <1>3, <1>4, <1>9, <3>1, SMTT(30)
        <4> QED
          BY <1>3, <1>8, <1>9, <3>1, <4>1, <4>2, SMTT(30)
      <3>2. CASE q # r
        <4>1. CpAt(q, "push") /\ probed'[q] = probed[q]
          BY <1>9, <2>3, <3>2 DEF CpAt
        <4>2. /\ \A k \in 1..Len(jobs) : jobs[k] # probed[q]
              /\ \A p \in Runner : \A i \in 1..Len(cstack[p]) : cstack[p][i] # probed[q]
              /\ \A p \in Runner : p # q /\ CpAt(p, "push") => probed[p] # probed[q]
          BY <1>2, <4>1 DEF OnePlace
        <4>3. \A p \in Runner : p # q /\ CpAt(p, "push")' => probed'[p] # probed'[q]
          BY <1>8, <1>9, <4>1, <4>2 DEF CpAt
        <4> QED
          BY <1>3, <1>8, <4>1, <4>2, <4>3
      <3> QED
        BY <3>1, <3>2
    <2> QED
      BY <2>1, <2>2, <2>3 DEF OnePlace
  <1>12. ASSUME NEW y
         PROVE  (\E q \in Runner : CpAt(q, "push")' /\ probed'[q] = y)
                  <=> (y = n \/ \E q \in Runner : CpAt(q, "push") /\ probed[q] = y)
    <2>1. \A q \in Runner : CpAt(q, "push") => q # r
      BY <1>3 DEF CpAt
    <2> QED
      BY <1>9, <2>1 DEF CpAt
  <1>13. ASSUME NEW y
         PROVE  y \in Unfinished' <=> (y \in Unfinished \/ y = n)
    <2>1. y \in Unfinished <=>
            \/ \E k \in 1..Len(jobs) : jobs[k] = y
            \/ \E q \in Runner : CpAt(q, "push") /\ probed[q] = y
            \/ \E q \in Runner : \E i \in 1..Len(cstack[q]) :
                 (CpAt(q, "done") => i # Len(cstack[q])) /\ cstack[q][i] = y
      BY <1>2, UnfinishedIs
    <2>2. y \in Unfinished' <=>
            \/ \E k \in 1..Len(jobs') : jobs'[k] = y
            \/ \E q \in Runner : CpAt(q, "push")' /\ probed'[q] = y
            \/ \E q \in Runner : \E i \in 1..Len(cstack'[q]) :
                 (CpAt(q, "done")' => i # Len(cstack'[q])) /\ cstack'[q][i] = y
      <3>1. jobs' \in Seq(Job) /\ cstack' \in [Runner -> Seq(Job)]
        BY <1>3, <1>5
      <3> QED
        BY <3>1, UnfinishedNext
    <2>3. \A q \in Runner : CpAt(q, "done")' <=> CpAt(q, "done")
      BY <1>3, <1>9 DEF CpAt
    <2> QED
      BY <1>3, <1>12, <2>1, <2>2, <2>3
  <1>14. n \notin Unfinished
    BY <1>2, <1>8, UnfinishedIs
  <1>15. probed' \in [Runner -> Job]
    BY <1>3, <1>4, <1>5
  <1> QED
    BY <1>1, <1>3, <1>4, <1>10, <1>11, <1>13, <1>14, <1>15

\* job_end ends the job on top of a stack.
LEMMA EndsJob ==
  ASSUME PlacesInv, NEW r \in Runner, CpAt(r, "run"), cp_pc' = [cp_pc EXCEPT ![r] = "done"],
         UNCHANGED <<jobs, cstack, probed>>
  PROVE  Unfinished' = Unfinished \ {cur_job(r)}
  <1>1. PICK s, m, c : s = cstack[r] /\ m = Len(s) /\ c = cur_job(r)
    OBVIOUS
  <1>2. CpTypes /\ Stacks /\ OnePlace
    BY DEF PlacesInv
  <1>3. s \in Seq(Job) /\ s # <<>> /\ cp_pc \in [Runner -> {"boot", "wait", "pop", "run", "push", "give", "join", "joined", "done", "free", "end"}]
    BY <1>1, <1>2 DEF CpTypes, Stacks, Idle, CpAt
  <1>4. m \in Nat \ {0} /\ c = s[m] /\ m \in 1..m
    BY <1>1, <1>3, SMTT(30) DEF cur_job
  <1>5. /\ cp_pc'[r] = "done" /\ cp_pc[r] = "run"
        /\ \A q \in Runner \ {r} : cp_pc'[q] = cp_pc[q]
    BY <1>3 DEF CpAt
  <1>6. \A q \in Runner : CpAt(q, "push")' <=> CpAt(q, "push")
    BY <1>5 DEF CpAt
  <1>7. /\ \A k \in 1..Len(jobs) : jobs[k] # c
        /\ \A q \in Runner : CpAt(q, "push") => probed[q] # c
        /\ \A q \in Runner : \A i \in 1..Len(cstack[q]) : cstack[q][i] = c => q = r /\ i = m
    BY <1>1, <1>2, <1>4, SMTT(30) DEF OnePlace
  <1>8. ASSUME NEW y
        PROVE  y \in Unfinished' <=> (y \in Unfinished /\ y # c)
    <2>1. y \in Unfinished <=>
            \/ \E k \in 1..Len(jobs) : jobs[k] = y
            \/ \E q \in Runner : CpAt(q, "push") /\ probed[q] = y
            \/ \E q \in Runner : \E i \in 1..Len(cstack[q]) :
                 (CpAt(q, "done") => i # Len(cstack[q])) /\ cstack[q][i] = y
      BY <1>2, UnfinishedIs
    <2>2. y \in Unfinished' <=>
            \/ \E k \in 1..Len(jobs) : jobs[k] = y
            \/ \E q \in Runner : CpAt(q, "push") /\ probed[q] = y
            \/ \E q \in Runner : \E i \in 1..Len(cstack[q]) :
                 (CpAt(q, "done")' => i # Len(cstack[q])) /\ cstack[q][i] = y
      <3>1. jobs' \in Seq(Job) /\ cstack' \in [Runner -> Seq(Job)]
        BY <1>2 DEF CpTypes
      <3> QED
        BY <1>6, <3>1, UnfinishedNext
    <2>3. (\E q \in Runner : \E i \in 1..Len(cstack[q]) :
             (CpAt(q, "done")' => i # Len(cstack[q])) /\ cstack[q][i] = y)
          <=> (y # c /\ \E q \in Runner : \E i \in 1..Len(cstack[q]) :
                 (CpAt(q, "done") => i # Len(cstack[q])) /\ cstack[q][i] = y)
      BY <1>1, <1>4, <1>5, <1>7 DEF CpAt
    <2> QED
      BY <1>7, <2>1, <2>2, <2>3
  <1> QED
    BY <1>1, <1>8

\* app_start makes the first job.
LEMMA StartsMain ==
  ASSUME PlacesInv, app_start
  PROVE  /\ jobs' \in Seq(Job) /\ OnePlace'
         /\ \A q \in Runner : Idle(q)' <=> cstack'[q] = <<>>
         /\ Unfinished = {} /\ Unfinished' = {0}
  <1>1. CpTypes /\ Stacks /\ OnePlace
    BY DEF PlacesInv
  <1>2. /\ ~booted /\ jobs' = <<0>> /\ UNCHANGED <<cp_pc, cstack, probed, started>>
    BY DEF app_start
  <1>3. /\ jobs = <<>> /\ \A q \in Runner : CpAt(q, "boot") \/ CpAt(q, "wait")
    BY <1>1, <1>2 DEF Stacks
  <1>4. 0 \in Job /\ started \in Nat
    BY <1>1, CapsuleAssumption, SMTT(30) DEF Job, CpTypes
  <1>5. /\ jobs' \in Seq(Job) /\ Len(jobs') = 1 /\ jobs'[1] = 0 /\ Len(jobs) = 0
        /\ \A k \in 1..1 : k = 1
    BY <1>2, <1>3, <1>4, SMTT(30)
  <1>6. \A q \in Runner : cstack[q] = <<>> /\ Len(cstack[q]) = 0 /\ ~CpAt(q, "push")
    BY <1>1, <1>3, SMTT(30) DEF Stacks, Idle, CpAt
  <1>7. OnePlace'
    <2>1. \A q \in Runner : cstack'[q] = <<>> /\ 1..Len(cstack'[q]) = {} /\ ~CpAt(q, "push")'
      BY <1>2, <1>6, SMTT(30) DEF CpAt
    <2>2. \A i, k \in 1..Len(jobs') : jobs'[i] = jobs'[k] => i = k
      BY <1>5
    <2>3. \A i \in 1..Len(jobs') : jobs'[i] <= started'
      BY <1>2, <1>4, <1>5, SMTT(30)
    <2> QED
      BY <2>1, <2>2, <2>3 DEF OnePlace
  <1>8. \A q \in Runner : Idle(q)' <=> cstack'[q] = <<>>
    BY <1>1, <1>2 DEF Stacks, Idle
  <1>9. ASSUME NEW y
        PROVE  y \notin Unfinished /\ (y \in Unfinished' <=> y = 0)
    <2>1. y \notin Unfinished
      <3>1. 1..Len(jobs) = {} /\ \A q \in Runner : 1..Len(cstack[q]) = {}
        BY <1>5, <1>6, SMTT(30)
      <3> QED
        BY <1>1, <1>6, <3>1, UnfinishedIs
    <2>2. y \in Unfinished' <=>
            \/ \E k \in 1..Len(jobs') : jobs'[k] = y
            \/ \E q \in Runner : CpAt(q, "push")' /\ probed'[q] = y
            \/ \E q \in Runner : \E i \in 1..Len(cstack'[q]) :
                 (CpAt(q, "done")' => i # Len(cstack'[q])) /\ cstack'[q][i] = y
      <3>1. cstack' \in [Runner -> Seq(Job)]
        BY <1>1, <1>2 DEF CpTypes
      <3> QED
        BY <1>5, <3>1, UnfinishedNext
    <2>3. \A q \in Runner : 1..Len(cstack'[q]) = {} /\ ~CpAt(q, "push")'
      BY <1>2, <1>6, SMTT(30) DEF CpAt
    <2> QED
      BY <1>5, <2>1, <2>2, <2>3, SMTT(30)
  <1> QED
    BY <1>5, <1>7, <1>8, <1>9

-----------------------------------------------------------------------------
(* Groups.                                                                 *)

\* h is the group of j, or one that j has left to split others off
InChain(j, h) == h = group[j] \/ \E g \in Group \ {0} : owner[g] = j /\ parent[g] = h

\* the jobs a join of g waits for
Members(g) == {j \in Unfinished : j # owner[g] /\ InChain(j, g)}

\* a join of g is about to return
JoinedOn(g) == \E r \in Runner : CpAt(r, "joined") /\ group[cur_job(r)] = g

\* A group that is not in use has the owner -1; group 0 is main's.
Owners == owner[0] = 0 /\ \A g \in Group : owner[g] <= started

\* A job that joins, or was joining when its runner took another, joins a group
\* it has split off.
Joining ==
  \A r \in Runner : \A i \in 1..Len(cstack[r]) :
    (i < Len(cstack[r]) \/ CpAt(r, "join") \/ CpAt(r, "joined")) => owner[group[cstack[r][i]]] = cstack[r][i]

\* The groups a job has been in are in use, all but one are its own, and no two
\* of its own have the same parent.
Chains ==
  \A j \in Unfinished :
    /\ \A h \in Group : InChain(j, h) => owner[h] # -1
    /\ \A h, k \in Group : InChain(j, h) /\ InChain(j, k) /\ owner[h] # j /\ owner[k] # j => h = k
    /\ \A g \in Group \ {0} : owner[g] = j => parent[g] # group[j]
    /\ \A g, h \in Group \ {0} : owner[g] = j /\ owner[h] = j /\ parent[g] = parent[h] => g = h

\* A group's semaphore lacks a unit for each job a join has to wait for.
JoinCounts ==
  /\ \A g \in Group : owner[g] = -1 => join[g] = 0
  /\ \A g \in Group : owner[g] # -1 => join[g] = (IF JoinedOn(g) THEN 0 ELSE 1) - Cardinality(Members(g))
  /\ \A r \in Runner : CpAt(r, "joined") => Members(group[cur_job(r)]) = {}

\* What groups count.
GroupInv == Owners /\ Joining /\ Chains /\ JoinCounts

\* The job a runner runs.
LEMMA Current ==
  ASSUME PlacesInv, NEW r \in Runner, ~Idle(r)
  PROVE  /\ Len(cstack[r]) \in Nat \ {0} /\ Len(cstack[r]) \in 1..Len(cstack[r])
         /\ cur_job(r) = cstack[r][Len(cstack[r])] /\ cur_job(r) \in Job /\ group[cur_job(r)] \in Group
         /\ cur_job(r) <= started
         /\ ~CpAt(r, "done") => cur_job(r) \in Unfinished
         /\ \A q \in Runner : \A i \in 1..Len(cstack[q]) :
              cstack[q][i] = cur_job(r) => q = r /\ i = Len(cstack[r])
  <1>1. CpTypes /\ Stacks /\ OnePlace
    BY DEF PlacesInv
  <1>2. cstack[r] \in Seq(Job) /\ cstack[r] # <<>>
    BY <1>1 DEF CpTypes, Stacks
  <1>3. Len(cstack[r]) \in Nat \ {0} /\ Len(cstack[r]) \in 1..Len(cstack[r])
    BY <1>2, SMTT(30)
  <1>4. cur_job(r) = cstack[r][Len(cstack[r])] /\ cur_job(r) \in Job
    BY <1>2, <1>3, SMTT(30) DEF cur_job
  <1>5. group[cur_job(r)] \in Group
    BY <1>1, <1>4 DEF CpTypes
  <1>6. cur_job(r) <= started /\ \A q \in Runner : \A i \in 1..Len(cstack[q]) :
              cstack[q][i] = cur_job(r) => q = r /\ i = Len(cstack[r])
    BY <1>1, <1>3, <1>4, SMTT(30) DEF OnePlace
  <1>7. ~CpAt(r, "done") => cur_job(r) \in Unfinished
    BY <1>1, <1>3, <1>4, UnfinishedIs
  <1> QED
    BY <1>3, <1>4, <1>5, <1>6, <1>7

\* Jobs that have not ended are jobs.
LEMMA UnfinishedJobs ==
  ASSUME PlacesInv
  PROVE  /\ Unfinished \subseteq Job /\ \A j \in Unfinished : j <= started
         /\ \A j \in Unfinished : group[j] \in Group
         /\ \A g : IsFiniteSet(Members(g)) /\ Cardinality(Members(g)) \in Nat
                   /\ Cardinality(Members(g)) <= MaxJob + 1
                   /\ (Cardinality(Members(g)) = 0 <=> Members(g) = {})
  <1>1. CpTypes /\ OnePlace
    BY DEF PlacesInv
  <1>2. jobs \in Seq(Job) /\ cstack \in [Runner -> Seq(Job)] /\ probed \in [Runner -> Job]
    BY <1>1 DEF CpTypes
  <1>3. ASSUME NEW j \in Unfinished
        PROVE  j \in Job /\ j <= started
    <2>1. CASE \E k \in 1..Len(jobs) : jobs[k] = j
      BY <1>1, <1>2, <2>1, SMTT(30) DEF OnePlace
    <2>2. CASE \E r \in Runner : CpAt(r, "push") /\ probed[r] = j
      BY <1>1, <1>2, <2>2, SMTT(30) DEF OnePlace
    <2>3. CASE \E r \in Runner : \E i \in 1..Len(cstack[r]) : cstack[r][i] = j
      BY <1>1, <1>2, <2>3, SMTT(30) DEF OnePlace
    <2> QED
      BY <1>1, <2>1, <2>2, <2>3, UnfinishedIs
  <1>4. \A j \in Unfinished : group[j] \in Group
    BY <1>1, <1>3 DEF CpTypes
  <1>5. MaxJob \in Nat /\ IsFiniteSet(Job) /\ Cardinality(Job) = MaxJob + 1
    <2>1. MaxJob \in Nat
      BY CapsuleAssumption
    <2>2. IsFiniteSet(0..MaxJob) /\ Cardinality(0..MaxJob) = MaxJob - 0 + 1
      BY <2>1, FS_Interval, SMTT(30)
    <2> QED
      BY <2>1, <2>2, SMTT(30) DEF Job
  <1>6. ASSUME NEW g
        PROVE  /\ IsFiniteSet(Members(g)) /\ Cardinality(Members(g)) \in Nat
               /\ Cardinality(Members(g)) <= MaxJob + 1
               /\ (Cardinality(Members(g)) = 0 <=> Members(g) = {})
    <2>1. PICK M : M = Members(g)
      OBVIOUS
    <2>2. M \subseteq Job
      BY <1>3, <2>1 DEF Members
    <2>3. IsFiniteSet(M) /\ Cardinality(M) <= Cardinality(Job)
      BY <1>5, <2>2, FS_Subset
    <2>4. Cardinality(M) \in Nat /\ (Cardinality(M) = 0 <=> M = {})
      BY <2>3, FS_CardinalityType, FS_EmptySet
    <2> QED
      BY <1>5, <2>1, <2>3, <2>4
  <1> QED
    BY <1>3, <1>4, <1>6

\* The groups stay what they are when no job is made or ends and no join begins
\* or ends.
LEMMA GroupsStay ==
  ASSUME GroupInv, UNCHANGED <<group, owner, parent, join, started>>, Unfinished' = Unfinished, Joining',
         \A r \in Runner : CpAt(r, "joined")' <=> CpAt(r, "joined"),
         \A r \in Runner : CpAt(r, "joined") => cstack'[r] = cstack[r]
  PROVE  GroupInv'
  <1>1. \A j, h : InChain(j, h)' <=> InChain(j, h)
    BY DEF InChain
  <1>2. \A g : Members(g)' = Members(g)
    BY <1>1 DEF Members
  <1>3. \A r \in Runner : CpAt(r, "joined") => cur_job(r)' = cur_job(r)
    BY DEF cur_job
  <1>4. \A g : JoinedOn(g)' <=> JoinedOn(g)
    BY <1>3 DEF JoinedOn
  <1>5. Owners'
    BY DEF GroupInv, Owners
  <1>6. Chains'
    BY <1>1, SMTT(30) DEF GroupInv, Chains
  <1>7. JoinCounts'
    BY <1>2, <1>3, <1>4 DEF GroupInv, JoinCounts
  <1> QED
    BY <1>5, <1>6, <1>7 DEF GroupInv

\* While a runner has joined a group no other runs a job of it.
LEMMA JoinedAlone ==
  ASSUME PlacesInv, GroupInv, NEW r \in Runner, ~Idle(r), ~CpAt(r, "done"), ~CpAt(r, "joined")
  PROVE  /\ \A g \in Group : InChain(cur_job(r), g) => ~JoinedOn(g)
         /\ owner[group[cur_job(r)]] # -1
  <1>1. /\ cur_job(r) \in Unfinished /\ group[cur_job(r)] \in Group
        /\ cur_job(r) = cstack[r][Len(cstack[r])] /\ Len(cstack[r]) \in 1..Len(cstack[r])
    BY Current
  <1>2. ASSUME NEW g \in Group, InChain(cur_job(r), g), NEW q \in Runner,
               CpAt(q, "joined"), group[cur_job(q)] = g
        PROVE  FALSE
    <2>1. ~Idle(q)
      BY <1>2 DEF Idle, CpAt
    <2>2. /\ cur_job(q) = cstack[q][Len(cstack[q])] /\ Len(cstack[q]) \in 1..Len(cstack[q])
          /\ \A p \in Runner : \A i \in 1..Len(cstack[p]) : cstack[p][i] = cur_job(q) => p = q
      BY <2>1, Current
    <2>3. owner[g] = cur_job(q)
      BY <1>2, <2>2 DEF GroupInv, Joining
    <2>4. Members(g) = {}
      BY <1>2 DEF GroupInv, JoinCounts
    <2>5. cur_job(r) = owner[g]
      BY <1>1, <1>2, <2>4 DEF Members
    <2>6. r = q
      BY <1>1, <2>2, <2>3, <2>5
    <2> QED
      BY <1>2, <2>6
  <1>3. owner[group[cur_job(r)]] # -1
    <2>1. InChain(cur_job(r), group[cur_job(r)])
      BY DEF InChain
    <2> QED
      BY <1>1, <2>1 DEF GroupInv, Chains
  <1> QED
    BY <1>2, <1>3 DEF JoinedOn

\* capsule_probe: the group of the caller has one more job to wait for.
LEMMA ProbeGroups ==
  ASSUME PlacesInv, GroupInv, NEW r \in Runner, capsule_probe(r)
  PROVE  GroupInv' /\ join' \in [Group -> Int] /\ group' \in [Job -> Group]
  <1>1. PICK n, c, g : n = started + 1 /\ c = cur_job(r) /\ g = group[c]
    OBVIOUS
  <1>2. CpTypes /\ Stacks /\ OnePlace /\ Owners /\ Joining /\ Chains /\ JoinCounts
    BY DEF PlacesInv, GroupInv
  <1>3. /\ CpAt(r, "run") /\ group' = [group EXCEPT ![n] = g] /\ join' = [join EXCEPT ![g] = @ - 1]
        /\ cp_pc' = [cp_pc EXCEPT ![r] = "push"] /\ UNCHANGED <<cstack, owner, parent>>
    BY <1>1 DEF capsule_probe, CpGoto
  <1>4. /\ Unfinished' = Unfinished \cup {n} /\ n \notin Unfinished /\ started' = n /\ n \in Job
    BY <1>1, MakesJob
  <1>5. ~Idle(r) /\ ~CpAt(r, "done") /\ ~CpAt(r, "joined")
    BY <1>3 DEF Idle, CpAt
  <1>6. c \in Unfinished /\ g \in Group /\ c \in Job
    BY <1>1, <1>5, Current
  <1>7. /\ group \in [Job -> Group] /\ owner \in [Group -> Job \cup {-1}] /\ join \in [Group -> Int]
        /\ started \in Nat /\ n \in Nat /\ started < n
    BY <1>1, <1>2, CapsuleAssumption, SMTT(30) DEF CpTypes, Job
  <1>8. group' \in [Job -> Group] /\ group'[n] = g /\ \A j \in Job : j # n => group'[j] = group[j]
    BY <1>3, <1>4, <1>6, <1>7
  <1>9. join' \in [Group -> Int] /\ join'[g] = join[g] - 1 /\ \A h \in Group : h # g => join'[h] = join[h]
    BY <1>3, <1>6, <1>7, SMTT(30)
  <1>10. \A h \in Group : owner[h] # n /\ owner[h] <= n
    <2>1. \A h \in Group : owner[h] <= started /\ owner[h] \in Int
      BY <1>2, <1>7, CapsuleAssumption, SMTT(30) DEF Owners, Job
    <2> QED
      BY <1>7, <2>1, SMTT(30)
  <1>11. \A j \in Job : j # n => \A h : InChain(j, h)' <=> InChain(j, h)
    BY <1>3, <1>8 DEF InChain
  <1>12. \A h : InChain(n, h)' <=> h = g
    BY <1>3, <1>8, <1>10 DEF InChain
  <1>13. Unfinished \subseteq Job
    BY UnfinishedJobs
  <1>14. \A h \in Group : h # g => Members(h)' = Members(h)
    BY <1>3, <1>4, <1>11, <1>12, <1>13 DEF Members
  <1>15. Members(g)' = Members(g) \cup {n} /\ n \notin Members(g)
    BY <1>3, <1>4, <1>6, <1>10, <1>11, <1>12, <1>13 DEF Members
  <1>16. \A q \in Runner : CpAt(q, "joined")' <=> CpAt(q, "joined")
    BY <1>2, <1>3 DEF CpAt, CpTypes
  <1>17. \A q \in Runner : \A i \in 1..Len(cstack[q]) : cstack[q][i] \in Job /\ cstack[q][i] # n
    <2>1. \A q \in Runner : \A i \in 1..Len(cstack[q]) : cstack[q][i] \in Job /\ cstack[q][i] <= started
      BY <1>2, SMTT(30) DEF OnePlace, CpTypes
    <2> QED
      BY <1>7, <2>1, CapsuleAssumption, SMTT(30) DEF Job
  <1>18. \A q \in Runner : CpAt(q, "joined") => cur_job(q)' = cur_job(q) /\ group'[cur_job(q)] = group[cur_job(q)]
    <2>1. ASSUME NEW q \in Runner, CpAt(q, "joined")
          PROVE  cur_job(q)' = cur_job(q) /\ group'[cur_job(q)] = group[cur_job(q)]
      <3>1. ~Idle(q)
        BY <2>1 DEF Idle, CpAt
      <3>2. cur_job(q) = cstack[q][Len(cstack[q])] /\ Len(cstack[q]) \in 1..Len(cstack[q])
        BY <3>1, Current
      <3>3. cur_job(q)' = cur_job(q)
        BY <1>3 DEF cur_job
      <3> QED
        BY <1>8, <1>17, <3>2, <3>3
    <2> QED
      BY <2>1
  <1>19. \A h : JoinedOn(h)' <=> JoinedOn(h)
    BY <1>16, <1>18 DEF JoinedOn
  <1>20. ~JoinedOn(g) /\ owner[g] # -1
    BY <1>1, <1>5, <1>6, JoinedAlone DEF InChain
  <1>21. Owners'
    BY <1>2, <1>3, <1>4, <1>10 DEF Owners
  <1>22. Joining'
    <2>1. \A q \in Runner : (CpAt(q, "join")' \/ CpAt(q, "joined")') => (CpAt(q, "join") \/ CpAt(q, "joined"))
      BY <1>2, <1>3 DEF CpAt, CpTypes
    <2>2. \A q \in Runner : \A i \in 1..Len(cstack[q]) : group'[cstack[q][i]] = group[cstack[q][i]]
      BY <1>8, <1>17
    <2> QED
      BY <1>2, <1>3, <2>1, <2>2, SMTT(30) DEF Joining
  <1>23. Chains'
    <2>1. ASSUME NEW j \in Unfinished'
          PROVE  /\ \A h \in Group : InChain(j, h)' => owner'[h] # -1
                 /\ \A h, k \in Group : InChain(j, h)' /\ InChain(j, k)' /\ owner'[h] # j /\ owner'[k] # j => h = k
                 /\ \A h \in Group \ {0} : owner'[h] = j => parent'[h] # group'[j]
                 /\ \A h, k \in Group \ {0} : owner'[h] = j /\ owner'[k] = j /\ parent'[h] = parent'[k] => h = k
      <3>1. CASE j = n
        BY <1>3, <1>10, <1>12, <1>20, <3>1
      <3>2. CASE j # n
        <4>1. j \in Unfinished /\ j \in Job
          BY <1>4, <1>13, <3>2
        <4> QED
          BY <1>2, <1>3, <1>8, <1>11, <3>2, <4>1, SMTT(30) DEF Chains
      <3> QED
        BY <3>1, <3>2
    <2> QED
      BY <2>1 DEF Chains
  <1>24. JoinCounts'
    <2>1. Cardinality(Members(g)') = Cardinality(Members(g)) + 1 /\ Cardinality(Members(g)) \in Nat
      <3>1. PICK M : M = Members(g)
        OBVIOUS
      <3>2. IsFiniteSet(M) /\ Cardinality(M) \in Nat
        BY <3>1, UnfinishedJobs
      <3>3. Cardinality(M \cup {n}) = Cardinality(M) + 1
        BY <1>15, <3>1, <3>2, FS_AddElement
      <3> QED
        BY <1>15, <3>1, <3>2, <3>3
    <2>2. join[g] = 1 - Cardinality(Members(g))
      BY <1>2, <1>6, <1>20 DEF JoinCounts
    <2>3. join'[g] = (IF JoinedOn(g)' THEN 0 ELSE 1) - Cardinality(Members(g)')
      BY <1>9, <1>19, <1>20, <2>1, <2>2, SMTT(30)
    <2>4. \A h \in Group : owner'[h] = -1 => join'[h] = 0
      BY <1>2, <1>3, <1>9, <1>20 DEF JoinCounts
    <2>5. \A h \in Group : owner'[h] # -1 => join'[h] = (IF JoinedOn(h)' THEN 0 ELSE 1) - Cardinality(Members(h)')
      <3>1. ASSUME NEW h \in Group, h # g, owner[h] # -1
            PROVE  join'[h] = (IF JoinedOn(h)' THEN 0 ELSE 1) - Cardinality(Members(h)')
        BY <1>2, <1>9, <1>14, <1>19, <3>1 DEF JoinCounts
      <3> QED
        BY <1>3, <2>3, <3>1
    <2>6. ASSUME NEW q \in Runner, CpAt(q, "joined")'
          PROVE  Members(group[cur_job(q)])' = {}
      <3>1. CpAt(q, "joined") /\ group'[cur_job(q)'] = group[cur_job(q)]
        BY <1>16, <1>18, <2>6
      <3>2. Members(group[cur_job(q)]) = {} /\ group[cur_job(q)] # g
        BY <1>2, <1>20, <3>1 DEF JoinCounts, JoinedOn
      <3>3. PICK h : h = group[cur_job(q)]
        OBVIOUS
      <3>4. h \in Group
        <4>1. ~Idle(q)
          BY <3>1 DEF Idle, CpAt
        <4> QED
          BY <3>3, <4>1, Current
      <3>5. Members(h)' = {}
        BY <1>14, <3>2, <3>3, <3>4
      <3>6. group'[cur_job(q)'] = h
        BY <3>1, <3>3
      <3> QED
        BY <3>5, <3>6 DEF Members, InChain
    <2> QED
      BY <2>4, <2>5, <2>6 DEF JoinCounts
  <1> QED
    BY <1>8, <1>9, <1>21, <1>22, <1>23, <1>24 DEF GroupInv

\* capsule_group_split: no job has been in the new group.
LEMMA SplitGroups ==
  ASSUME PlacesInv, GroupInv, NEW r \in Runner, capsule_group_split(r)
  PROVE  /\ GroupInv' /\ join' \in [Group -> Int] /\ group' \in [Job -> Group]
         /\ owner' \in [Group -> Job \cup {-1}] /\ parent' \in [Group -> Group]
  <1>1. PICK g \in Group :
          /\ owner[g] = -1
          /\ owner' = [owner EXCEPT ![g] = cur_job(r)]
          /\ parent' = [parent EXCEPT ![g] = group[cur_job(r)]]
          /\ join' = [join EXCEPT ![g] = 1]
          /\ group' = [group EXCEPT ![cur_job(r)] = g]
    BY DEF capsule_group_split
  <1>2. PICK c, p : c = cur_job(r) /\ p = group[c]
    OBVIOUS
  <1>3. CpTypes /\ Stacks /\ OnePlace /\ Owners /\ Joining /\ Chains /\ JoinCounts
    BY DEF PlacesInv, GroupInv
  <1>4. /\ CpAt(r, "run") /\ cp_pc' = cp_pc /\ cstack' = cstack /\ started' = started
        /\ UNCHANGED <<jobs, probed>>
    BY DEF capsule_group_split
  <1>5. ~Idle(r) /\ ~CpAt(r, "done")
    BY <1>4 DEF Idle, CpAt
  <1>6. c \in Unfinished /\ c \in Job /\ p \in Group /\ c <= started
    BY <1>2, <1>5, Current
  <1>7. /\ group \in [Job -> Group] /\ owner \in [Group -> Job \cup {-1}] /\ join \in [Group -> Int]
        /\ parent \in [Group -> Group]
    BY <1>3 DEF CpTypes
  <1>8. \A j \in Job : j # -1
    BY CapsuleAssumption, SMTT(30) DEF Job
  <1>9. 0 \in Group /\ g # 0
    BY <1>1, <1>3, CapsuleAssumption, SMTT(30) DEF Owners, Group
  <1>10. group' \in [Job -> Group] /\ group'[c] = g /\ \A j \in Job : j # c => group'[j] = group[j]
    BY <1>1, <1>2, <1>6, <1>7
  <1>11. owner' \in [Group -> Job \cup {-1}] /\ owner'[g] = c /\ \A h \in Group : h # g => owner'[h] = owner[h]
    BY <1>1, <1>2, <1>6, <1>7
  <1>12. parent' \in [Group -> Group] /\ parent'[g] = p /\ \A h \in Group : h # g => parent'[h] = parent[h]
    BY <1>1, <1>2, <1>6, <1>7
  <1>13. join' \in [Group -> Int] /\ join'[g] = 1 /\ \A h \in Group : h # g => join'[h] = join[h]
    BY <1>1, <1>7, SMTT(30)
  <1>14. Unfinished' = Unfinished /\ Unfinished \subseteq Job
    <2>1. \A q \in Runner : (CpAt(q, "push")' <=> CpAt(q, "push")) /\ (CpAt(q, "done")' <=> CpAt(q, "done"))
      BY <1>4 DEF CpAt
    <2> QED
      BY <1>4, <2>1, SameJobs, UnfinishedJobs
  <1>15. \A j \in Unfinished : ~InChain(j, g)
    BY <1>1, <1>3 DEF Chains
  <1>16. \A j \in Job : j # c => \A h : InChain(j, h)' <=> InChain(j, h)
    BY <1>1, <1>8, <1>10, <1>11, <1>12, SMTT(30) DEF InChain
  <1>17. \A h : InChain(c, h)' <=> (h = g \/ InChain(c, h))
    <2>1. ASSUME NEW h
          PROVE  (\E k \in Group \ {0} : owner'[k] = c /\ parent'[k] = h) <=>
                   (h = p \/ \E k \in Group \ {0} : owner[k] = c /\ parent[k] = h)
      BY <1>1, <1>6, <1>8, <1>9, <1>11, <1>12, SMTT(30)
    <2> QED
      BY <1>2, <1>10, <2>1 DEF InChain
  <1>18. \A h \in Group : h # g => Members(h)' = Members(h)
    BY <1>11, <1>14, <1>16, <1>17 DEF Members
  <1>19. Members(g)' = {}
    BY <1>11, <1>14, <1>15, <1>16 DEF Members
  <1>20. \A q \in Runner : CpAt(q, "joined") =>
           /\ cur_job(q)' = cur_job(q) /\ group'[cur_job(q)] = group[cur_job(q)]
           /\ group[cur_job(q)] # g /\ group[cur_job(q)] \in Group
    <2>1. ASSUME NEW q \in Runner, CpAt(q, "joined")
          PROVE  /\ cur_job(q)' = cur_job(q) /\ group'[cur_job(q)] = group[cur_job(q)]
                 /\ group[cur_job(q)] # g /\ group[cur_job(q)] \in Group
      <3>1. ~Idle(q) /\ ~CpAt(q, "done") /\ q # r
        BY <1>4, <2>1 DEF Idle, CpAt
      <3>2. /\ cur_job(q) \in Unfinished /\ cur_job(q) \in Job /\ group[cur_job(q)] \in Group
            /\ cur_job(q) = cstack[q][Len(cstack[q])] /\ Len(cstack[q]) \in 1..Len(cstack[q])
        BY <3>1, Current
      <3>3. cur_job(q) # c
        BY <1>2, <1>5, <3>1, <3>2, Current
      <3>4. group[cur_job(q)] # g
        BY <1>15, <3>2 DEF InChain
      <3>5. cur_job(q)' = cur_job(q)
        BY <1>4 DEF cur_job
      <3> QED
        BY <1>10, <3>2, <3>3, <3>4, <3>5
    <2> QED
      BY <2>1
  <1>21. \A q \in Runner : CpAt(q, "joined")' <=> CpAt(q, "joined")
    BY <1>4 DEF CpAt
  <1>22. \A h : JoinedOn(h)' <=> (JoinedOn(h) /\ h # g)
    BY <1>20, <1>21 DEF JoinedOn
  <1>23. Owners'
    BY <1>3, <1>4, <1>6, <1>9, <1>11 DEF Owners
  <1>24. Joining'
    <2>1. ASSUME NEW q \in Runner, NEW i \in 1..Len(cstack[q]),
                 i < Len(cstack[q]) \/ CpAt(q, "join") \/ CpAt(q, "joined")
          PROVE  owner'[group'[cstack[q][i]]] = cstack[q][i]
      <3>1. PICK x : x = cstack[q][i]
        OBVIOUS
      <3>2. x \in Job
        BY <1>3, <3>1, SMTT(30) DEF CpTypes
      <3>3. x # c
        <4>1. CASE q = r
          <5>1. i < Len(cstack[r])
            BY <1>4, <2>1, <4>1 DEF CpAt
          <5>2. i # Len(cstack[r])
            BY <1>5, <5>1, Current, SMTT(30)
          <5> QED
            BY <1>2, <1>5, <3>1, <4>1, <5>2, Current
        <4>2. CASE q # r
          BY <1>2, <1>5, <3>1, <4>2, Current
        <4> QED
          BY <4>1, <4>2
      <3>4. owner[group[x]] = x
        BY <1>3, <2>1, <3>1 DEF Joining
      <3>5. group[x] # g /\ group[x] \in Group
        BY <1>1, <1>7, <1>8, <3>2, <3>4
      <3>6. owner'[group'[x]] = x
        BY <1>10, <1>11, <3>2, <3>3, <3>4, <3>5
      <3> QED
        BY <3>1, <3>6
    <2>2. \A q \in Runner : (CpAt(q, "join")' <=> CpAt(q, "join"))
      BY <1>4 DEF CpAt
    <2> QED
      BY <1>4, <1>21, <2>1, <2>2 DEF Joining
  <1>25. Chains'
    <2>1. ASSUME NEW j \in Unfinished
          PROVE  /\ \A h \in Group : InChain(j, h)' => owner'[h] # -1
                 /\ \A h, k \in Group : InChain(j, h)' /\ InChain(j, k)' /\ owner'[h] # j /\ owner'[k] # j => h = k
                 /\ \A h \in Group \ {0} : owner'[h] = j => parent'[h] # group'[j]
                 /\ \A h, k \in Group \ {0} : owner'[h] = j /\ owner'[k] = j /\ parent'[h] = parent'[k] => h = k
      <3>0. j \in Job /\ j # -1
        BY <1>8, <1>14
      <3>o. /\ \A h \in Group : InChain(j, h) => owner[h] # -1
            /\ \A h, k \in Group : InChain(j, h) /\ InChain(j, k) /\ owner[h] # j /\ owner[k] # j => h = k
            /\ \A h \in Group \ {0} : owner[h] = j => parent[h] # group[j]
            /\ \A h, k \in Group \ {0} : owner[h] = j /\ owner[k] = j /\ parent[h] = parent[k] => h = k
        BY <1>3 DEF Chains
      <3>1. CASE j # c
        <4>1. \A h \in Group : InChain(j, h)' => h # g /\ InChain(j, h)
          BY <1>15, <1>16, <3>0, <3>1
        <4>2. \A h \in Group \ {0} : owner'[h] = j => h # g /\ owner[h] = j /\ parent'[h] = parent[h]
          BY <1>11, <1>12, <3>1
        <4>3. group'[j] = group[j]
          BY <1>10, <3>0, <3>1
        <4> QED
          BY <1>11, <3>o, <4>1, <4>2, <4>3
      <3>2. CASE j = c
        <4>1. \A h \in Group : InChain(c, h)' => h = g \/ (h # g /\ InChain(c, h))
          BY <1>17
        <4>2. \A h \in Group : InChain(c, h)' => owner'[h] # -1
          BY <1>11, <3>0, <3>o, <3>2, <4>1
        <4>3. \A h, k \in Group : InChain(c, h)' /\ InChain(c, k)' /\ owner'[h] # c /\ owner'[k] # c => h = k
          BY <1>11, <3>o, <3>2, <4>1
        <4>4. \A h \in Group \ {0} : owner'[h] = c => h = g \/ (h # g /\ owner[h] = c /\ parent'[h] = parent[h])
          BY <1>11, <1>12
        <4>5. InChain(c, p) /\ \A h \in Group \ {0} : owner[h] = c => InChain(c, parent[h])
          BY <1>2 DEF InChain
        <4>6. p # g /\ \A h \in Group \ {0} : owner[h] = c => parent[h] # g
          BY <1>6, <1>15, <4>5
        <4>7. \A h \in Group \ {0} : owner'[h] = c => parent'[h] # group'[c]
          BY <1>10, <1>12, <4>4, <4>6
        <4>8. \A h \in Group \ {0} : owner[h] = c => parent[h] # p
          BY <1>2, <3>o, <3>2
        <4>9. \A h, k \in Group \ {0} : owner'[h] = c /\ owner'[k] = c /\ parent'[h] = parent'[k] => h = k
          BY <1>12, <3>o, <3>2, <4>4, <4>8
        <4> QED
          BY <3>2, <4>2, <4>3, <4>7, <4>9
      <3> QED
        BY <3>1, <3>2
    <2> QED
      BY <1>14, <2>1 DEF Chains
  <1>26. JoinCounts'
    <2>1. \A h \in Group : owner'[h] = -1 => join'[h] = 0
      BY <1>3, <1>6, <1>8, <1>11, <1>13 DEF JoinCounts
    <2>2. Cardinality(Members(g)') = 0
      BY <1>19, FS_EmptySet
    <2>3. ASSUME NEW h \in Group, owner'[h] # -1
          PROVE  join'[h] = (IF JoinedOn(h)' THEN 0 ELSE 1) - Cardinality(Members(h)')
      <3>1. CASE h = g
        BY <1>13, <1>22, <2>2, <3>1, SMTT(30)
      <3>2. CASE h # g
        BY <1>3, <1>11, <1>13, <1>18, <1>22, <2>3, <3>2 DEF JoinCounts
      <3> QED
        BY <3>1, <3>2
    <2>4. ASSUME NEW q \in Runner, CpAt(q, "joined")'
          PROVE  Members(group[cur_job(q)])' = {}
      <3>1. PICK h : h = group[cur_job(q)]
        OBVIOUS
      <3>2. h \in Group /\ h # g /\ group'[cur_job(q)'] = h /\ Members(h) = {}
        BY <1>3, <1>20, <1>21, <2>4, <3>1 DEF JoinCounts
      <3>3. Members(h)' = {}
        BY <1>18, <3>2
      <3> QED
        BY <3>2, <3>3 DEF Members, InChain
    <2> QED
      BY <2>1, <2>3, <2>4 DEF JoinCounts
  <1> QED
    BY <1>10, <1>11, <1>12, <1>13, <1>23, <1>24, <1>25, <1>26 DEF GroupInv

\* join_take: the semaphore has a unit only when no job is left to wait for.
LEMMA TakeGroups ==
  ASSUME PlacesInv, GroupInv, NEW r \in Runner, join_take(r)
  PROVE  GroupInv' /\ join' \in [Group -> Int]
  <1>1. PICK c, g : c = cur_job(r) /\ g = group[c]
    OBVIOUS
  <1>2. CpTypes /\ Stacks /\ OnePlace /\ Owners /\ Joining /\ Chains /\ JoinCounts
    BY DEF PlacesInv, GroupInv
  <1>3. /\ CpAt(r, "join") /\ join[g] > 0 /\ join' = [join EXCEPT ![g] = @ - 1]
        /\ cp_pc' = [cp_pc EXCEPT ![r] = "joined"]
        /\ UNCHANGED <<jobs, cstack, probed, group, owner, parent, started>>
    BY <1>1 DEF join_take, CpGoto
  <1>4. ~Idle(r) /\ ~CpAt(r, "done") /\ ~CpAt(r, "joined")
    BY <1>3 DEF Idle, CpAt
  <1>5. g \in Group /\ c = cstack[r][Len(cstack[r])] /\ Len(cstack[r]) \in 1..Len(cstack[r]) /\ c \in Job
    BY <1>1, <1>4, Current
  <1>6. owner[g] = c /\ c # -1
    BY <1>1, <1>2, <1>3, <1>5, CapsuleAssumption, SMTT(30) DEF Joining, Job
  <1>7. join \in [Group -> Int] /\ cp_pc \in [Runner -> {"boot", "wait", "pop", "run", "push", "give", "join", "joined", "done", "free", "end"}]
    BY <1>2 DEF CpTypes
  <1>8. join' \in [Group -> Int] /\ join'[g] = join[g] - 1 /\ \A h \in Group : h # g => join'[h] = join[h]
    BY <1>3, <1>5, <1>7, SMTT(30)
  <1>9. \A q \in Runner : CpAt(q, "joined")' <=> (q = r \/ CpAt(q, "joined"))
    BY <1>3, <1>7 DEF CpAt
  <1>10. \A q \in Runner : /\ CpAt(q, "push")' <=> CpAt(q, "push")
                           /\ CpAt(q, "done")' <=> CpAt(q, "done")
                           /\ CpAt(q, "join")' => CpAt(q, "join")
    BY <1>3, <1>7 DEF CpAt
  <1>11. Unfinished' = Unfinished
    BY <1>3, <1>10, SameJobs
  <1>12. \A j, h : InChain(j, h)' <=> InChain(j, h)
    BY <1>3 DEF InChain
  <1>13. \A h : Members(h)' = Members(h)
    BY <1>3, <1>11, <1>12 DEF Members
  <1>14. \A q \in Runner : cur_job(q)' = cur_job(q)
    BY <1>3 DEF cur_job
  <1>15. \A h : JoinedOn(h)' <=> (h = g \/ JoinedOn(h))
    BY <1>1, <1>3, <1>9, <1>14 DEF JoinedOn
  <1>16. ~JoinedOn(g)
    BY <1>1, <1>4, <1>5, JoinedAlone DEF InChain
  <1>17. join[g] = 1 - Cardinality(Members(g))
    BY <1>2, <1>5, <1>6, <1>16 DEF JoinCounts
  <1>18. Cardinality(Members(g)) = 0 /\ Members(g) = {}
    <2>1. Cardinality(Members(g)) \in Nat /\ (Cardinality(Members(g)) = 0 <=> Members(g) = {})
      BY UnfinishedJobs
    <2>2. join[g] \in Int
      BY <1>5, <1>7
    <2> QED
      BY <1>3, <1>17, <2>1, <2>2, SMTT(30)
  <1>19. Owners' /\ Chains'
    BY <1>2, <1>3, <1>11, <1>12, SMTT(30) DEF Owners, Chains
  <1>20. Joining'
    <2>1. \A q \in Runner : (CpAt(q, "join")' \/ CpAt(q, "joined")') => (CpAt(q, "join") \/ CpAt(q, "joined"))
      BY <1>3, <1>9, <1>10
    <2> QED
      BY <1>2, <1>3, <2>1 DEF Joining
  <1>21. JoinCounts'
    <2>1. \A h \in Group : owner'[h] = -1 => join'[h] = 0
      BY <1>2, <1>3, <1>6, <1>8 DEF JoinCounts
    <2>2. ASSUME NEW h \in Group, owner'[h] # -1
          PROVE  join'[h] = (IF JoinedOn(h)' THEN 0 ELSE 1) - Cardinality(Members(h)')
      <3>1. CASE h = g
        <4>1. join'[g] = 0
          BY <1>8, <1>17, <1>18, SMTT(30)
        <4>2. Cardinality(Members(g)') = 0 /\ JoinedOn(g)'
          BY <1>13, <1>15, <1>18
        <4> QED
          BY <3>1, <4>1, <4>2, SMTT(30)
      <3>2. CASE h # g
        BY <1>2, <1>3, <1>8, <1>13, <1>15, <2>2, <3>2 DEF JoinCounts
      <3> QED
        BY <3>1, <3>2
    <2>3. ASSUME NEW q \in Runner, CpAt(q, "joined")'
          PROVE  Members(group[cur_job(q)])' = {}
      <3>1. PICK h : h = group[cur_job(q)]
        OBVIOUS
      <3>2. group'[cur_job(q)'] = h /\ Members(h) = {}
        BY <1>1, <1>2, <1>3, <1>9, <1>14, <1>18, <2>3, <3>1 DEF JoinCounts
      <3>3. Members(h)' = {}
        BY <1>13, <3>2
      <3> QED
        BY <3>2, <3>3 DEF Members, InChain
    <2> QED
      BY <2>1, <2>2, <2>3 DEF JoinCounts
  <1> QED
    BY <1>8, <1>19, <1>20, <1>21 DEF GroupInv

\* job_end: the job was waited for in one group only, the one it tells.
LEMMA EndGroups ==
  ASSUME PlacesInv, GroupInv, NEW r \in Runner, job_end(r)
  PROVE  GroupInv' /\ join' \in [Group -> Int]
  <1>1. PICK c, g : c = cur_job(r) /\ g = group[c]
    OBVIOUS
  <1>2. CpTypes /\ Stacks /\ OnePlace /\ Owners /\ Joining /\ Chains /\ JoinCounts
    BY DEF PlacesInv, GroupInv
  <1>3. /\ CpAt(r, "run") /\ owner[g] # c /\ join' = [join EXCEPT ![g] = @ + 1]
        /\ cp_pc' = [cp_pc EXCEPT ![r] = "done"]
        /\ UNCHANGED <<jobs, cstack, probed, group, owner, parent, started>>
    BY <1>1 DEF job_end, CpGoto
  <1>4. ~Idle(r) /\ ~CpAt(r, "done") /\ ~CpAt(r, "joined")
    BY <1>3 DEF Idle, CpAt
  <1>5. g \in Group /\ c \in Unfinished
    BY <1>1, <1>4, Current
  <1>6. InChain(c, g) /\ ~JoinedOn(g) /\ owner[g] # -1
    BY <1>1, <1>4, <1>5, JoinedAlone DEF InChain
  <1>7. join \in [Group -> Int] /\ cp_pc \in [Runner -> {"boot", "wait", "pop", "run", "push", "give", "join", "joined", "done", "free", "end"}]
    BY <1>2 DEF CpTypes
  <1>8. join' \in [Group -> Int] /\ join'[g] = join[g] + 1 /\ \A h \in Group : h # g => join'[h] = join[h]
    BY <1>3, <1>5, <1>7, SMTT(30)
  <1>9. \A q \in Runner : (CpAt(q, "joined")' <=> CpAt(q, "joined")) /\ (CpAt(q, "join")' <=> CpAt(q, "join"))
    BY <1>3, <1>7 DEF CpAt
  <1>10. Unfinished' = Unfinished \ {c}
    BY <1>1, <1>3, EndsJob
  <1>11. \A j, h : InChain(j, h)' <=> InChain(j, h)
    BY <1>3 DEF InChain
  <1>12. \A h : Members(h)' = Members(h) \ {c}
    BY <1>3, <1>10, <1>11 DEF Members
  <1>13. c \in Members(g)
    BY <1>3, <1>5, <1>6 DEF Members
  <1>14. \A h \in Group : h # g => Members(h)' = Members(h)
    <2>1. \A h \in Group : h # g => c \notin Members(h)
      BY <1>2, <1>3, <1>5, <1>6 DEF Members, Chains
    <2> QED
      BY <1>12, <2>1
  <1>15. \A q \in Runner : cur_job(q)' = cur_job(q)
    BY <1>3 DEF cur_job
  <1>16. \A h : JoinedOn(h)' <=> JoinedOn(h)
    BY <1>3, <1>9, <1>15 DEF JoinedOn
  <1>17. Owners' /\ Chains'
    BY <1>2, <1>3, <1>10, <1>11, SMTT(30) DEF Owners, Chains
  <1>18. Joining'
    BY <1>2, <1>3, <1>9 DEF Joining
  <1>19. Cardinality(Members(g)') = Cardinality(Members(g)) - 1 /\ Cardinality(Members(g)) \in Nat
    <2>1. PICK M : M = Members(g)
      OBVIOUS
    <2>2. IsFiniteSet(M) /\ Cardinality(M) \in Nat
      BY <2>1, UnfinishedJobs
    <2>3. Cardinality(M \ {c}) = Cardinality(M) - 1
      BY <1>13, <2>1, <2>2, FS_RemoveElement
    <2> QED
      BY <1>12, <2>1, <2>2, <2>3
  <1>20. JoinCounts'
    <2>1. \A h \in Group : owner'[h] = -1 => join'[h] = 0
      BY <1>2, <1>3, <1>6, <1>8 DEF JoinCounts
    <2>2. ASSUME NEW h \in Group, owner'[h] # -1
          PROVE  join'[h] = (IF JoinedOn(h)' THEN 0 ELSE 1) - Cardinality(Members(h)')
      <3>1. CASE h = g
        <4>1. join[g] = 1 - Cardinality(Members(g))
          BY <1>2, <1>5, <1>6 DEF JoinCounts
        <4> QED
          BY <1>6, <1>8, <1>16, <1>19, <3>1, <4>1, SMTT(30)
      <3>2. CASE h # g
        BY <1>2, <1>3, <1>8, <1>14, <1>16, <2>2, <3>2 DEF JoinCounts
      <3> QED
        BY <3>1, <3>2
    <2>3. ASSUME NEW q \in Runner, CpAt(q, "joined")'
          PROVE  Members(group[cur_job(q)])' = {}
      <3>1. PICK h : h = group[cur_job(q)]
        OBVIOUS
      <3>2. group'[cur_job(q)'] = h /\ Members(h) = {}
        BY <1>2, <1>3, <1>9, <1>15, <2>3, <3>1 DEF JoinCounts
      <3>3. Members(h)' = {}
        BY <1>12, <3>2
      <3> QED
        BY <3>2, <3>3 DEF Members, InChain
    <2> QED
      BY <2>1, <2>2, <2>3 DEF JoinCounts
  <1> QED
    BY <1>8, <1>17, <1>18, <1>20 DEF GroupInv

\* app_start: main's group has no job to wait for.
LEMMA StartGroups ==
  ASSUME PlacesInv, GroupInv, app_start
  PROVE  GroupInv'
  <1>1. CpTypes /\ Stacks /\ OnePlace /\ Owners /\ Joining /\ Chains /\ JoinCounts
    BY DEF PlacesInv, GroupInv
  <1>2. ~booted /\ UNCHANGED <<cp_pc, cstack, group, owner, parent, join, started>>
    BY DEF app_start
  <1>3. Unfinished = {} /\ Unfinished' = {0}
    BY StartsMain
  <1>4. /\ group[0] = 0 /\ \A g \in Group \ {0} : owner[g] = -1
        /\ \A r \in Runner : CpAt(r, "boot") \/ CpAt(r, "wait")
    BY <1>1, <1>2 DEF Stacks
  <1>5. owner[0] = 0
    BY <1>1 DEF Owners
  <1>6. \A h : InChain(0, h)' <=> h = 0
    BY <1>2, <1>4, SMTT(30) DEF InChain
  <1>7. \A h : Members(h) = {} /\ Members(h)' = {}
    BY <1>2, <1>3, <1>5, <1>6 DEF Members
  <1>8. \A r \in Runner : ~CpAt(r, "joined") /\ ~CpAt(r, "joined")' /\ ~CpAt(r, "join")'
    BY <1>2, <1>4 DEF CpAt
  <1>9. \A h : ~JoinedOn(h) /\ ~JoinedOn(h)'
    BY <1>8 DEF JoinedOn
  <1>10. Owners' /\ Joining'
    BY <1>1, <1>2, <1>8 DEF Owners, Joining
  <1>11. Chains'
    BY <1>2, <1>3, <1>4, <1>5, <1>6, SMTT(30) DEF Chains
  <1>12. JoinCounts'
    BY <1>1, <1>2, <1>7, <1>8, <1>9 DEF JoinCounts
  <1> QED
    BY <1>10, <1>11, <1>12 DEF GroupInv

\* join_done: the group is in no chain any more, or main's unit is given back.
LEMMA DoneGroups ==
  ASSUME PlacesInv, GroupInv, NEW r \in Runner, join_done(r)
  PROVE  /\ GroupInv' /\ join' \in [Group -> Int] /\ group' \in [Job -> Group]
         /\ owner' \in [Group -> Job \cup {-1}] /\ parent' \in [Group -> Group]
  <1>1. PICK c, g : c = cur_job(r) /\ g = group[c]
    OBVIOUS
  <1>2. CpTypes /\ Stacks /\ OnePlace /\ Owners /\ Joining /\ Chains /\ JoinCounts
    BY DEF PlacesInv, GroupInv
  <1>3. /\ CpAt(r, "joined") /\ cp_pc' = [cp_pc EXCEPT ![r] = "run"]
        /\ UNCHANGED <<jobs, cstack, probed, started>>
    BY <1>1 DEF join_done, CpGoto
  <1>4. ~Idle(r) /\ ~CpAt(r, "done")
    BY <1>3 DEF Idle, CpAt
  <1>5. /\ g \in Group /\ c = cstack[r][Len(cstack[r])] /\ Len(cstack[r]) \in 1..Len(cstack[r])
        /\ c \in Job /\ c \in Unfinished
    BY <1>1, <1>4, Current
  <1>6. owner[g] = c /\ Members(g) = {} /\ \A j \in Job : j # -1
    <2>1. owner[g] = c
      BY <1>1, <1>2, <1>3, <1>5 DEF Joining
    <2>2. Members(g) = {}
      BY <1>1, <1>2, <1>3 DEF JoinCounts
    <2>3. \A j \in Job : j # -1
      BY CapsuleAssumption, SMTT(30) DEF Job
    <2> QED
      BY <2>1, <2>2, <2>3
  <1>7. /\ group \in [Job -> Group] /\ owner \in [Group -> Job \cup {-1}] /\ join \in [Group -> Int]
        /\ parent \in [Group -> Group]
        /\ cp_pc \in [Runner -> {"boot", "wait", "pop", "run", "push", "give", "join", "joined", "done", "free", "end"}]
    BY <1>2 DEF CpTypes
  <1>8. join[g] = 0
    <2>1. JoinedOn(g)
      BY <1>1, <1>3 DEF JoinedOn
    <2>2. Cardinality(Members(g)) = 0
      BY <1>6, FS_EmptySet
    <2>3. join[g] = 0 - Cardinality(Members(g))
      BY <1>2, <1>5, <1>6, <2>1 DEF JoinCounts
    <2> QED
      BY <2>2, <2>3, SMTT(30)
  <1>9. \A q \in Runner : CpAt(q, "joined")' <=> (q # r /\ CpAt(q, "joined"))
    BY <1>3, <1>7 DEF CpAt
  <1>10. \A q \in Runner : /\ CpAt(q, "push")' <=> CpAt(q, "push")
                           /\ CpAt(q, "done")' <=> CpAt(q, "done")
                           /\ CpAt(q, "join")' => CpAt(q, "join") /\ q # r
    BY <1>3, <1>7 DEF CpAt
  <1>11. Unfinished' = Unfinished /\ Unfinished \subseteq Job
    BY <1>3, <1>10, SameJobs, UnfinishedJobs
  <1>12. \A q \in Runner : cur_job(q)' = cur_job(q)
    BY <1>3 DEF cur_job
  <1>13. \A q \in Runner : CpAt(q, "joined") /\ q # r =>
           cur_job(q) # c /\ group[cur_job(q)] # g /\ cur_job(q) \in Job /\ group[cur_job(q)] \in Group
    <2>1. ASSUME NEW q \in Runner, CpAt(q, "joined"), q # r
          PROVE  cur_job(q) # c /\ group[cur_job(q)] # g /\ cur_job(q) \in Job /\ group[cur_job(q)] \in Group
      <3>1. ~Idle(q)
        BY <2>1 DEF Idle, CpAt
      <3>2. /\ cur_job(q) = cstack[q][Len(cstack[q])] /\ Len(cstack[q]) \in 1..Len(cstack[q])
            /\ cur_job(q) \in Job /\ group[cur_job(q)] \in Group
        BY <3>1, Current
      <3>3. cur_job(q) # c
        BY <1>1, <1>4, <2>1, <3>2, Current
      <3>4. owner[group[cur_job(q)]] = cur_job(q)
        BY <1>2, <2>1, <3>2 DEF Joining
      <3> QED
        BY <1>6, <3>2, <3>3, <3>4
    <2> QED
      BY <2>1
  <1>14. CASE g = 0
    <2>1. join' = [join EXCEPT ![g] = @ + 1] /\ UNCHANGED <<group, owner, parent>>
      BY <1>1, <1>14 DEF join_done
    <2>2. join' \in [Group -> Int] /\ join'[g] = 1 /\ \A h \in Group : h # g => join'[h] = join[h]
      BY <1>5, <1>7, <1>8, <2>1, SMTT(30)
    <2>3. \A j, h : InChain(j, h)' <=> InChain(j, h)
      BY <2>1 DEF InChain
    <2>4. \A h : Members(h)' = Members(h)
      BY <1>11, <2>1, <2>3 DEF Members
    <2>5. \A h : JoinedOn(h)' <=> (h # g /\ JoinedOn(h))
      BY <1>1, <1>9, <1>12, <1>13, <2>1 DEF JoinedOn
    <2>6. Owners' /\ Chains'
      BY <1>2, <1>3, <1>11, <2>1, <2>3, SMTT(30) DEF Owners, Chains
    <2>7. Joining'
      BY <1>2, <1>3, <1>9, <1>10, <2>1 DEF Joining
    <2>8. JoinCounts'
      <3>1. \A h \in Group : owner'[h] = -1 => join'[h] = 0
        BY <1>2, <1>5, <1>6, <2>1, <2>2, SMTT(30) DEF JoinCounts
      <3>2. ASSUME NEW h \in Group, owner'[h] # -1
            PROVE  join'[h] = (IF JoinedOn(h)' THEN 0 ELSE 1) - Cardinality(Members(h)')
        <4>1. CASE h = g
          <5>1. Cardinality(Members(g)') = 0 /\ ~JoinedOn(g)'
            BY <1>6, <2>4, <2>5, FS_EmptySet
          <5> QED
            BY <2>2, <4>1, <5>1, SMTT(30)
        <4>2. CASE h # g
          BY <1>2, <2>1, <2>2, <2>4, <2>5, <3>2, <4>2 DEF JoinCounts
        <4> QED
          BY <4>1, <4>2
      <3>3. ASSUME NEW q \in Runner, CpAt(q, "joined")'
            PROVE  Members(group[cur_job(q)])' = {}
        <4>1. PICK h : h = group[cur_job(q)]
          OBVIOUS
        <4>2. group'[cur_job(q)'] = h /\ Members(h) = {}
          BY <1>2, <1>9, <1>12, <2>1, <3>3, <4>1 DEF JoinCounts
        <4>3. Members(h)' = {}
          BY <2>4, <4>2
        <4> QED
          BY <4>2, <4>3 DEF Members, InChain
      <3> QED
        BY <3>1, <3>2, <3>3 DEF JoinCounts
    <2> QED
      BY <1>7, <2>1, <2>2, <2>6, <2>7, <2>8 DEF GroupInv
  <1>15. CASE g # 0
    <2>1. PICK p : p = parent[g]
      OBVIOUS
    <2>2. /\ group' = [group EXCEPT ![c] = p] /\ owner' = [owner EXCEPT ![g] = -1]
          /\ parent' = [parent EXCEPT ![g] = 0] /\ join' = join
      BY <1>1, <1>15, <2>1 DEF join_done
    <2>3. p \in Group /\ 0 \in Group
      BY <1>5, <1>7, <2>1, CapsuleAssumption, SMTT(30) DEF Group
    <2>4. group' \in [Job -> Group] /\ group'[c] = p /\ \A j \in Job : j # c => group'[j] = group[j]
      BY <1>5, <1>7, <2>2, <2>3
    <2>5. owner' \in [Group -> Job \cup {-1}] /\ owner'[g] = -1 /\ \A h \in Group : h # g => owner'[h] = owner[h]
      BY <1>5, <1>7, <2>2
    <2>6. parent' \in [Group -> Group] /\ \A h \in Group : h # g => parent'[h] = parent[h]
      BY <1>5, <1>7, <2>2, <2>3
    <2>7. /\ \A h \in Group : InChain(c, h) => owner[h] # -1
          /\ \A h \in Group \ {0} : owner[h] = c => parent[h] # g
          /\ \A h, k \in Group \ {0} : owner[h] = c /\ owner[k] = c /\ parent[h] = parent[k] => h = k
      BY <1>1, <1>2, <1>5 DEF Chains
    <2>8. \A j \in Job : j # c => \A h : InChain(j, h)' <=> InChain(j, h)
      BY <1>6, <2>4, <2>5, <2>6 DEF InChain
    <2>9. \A h : InChain(c, h)' <=> (h # g /\ InChain(c, h))
      <3>1. ASSUME NEW h
            PROVE  (h = p \/ \E k \in Group \ {0} : owner'[k] = c /\ parent'[k] = h) <=>
                     \E k \in Group \ {0} : owner[k] = c /\ parent[k] = h
        BY <1>5, <1>6, <1>15, <2>1, <2>5, <2>6
      <3>2. ASSUME NEW h
            PROVE  (\E k \in Group \ {0} : owner[k] = c /\ parent[k] = h) => h # g
        BY <2>7
      <3> QED
        BY <1>1, <2>4, <3>1, <3>2 DEF InChain
    <2>10. \A j \in Unfinished : j # c => ~InChain(j, g)
      BY <1>6 DEF Members
    <2>11. \A h \in Group : h # g => Members(h)' = Members(h)
      BY <1>11, <2>5, <2>8, <2>9 DEF Members
    <2>12. \A q \in Runner : CpAt(q, "joined") /\ q # r => group'[cur_job(q)] = group[cur_job(q)]
      BY <1>13, <2>4
    <2>13. \A h : h # g => (JoinedOn(h)' <=> JoinedOn(h))
      BY <1>1, <1>9, <1>12, <2>12 DEF JoinedOn
    <2>14. Owners'
      <3>1. -1 <= started
        BY <1>2, CapsuleAssumption, SMTT(30) DEF CpTypes, Job
      <3> QED
        BY <1>2, <1>3, <1>15, <2>3, <2>5, <3>1 DEF Owners
    <2>15. Joining'
      <3>1. ASSUME NEW q \in Runner, NEW i \in 1..Len(cstack[q]),
                   i < Len(cstack[q]) \/ CpAt(q, "join")' \/ CpAt(q, "joined")'
            PROVE  owner'[group'[cstack[q][i]]] = cstack[q][i]
        <4>1. PICK x : x = cstack[q][i]
          OBVIOUS
        <4>2. x \in Job
          BY <1>2, <4>1, SMTT(30) DEF CpTypes
        <4>3. x # c
          <5>1. CASE q = r
            <6>1. i < Len(cstack[r])
              BY <1>9, <1>10, <3>1, <5>1
            <6>2. i # Len(cstack[r])
              BY <1>4, <6>1, Current, SMTT(30)
            <6> QED
              BY <1>1, <1>4, <4>1, <5>1, <6>2, Current
          <5>2. CASE q # r
            BY <1>1, <1>4, <4>1, <5>2, Current
          <5> QED
            BY <5>1, <5>2
        <4>4. owner[group[x]] = x
          BY <1>2, <1>9, <1>10, <3>1, <4>1 DEF Joining
        <4>5. group[x] # g /\ group[x] \in Group
          BY <1>6, <1>7, <4>2, <4>3, <4>4
        <4>6. owner'[group'[x]] = x
          BY <2>4, <2>5, <4>2, <4>3, <4>4, <4>5
        <4> QED
          BY <4>1, <4>6
      <3> QED
        BY <1>3, <3>1 DEF Joining
    <2>16. Chains'
      <3>1. ASSUME NEW j \in Unfinished
            PROVE  /\ \A h \in Group : InChain(j, h)' => owner'[h] # -1
                   /\ \A h, k \in Group : InChain(j, h)' /\ InChain(j, k)' /\ owner'[h] # j /\ owner'[k] # j => h = k
                   /\ \A h \in Group \ {0} : owner'[h] = j => parent'[h] # group'[j]
                   /\ \A h, k \in Group \ {0} : owner'[h] = j /\ owner'[k] = j /\ parent'[h] = parent'[k] => h = k
        <4>0. j \in Job /\ j # -1
          BY <1>6, <1>11
        <4>1. /\ \A h \in Group : InChain(j, h) => owner[h] # -1
              /\ \A h, k \in Group : InChain(j, h) /\ InChain(j, k) /\ owner[h] # j /\ owner[k] # j => h = k
              /\ \A h \in Group \ {0} : owner[h] = j => parent[h] # group[j]
              /\ \A h, k \in Group \ {0} : owner[h] = j /\ owner[k] = j /\ parent[h] = parent[k] => h = k
          BY <1>2 DEF Chains
        <4>2. \A h \in Group : InChain(j, h)' => h # g /\ InChain(j, h)
          BY <2>8, <2>9, <2>10, <4>0
        <4>3. \A h \in Group \ {0} : owner'[h] = j => h # g /\ owner[h] = j /\ parent'[h] = parent[h]
          BY <2>5, <2>6, <4>0
        <4>4. \A h \in Group \ {0} : owner'[h] = j => parent'[h] # group'[j]
          <5>1. CASE j = c
            BY <1>5, <1>6, <1>15, <2>1, <2>4, <2>7, <4>3, <5>1, SMTT(30)
          <5>2. CASE j # c
            BY <2>4, <4>0, <4>1, <4>3, <5>2
          <5> QED
            BY <5>1, <5>2
        <4> QED
          BY <2>5, <4>1, <4>2, <4>3, <4>4
      <3> QED
        BY <1>11, <3>1 DEF Chains
    <2>17. JoinCounts'
      <3>1. \A h \in Group : owner'[h] = -1 => join'[h] = 0
        BY <1>2, <1>8, <2>2, <2>5 DEF JoinCounts
      <3>2. ASSUME NEW h \in Group, owner'[h] # -1
            PROVE  join'[h] = (IF JoinedOn(h)' THEN 0 ELSE 1) - Cardinality(Members(h)')
        <4>1. h # g /\ owner[h] # -1
          BY <2>5, <3>2
        <4> QED
          BY <1>2, <2>2, <2>11, <2>13, <4>1 DEF JoinCounts
      <3>3. ASSUME NEW q \in Runner, CpAt(q, "joined")'
            PROVE  Members(group[cur_job(q)])' = {}
        <4>1. PICK h : h = group[cur_job(q)]
          OBVIOUS
        <4>2. group'[cur_job(q)'] = h /\ Members(h) = {} /\ h # g /\ h \in Group
          BY <1>2, <1>9, <1>12, <1>13, <2>12, <3>3, <4>1 DEF JoinCounts
        <4>3. Members(h)' = {}
          BY <2>11, <4>2
        <4> QED
          BY <4>2, <4>3 DEF Members, InChain
      <3> QED
        BY <3>1, <3>2, <3>3 DEF JoinCounts
    <2> QED
      BY <1>7, <2>2, <2>4, <2>5, <2>6, <2>14, <2>15, <2>16, <2>17 DEF GroupInv
  <1> QED
    BY <1>14, <1>15

-----------------------------------------------------------------------------
(* Processors.                                                             *)

\* the runners that wait, and those that have a probed job to give away
Waits == {r \in Runner : CpAt(r, "wait")}
Gives == {r \in Runner : CpAt(r, "push") \/ CpAt(r, "give")}

\* Each waiting runner is free, told of a job, or promised to one that has been
\* probed.
Promised == Cardinality(Waits) = free_cpu + has_job + Cardinality(Gives)

\* The inductive invariant.
CapIInv == PlacesInv /\ GroupInv /\ Promised

\* The two counts are of runners.
LEMMA Runners ==
  ASSUME NEW S, S \subseteq Runner
  PROVE  /\ IsFiniteSet(S) /\ Cardinality(S) \in Nat /\ Cardinality(S) <= Cardinality(Runner)
         /\ Cardinality(Runner) \in Nat
         /\ \A r \in S : Cardinality(S \ {r}) = Cardinality(S) - 1
         /\ \A r \in Runner \ S : Cardinality(S \cup {r}) = Cardinality(S) + 1
  <1>1. IsFiniteSet(Runner) /\ Cardinality(Runner) \in Nat
    BY CapsuleAssumption, FS_CardinalityType
  <1>2. IsFiniteSet(S) /\ Cardinality(S) <= Cardinality(Runner)
    BY <1>1, FS_Subset
  <1>3. Cardinality(S) \in Nat
    BY <1>2, FS_CardinalityType
  <1>4. \A r \in S : Cardinality(S \ {r}) = Cardinality(S) - 1
    BY <1>2, FS_RemoveElement
  <1>5. \A r \in Runner \ S : Cardinality(S \cup {r}) = Cardinality(S) + 1
    BY <1>2, FS_AddElement
  <1> QED
    BY <1>1, <1>2, <1>3, <1>4, <1>5

\* No action loses a processor or counts it twice.
LEMMA PromisedStep ==
  ASSUME CpTypes, Promised, CpNext
  PROVE  Promised' /\ free_cpu' \in Nat /\ has_job' \in Nat
  <1>1. free_cpu \in Nat /\ has_job \in Nat
    BY DEF CpTypes
  <1>2. PICK pc \in [Runner -> {"boot", "wait", "pop", "run", "push", "give", "join", "joined", "done", "free", "end"}] : pc = cp_pc
    BY DEF CpTypes
  <1>3. PICK W, G : W = Waits /\ G = Gives
    OBVIOUS
  <1>4. /\ W \subseteq Runner /\ G \subseteq Runner
        /\ \A q \in Runner : (q \in W <=> pc[q] = "wait") /\ (q \in G <=> pc[q] \in {"push", "give"})
    BY <1>2, <1>3 DEF Waits, Gives, CpAt
  <1>5. Cardinality(W) \in Nat /\ Cardinality(G) \in Nat /\ Cardinality(W) = free_cpu + has_job + Cardinality(G)
    BY <1>3, <1>4, Runners DEF Promised
  <1>6. ASSUME NEW r \in Runner, NEW b, cp_pc' = [cp_pc EXCEPT ![r] = b]
        PROVE  /\ Waits' = IF b = "wait" THEN W \cup {r} ELSE W \ {r}
               /\ Gives' = IF b \in {"push", "give"} THEN G \cup {r} ELSE G \ {r}
    <2>1. cp_pc'[r] = b /\ \A q \in Runner : q # r => cp_pc'[q] = pc[q]
      BY <1>2, <1>6
    <2> QED
      BY <1>4, <2>1 DEF Waits, Gives, CpAt
  <1>7. ASSUME NEW r \in Runner, NEW b, cp_pc' = [cp_pc EXCEPT ![r] = b],
               pc[r] = "wait" <=> b = "wait", pc[r] \in {"push", "give"} <=> b \in {"push", "give"},
               UNCHANGED <<free_cpu, has_job>>
        PROVE  Promised' /\ free_cpu' \in Nat /\ has_job' \in Nat
    <2>1. Waits' = W /\ Gives' = G
      BY <1>4, <1>6, <1>7
    <2> QED
      BY <1>1, <1>5, <1>7, <2>1 DEF Promised
  <1>8. CASE app_start
    <2>1. free_cpu > 0 /\ free_cpu' = free_cpu - 1 /\ has_job' = has_job + 1 /\ cp_pc' = cp_pc
      BY <1>8 DEF app_start
    <2>2. Waits' = W /\ Gives' = G
      BY <1>3, <2>1 DEF Waits, Gives, CpAt
    <2> QED
      BY <1>1, <1>5, <2>1, <2>2, SMTT(30) DEF Promised
  <1>9. ASSUME NEW r \in Runner, runner_free(r)
        PROVE  Promised' /\ free_cpu' \in Nat /\ has_job' \in Nat
    <2>1. /\ pc[r] \in {"boot", "free"} /\ free_cpu' = free_cpu + 1 /\ has_job' = has_job
          /\ cp_pc' = [cp_pc EXCEPT ![r] = "wait"]
      BY <1>2, <1>9 DEF runner_free, CpAt, CpGoto
    <2>2. Waits' = W \cup {r} /\ Gives' = G /\ r \notin W
      BY <1>4, <1>6, <2>1
    <2>3. Cardinality(W \cup {r}) = Cardinality(W) + 1
      BY <1>4, <2>2, Runners
    <2> QED
      BY <1>1, <1>5, <2>1, <2>2, <2>3, SMTT(30) DEF Promised
  <1>10. ASSUME NEW r \in Runner, runner_take(r)
         PROVE  Promised' /\ free_cpu' \in Nat /\ has_job' \in Nat
    <2>1. /\ pc[r] = "wait" /\ free_cpu' = free_cpu /\ has_job' = has_job - 1 /\ has_job > 0
          /\ cp_pc' = [cp_pc EXCEPT ![r] = "pop"]
      BY <1>2, <1>10 DEF runner_take, CpAt, CpGoto
    <2>2. Waits' = W \ {r} /\ Gives' = G /\ r \in W
      BY <1>4, <1>6, <2>1
    <2>3. Cardinality(W \ {r}) = Cardinality(W) - 1
      BY <1>4, <2>2, Runners
    <2> QED
      BY <1>1, <1>5, <2>1, <2>2, <2>3, SMTT(30) DEF Promised
  <1>11. ASSUME NEW r \in Runner, capsule_probe(r)
         PROVE  Promised' /\ free_cpu' \in Nat /\ has_job' \in Nat
    <2>1. /\ pc[r] = "run" /\ free_cpu' = free_cpu - 1 /\ has_job' = has_job /\ free_cpu > 0
          /\ cp_pc' = [cp_pc EXCEPT ![r] = "push"]
      BY <1>2, <1>11 DEF capsule_probe, CpAt, CpGoto
    <2>2. Waits' = W /\ Gives' = G \cup {r} /\ r \notin G
      BY <1>4, <1>6, <2>1
    <2>3. Cardinality(G \cup {r}) = Cardinality(G) + 1
      BY <1>4, <2>2, Runners
    <2> QED
      BY <1>1, <1>5, <2>1, <2>2, <2>3, SMTT(30) DEF Promised
  <1>12. ASSUME NEW r \in Runner, divide_give(r)
         PROVE  Promised' /\ free_cpu' \in Nat /\ has_job' \in Nat
    <2>1. /\ pc[r] = "give" /\ free_cpu' = free_cpu /\ has_job' = has_job + 1
          /\ cp_pc' = [cp_pc EXCEPT ![r] = "run"]
      BY <1>2, <1>12 DEF divide_give, CpAt, CpGoto
    <2>2. Waits' = W /\ Gives' = G \ {r} /\ r \in G
      <3>1. r \notin W /\ r \in G
        BY <1>4, <2>1
      <3>2. /\ Waits' = IF "run" = "wait" THEN W \cup {r} ELSE W \ {r}
            /\ Gives' = IF "run" \in {"push", "give"} THEN G \cup {r} ELSE G \ {r}
        BY <1>6, <2>1
      <3> QED
        BY <3>1, <3>2
    <2>3. Cardinality(G \ {r}) = Cardinality(G) - 1
      BY <1>4, <2>2, Runners
    <2> QED
      BY <1>1, <1>5, <2>1, <2>2, <2>3, SMTT(30) DEF Promised
  <1>13. ASSUME NEW r \in Runner, runner_pop(r)
         PROVE  Promised' /\ free_cpu' \in Nat /\ has_job' \in Nat
    <2>1. PICK b \in {"free", "run"} : cp_pc' = [cp_pc EXCEPT ![r] = b]
      BY <1>13 DEF runner_pop, RunJob, CpGoto
    <2>2. pc[r] = "pop" /\ UNCHANGED <<free_cpu, has_job>>
      BY <1>2, <1>13 DEF runner_pop, CpAt
    <2> QED
      BY <1>7, <2>1, <2>2
  <1>14. ASSUME NEW r \in Runner, divide_push(r)
         PROVE  Promised' /\ free_cpu' \in Nat /\ has_job' \in Nat
    <2>1. pc[r] = "push" /\ cp_pc' = [cp_pc EXCEPT ![r] = "give"] /\ UNCHANGED <<free_cpu, has_job>>
      BY <1>2, <1>14 DEF divide_push, CpAt, CpGoto
    <2> QED
      BY <1>7, <2>1
  <1>15. ASSUME NEW r \in Runner,
                join_steal(r) \/ join_take(r) \/ join_done(r) \/ job_end(r) \/ job_done(r)
                \/ capsule_group_join(r) \/ main_end(r)
         PROVE  Promised' /\ free_cpu' \in Nat /\ has_job' \in Nat
    <2>1. /\ pc[r] \in {"run", "join", "joined", "done"} /\ UNCHANGED <<free_cpu, has_job>>
          /\ \E b \in {"run", "join", "joined", "done", "free", "end"} : cp_pc' = [cp_pc EXCEPT ![r] = b]
      BY <1>2, <1>15 DEF join_steal, RunJob, join_take, join_done, job_end, job_done, capsule_group_join, main_end, CpAt, CpGoto
    <2>2. PICK b \in {"run", "join", "joined", "done", "free", "end"} : cp_pc' = [cp_pc EXCEPT ![r] = b]
      BY <2>1
    <2> QED
      BY <1>7, <2>1, <2>2
  <1>16. ASSUME NEW r \in Runner, capsule_group_split(r)
         PROVE  Promised' /\ free_cpu' \in Nat /\ has_job' \in Nat
    <2>1. UNCHANGED <<free_cpu, has_job, cp_pc>>
      BY <1>16 DEF capsule_group_split
    <2> QED
      BY <1>1, <2>1 DEF Promised, Waits, Gives, CpAt
  <1> QED
    BY <1>8, <1>9, <1>10, <1>11, <1>12, <1>13, <1>14, <1>15, <1>16 DEF CpNext, Work

-----------------------------------------------------------------------------
(* The other steps.                                                        *)

\* A runner goes on and no job is made, ends or changes its group.
LEMMA QuietStep ==
  ASSUME PlacesInv, GroupInv, NEW r \in Runner, NEW b,
         b \in {"wait", "pop", "run", "join", "free", "end"},
         cp_pc' = [cp_pc EXCEPT ![r] = b], cp_pc[r] \notin {"push", "joined", "done"},
         b \in {"wait", "pop", "free"} <=> cstack[r] = <<>>,
         b = "join" => owner[group[cur_job(r)]] = cur_job(r),
         ~booted => b = "wait" /\ has_job' = 0,
         free_cpu' \in Nat, has_job' \in Nat,
         UNCHANGED <<booted, jobs, cstack, probed, group, owner, parent, join, started>>
  PROVE  PlacesInv' /\ GroupInv'
  <1>1. CpTypes /\ Stacks /\ OnePlace /\ Joining
    BY DEF PlacesInv, GroupInv
  <1>2. OnePlace' /\ \A q \in Runner : Idle(q)' <=> cstack'[q] = <<>>
    BY GoesOn
  <1>3. CpTypes'
    BY <1>1 DEF CpTypes
  <1>4. cp_pc'[r] = b /\ \A q \in Runner : q # r => cp_pc'[q] = cp_pc[q]
    BY <1>1 DEF CpTypes
  <1>5. Stacks'
    <2>1. ~booted => \A q \in Runner : CpAt(q, "boot")' \/ CpAt(q, "wait")'
      BY <1>1, <1>4 DEF Stacks, CpAt
    <2> QED
      BY <1>1, <1>2, <2>1 DEF Stacks
  <1>6. \A q \in Runner : /\ CpAt(q, "push")' <=> CpAt(q, "push")
                          /\ CpAt(q, "done")' <=> CpAt(q, "done")
                          /\ CpAt(q, "joined")' <=> CpAt(q, "joined")
                          /\ q # r => (CpAt(q, "join")' <=> CpAt(q, "join"))
    BY <1>4 DEF CpAt
  <1>7. Unfinished' = Unfinished
    BY <1>6, SameJobs
  <1>8. Joining'
    <2>1. ASSUME NEW q \in Runner, NEW i \in 1..Len(cstack[q]),
                 i < Len(cstack[q]) \/ CpAt(q, "join")' \/ CpAt(q, "joined")'
          PROVE  owner[group[cstack[q][i]]] = cstack[q][i]
      <3>1. CASE i < Len(cstack[q]) \/ CpAt(q, "joined")' \/ q # r
        BY <1>1, <1>6, <2>1, <3>1 DEF Joining
      <3>2. CASE q = r /\ ~(i < Len(cstack[q])) /\ CpAt(q, "join")'
        <4>1. b = "join"
          BY <1>4, <3>2 DEF CpAt
        <4>2. cstack[r] \in Seq(Job) /\ i \in 1..Len(cstack[r])
          BY <1>1, <3>2 DEF CpTypes
        <4>3. i = Len(cstack[r])
          BY <3>2, <4>2, SMTT(30)
        <4> QED
          BY <3>2, <4>1, <4>3 DEF cur_job
      <3> QED
        BY <2>1, <3>1, <3>2
    <2> QED
      BY <2>1 DEF Joining
  <1>9. GroupInv'
    BY <1>6, <1>7, <1>8, GroupsStay
  <1> QED
    BY <1>2, <1>3, <1>5, <1>9 DEF PlacesInv

\* A runner takes a job from the list; below it is at most a job that joins.
LEMMA RunStep ==
  ASSUME PlacesInv, GroupInv, NEW r \in Runner, jobs # <<>>, RunJob(r), CpAt(r, "pop") \/ CpAt(r, "join"),
         UNCHANGED <<booted, free_cpu, has_job, probed, group, owner, parent, join, started>>
  PROVE  PlacesInv' /\ GroupInv'
  <1>1. CpTypes /\ Stacks /\ OnePlace /\ Joining
    BY DEF PlacesInv, GroupInv
  <1>2. /\ jobs' \in Seq(Job) /\ cstack' \in [Runner -> Seq(Job)]
        /\ cp_pc' = [cp_pc EXCEPT ![r] = "run"]
        /\ OnePlace' /\ \A q \in Runner : Idle(q)' <=> cstack'[q] = <<>>
        /\ booted /\ Unfinished' = Unfinished
        /\ \A q \in Runner \ {r} : cstack'[q] = cstack[q]
        /\ Len(cstack'[r]) = Len(cstack[r]) + 1
        /\ \A i \in 1..Len(cstack[r]) : cstack'[r][i] = cstack[r][i]
    BY TakesJob
  <1>3. CpTypes'
    BY <1>1, <1>2 DEF CpTypes
  <1>4. Stacks'
    BY <1>2 DEF Stacks
  <1>5. cp_pc'[r] = "run" /\ cp_pc[r] \in {"pop", "join"} /\ \A q \in Runner : q # r => cp_pc'[q] = cp_pc[q]
    BY <1>1, <1>2 DEF CpTypes, CpAt
  <1>6. \A q \in Runner : /\ CpAt(q, "joined")' <=> CpAt(q, "joined")
                          /\ CpAt(q, "joined") => q # r
                          /\ q # r => (CpAt(q, "join")' <=> CpAt(q, "join"))
    BY <1>5 DEF CpAt
  <1>7. Joining'
    <2>1. ASSUME NEW q \in Runner, NEW i \in 1..Len(cstack'[q]),
                 i < Len(cstack'[q]) \/ CpAt(q, "join")' \/ CpAt(q, "joined")'
          PROVE  owner[group[cstack'[q][i]]] = cstack'[q][i]
      <3>1. CASE q # r
        <4>1. cstack'[q] = cstack[q]
          BY <1>2, <3>1
        <4> QED
          BY <1>1, <1>6, <2>1, <3>1, <4>1 DEF Joining
      <3>2. CASE q = r
        <4>1. i < Len(cstack'[r])
          BY <1>5, <2>1, <3>2 DEF CpAt
        <4>2. PICK m : m = Len(cstack[r])
          OBVIOUS
        <4>3. m \in Nat /\ i \in 1..m
          <5>1. cstack[r] \in Seq(Job)
            BY <1>1 DEF CpTypes
          <5>2. m \in Nat /\ i \in 1..(m + 1) /\ i < m + 1
            BY <1>2, <3>2, <4>1, <4>2, <5>1, SMTT(30)
          <5> QED
            BY <5>2, SMTT(30)
        <4>4. cstack'[r][i] = cstack[r][i]
          BY <1>2, <4>2, <4>3
        <4>5. CpAt(r, "join")
          <5>1. CpAt(r, "pop") => Len(cstack[r]) = 0
            BY <1>1, SMTT(30) DEF Stacks, Idle, CpAt
          <5> QED
            BY <4>2, <4>3, <5>1, SMTT(30)
        <4>6. owner[group[cstack[r][i]]] = cstack[r][i]
          BY <1>1, <4>2, <4>3, <4>5 DEF Joining
        <4> QED
          BY <3>2, <4>4, <4>6
      <3> QED
        BY <3>1, <3>2
    <2> QED
      BY <2>1 DEF Joining
  <1>8. \A q \in Runner : CpAt(q, "joined") => cstack'[q] = cstack[q]
    BY <1>2, <1>6
  <1>9. GroupInv'
    BY <1>2, <1>6, <1>7, <1>8, GroupsStay
  <1> QED
    BY <1>2, <1>3, <1>4, <1>9 DEF PlacesInv

\* divide_push
LEMMA PushStep ==
  ASSUME PlacesInv, GroupInv, NEW r \in Runner, divide_push(r)
  PROVE  PlacesInv' /\ GroupInv'
  <1>1. CpTypes /\ Stacks /\ OnePlace /\ Joining
    BY DEF PlacesInv, GroupInv
  <1>2. /\ CpAt(r, "push")
        /\ UNCHANGED <<booted, free_cpu, has_job, cstack, group, owner, parent, join, started>>
    BY DEF divide_push
  <1>3. /\ jobs' \in Seq(Job) /\ probed' \in [Runner -> Job]
        /\ cp_pc' = [cp_pc EXCEPT ![r] = "give"]
        /\ OnePlace' /\ \A q \in Runner : Idle(q)' <=> cstack'[q] = <<>>
        /\ booted /\ Unfinished' = Unfinished
    BY PutsJob
  <1>4. CpTypes'
    BY <1>1, <1>2, <1>3 DEF CpTypes
  <1>5. Stacks'
    BY <1>2, <1>3 DEF Stacks
  <1>6. \A q \in Runner : (CpAt(q, "joined")' <=> CpAt(q, "joined")) /\ (CpAt(q, "join")' <=> CpAt(q, "join"))
    BY <1>1, <1>2, <1>3 DEF CpTypes, CpAt
  <1>7. Joining'
    BY <1>1, <1>2, <1>6 DEF Joining
  <1>8. GroupInv'
    BY <1>2, <1>3, <1>6, <1>7, GroupsStay
  <1> QED
    BY <1>3, <1>4, <1>5, <1>8 DEF PlacesInv

\* job_done: the job below was joining.
LEMMA DropStep ==
  ASSUME PlacesInv, GroupInv, NEW r \in Runner, job_done(r)
  PROVE  PlacesInv' /\ GroupInv'
  <1>1. CpTypes /\ Stacks /\ OnePlace /\ Joining
    BY DEF PlacesInv, GroupInv
  <1>2. /\ CpAt(r, "done")
        /\ UNCHANGED <<booted, free_cpu, has_job, jobs, probed, group, owner, parent, join, started>>
    BY DEF job_done
  <1>3. /\ cstack' \in [Runner -> Seq(Job)]
        /\ cp_pc' = [cp_pc EXCEPT ![r] = IF Len(cstack[r]) > 1 THEN "join" ELSE "free"]
        /\ OnePlace' /\ \A q \in Runner : Idle(q)' <=> cstack'[q] = <<>>
        /\ booted /\ Unfinished' = Unfinished
        /\ \A q \in Runner \ {r} : cstack'[q] = cstack[q]
        /\ Len(cstack[r]) \in Nat \ {0} /\ Len(cstack'[r]) = Len(cstack[r]) - 1
        /\ \A i \in 1..(Len(cstack[r]) - 1) : cstack'[r][i] = cstack[r][i]
    BY DropsJob
  <1>4. CpTypes'
    BY <1>1, <1>2, <1>3 DEF CpTypes
  <1>5. Stacks'
    BY <1>2, <1>3 DEF Stacks
  <1>6. \A q \in Runner : /\ CpAt(q, "joined")' <=> CpAt(q, "joined")
                          /\ CpAt(q, "joined") => q # r
                          /\ q # r => (CpAt(q, "join")' <=> CpAt(q, "join"))
    BY <1>1, <1>2, <1>3 DEF CpTypes, CpAt
  <1>7. Joining'
    <2>1. ASSUME NEW q \in Runner, NEW i \in 1..Len(cstack'[q]),
                 i < Len(cstack'[q]) \/ CpAt(q, "join")' \/ CpAt(q, "joined")'
          PROVE  owner[group[cstack'[q][i]]] = cstack'[q][i]
      <3>1. CASE q # r
        <4>1. cstack'[q] = cstack[q]
          BY <1>3, <3>1
        <4> QED
          BY <1>1, <1>6, <2>1, <3>1, <4>1 DEF Joining
      <3>2. CASE q = r
        <4>1. PICK m : m = Len(cstack[r])
          OBVIOUS
        <4>2. m \in Nat \ {0} /\ i \in 1..(m - 1)
          BY <1>3, <3>2, <4>1
        <4>3. i \in 1..m /\ i < m
          BY <4>2, SMTT(30)
        <4>4. cstack'[r][i] = cstack[r][i]
          BY <1>3, <4>1, <4>2
        <4>5. owner[group[cstack[r][i]]] = cstack[r][i]
          BY <1>1, <4>1, <4>3 DEF Joining
        <4> QED
          BY <3>2, <4>4, <4>5
      <3> QED
        BY <3>1, <3>2
    <2> QED
      BY <1>2, <2>1 DEF Joining
  <1>8. \A q \in Runner : CpAt(q, "joined") => cstack'[q] = cstack[q]
    BY <1>3, <1>6
  <1>9. GroupInv'
    BY <1>2, <1>3, <1>6, <1>7, <1>8, GroupsStay
  <1> QED
    BY <1>3, <1>4, <1>5, <1>9 DEF PlacesInv

\* The steps that change a group.
LEMMA GroupStep ==
  ASSUME PlacesInv, GroupInv, NEW r \in Runner, free_cpu' \in Nat,
         capsule_probe(r) \/ capsule_group_split(r) \/ join_take(r) \/ join_done(r) \/ job_end(r)
  PROVE  PlacesInv' /\ GroupInv'
  <1>1. CpTypes /\ Stacks /\ OnePlace
    BY DEF PlacesInv
  <1>2. CpAt(r, "run") \/ CpAt(r, "join") \/ CpAt(r, "joined")
    BY DEF capsule_probe, capsule_group_split, join_take, join_done, job_end
  <1>3. ~Idle(r) /\ cstack[r] # <<>> /\ booted
    BY <1>1, <1>2 DEF Stacks, Idle, CpAt
  <1>4. ASSUME OnePlace', CpTypes', \A q \in Runner : Idle(q)' <=> cstack'[q] = <<>>, booted' = booted, GroupInv'
        PROVE  PlacesInv' /\ GroupInv'
    BY <1>3, <1>4 DEF PlacesInv, Stacks
  <1>5. CASE capsule_probe(r)
    <2>1. GroupInv' /\ join' \in [Group -> Int] /\ group' \in [Job -> Group]
      BY <1>5, ProbeGroups
    <2>2. /\ probed' \in [Runner -> Job] /\ started' \in Job
          /\ cp_pc' = [cp_pc EXCEPT ![r] = "push"]
          /\ OnePlace' /\ \A q \in Runner : Idle(q)' <=> cstack'[q] = <<>>
      BY <1>5, MakesJob
    <2>3. UNCHANGED <<booted, has_job, jobs, cstack, owner, parent>>
      BY <1>5 DEF capsule_probe
    <2>4. CpTypes'
      BY <1>1, <2>1, <2>2, <2>3 DEF CpTypes
    <2> QED
      BY <1>4, <2>1, <2>2, <2>3, <2>4
  <1>6. CASE capsule_group_split(r)
    <2>1. /\ GroupInv' /\ join' \in [Group -> Int] /\ group' \in [Job -> Group]
          /\ owner' \in [Group -> Job \cup {-1}] /\ parent' \in [Group -> Group]
      BY <1>6, SplitGroups
    <2>2. UNCHANGED <<booted, free_cpu, has_job, jobs, cp_pc, cstack, probed, started>>
      BY <1>6 DEF capsule_group_split
    <2>3. CpTypes'
      BY <1>1, <2>1, <2>2 DEF CpTypes
    <2>4. OnePlace' /\ \A q \in Runner : Idle(q)' <=> cstack'[q] = <<>>
      BY <1>1, <2>2, SMTT(30) DEF OnePlace, Stacks, Idle, CpAt
    <2> QED
      BY <1>4, <2>1, <2>2, <2>3, <2>4
  <1>7. CASE join_take(r) \/ job_end(r)
    <2>1. GroupInv' /\ join' \in [Group -> Int]
      BY <1>7, TakeGroups, EndGroups
    <2>2. UNCHANGED <<booted, free_cpu, has_job, jobs, cstack, probed, group, owner, parent, started>>
      BY <1>7 DEF join_take, job_end
    <2>3. PICK b \in {"joined", "done"} : cp_pc' = [cp_pc EXCEPT ![r] = b]
      BY <1>7 DEF join_take, job_end, CpGoto
    <2>4. OnePlace' /\ \A q \in Runner : Idle(q)' <=> cstack'[q] = <<>>
      BY <1>3, <2>2, <2>3, GoesOn
    <2>5. CpTypes'
      BY <1>1, <2>1, <2>2, <2>3 DEF CpTypes
    <2> QED
      BY <1>4, <2>1, <2>2, <2>4, <2>5
  <1>8. CASE join_done(r)
    <2>1. /\ GroupInv' /\ join' \in [Group -> Int] /\ group' \in [Job -> Group]
          /\ owner' \in [Group -> Job \cup {-1}] /\ parent' \in [Group -> Group]
      BY <1>8, DoneGroups
    <2>2. UNCHANGED <<booted, free_cpu, has_job, jobs, cstack, probed, started>>
      BY <1>8 DEF join_done
    <2>3. cp_pc' = [cp_pc EXCEPT ![r] = "run"]
      BY <1>8 DEF join_done, CpGoto
    <2>4. OnePlace' /\ \A q \in Runner : Idle(q)' <=> cstack'[q] = <<>>
      BY <1>3, <2>2, <2>3, GoesOn
    <2>5. CpTypes'
      BY <1>1, <2>1, <2>2, <2>3 DEF CpTypes
    <2> QED
      BY <1>4, <2>1, <2>2, <2>4, <2>5
  <1> QED
    BY <1>5, <1>6, <1>7, <1>8

\* The first state.
LEMMA CapStart ==
  ASSUME CpInit
  PROVE  CapIInv
  <1>1. 0 \in Job /\ 0 \in Group /\ MaxJob \in Nat
    BY CapsuleAssumption, SMTT(30) DEF Job, Group
  <1>2. /\ booted = FALSE /\ free_cpu = 0 /\ has_job = 0 /\ jobs = <<>> /\ started = 0
        /\ cp_pc = [r \in Runner |-> "boot"] /\ cstack = [r \in Runner |-> <<>>]
        /\ probed = [r \in Runner |-> 0] /\ group = [j \in Job |-> 0]
        /\ owner = [g \in Group |-> IF g = 0 THEN 0 ELSE -1] /\ parent = [g \in Group |-> 0]
        /\ join = [g \in Group |-> IF g = 0 THEN 1 ELSE 0]
    BY DEF CpInit, Job
  <1>3. \A r \in Runner : cp_pc[r] = "boot" /\ cstack[r] = <<>> /\ Len(cstack[r]) = 0
    BY <1>2
  <1>4. CpTypes
    <2>1. <<>> \in Seq(Job)
      BY SMTT(30)
    <2>2. cstack \in [Runner -> Seq(Job)] /\ jobs \in Seq(Job)
      BY <1>2, <2>1
    <2>3. /\ probed \in [Runner -> Job] /\ group \in [Job -> Group] /\ parent \in [Group -> Group]
          /\ owner \in [Group -> Job \cup {-1}] /\ join \in [Group -> Int]
      BY <1>1, <1>2, SMTT(30)
    <2> QED
      BY <1>1, <1>2, <2>2, <2>3 DEF CpTypes
  <1>5. Stacks
    BY <1>1, <1>2, <1>3 DEF Stacks, Idle, CpAt
  <1>6. OnePlace
    <2>1. Len(jobs) = 0 /\ \A r \in Runner : ~CpAt(r, "push")
      BY <1>2, <1>3 DEF CpAt
    <2> QED
      BY <1>3, <2>1, SMTT(30) DEF OnePlace
  <1>7. Unfinished = {}
    <2>1. 1..Len(jobs) = {} /\ \A q \in Runner : 1..Len(cstack[q]) = {} /\ ~CpAt(q, "push")
      BY <1>2, <1>3, SMTT(30) DEF CpAt
    <2> QED
      BY <1>4, <2>1, UnfinishedIs
  <1>8. \A g : Members(g) = {} /\ Cardinality(Members(g)) = 0 /\ ~JoinedOn(g)
    <2>1. \A g : Members(g) = {}
      BY <1>7 DEF Members
    <2> QED
      BY <1>3, <2>1, FS_EmptySet DEF JoinedOn, CpAt
  <1>9. Owners /\ Joining /\ Chains
    BY <1>1, <1>2, <1>3, <1>7, SMTT(30) DEF Owners, Joining, Chains
  <1>10. JoinCounts
    <2>1. \A g \in Group : owner[g] = -1 => join[g] = 0
      BY <1>2, SMTT(30)
    <2>2. \A g \in Group : owner[g] # -1 => join[g] = 1
      BY <1>2
    <2> QED
      BY <1>3, <1>8, <2>1, <2>2, SMTT(30) DEF JoinCounts, CpAt
  <1>11. Promised
    <2>1. Waits = {} /\ Gives = {}
      BY <1>3 DEF Waits, Gives, CpAt
    <2> QED
      BY <1>2, <2>1, FS_EmptySet, SMTT(30) DEF Promised
  <1> QED
    BY <1>4, <1>5, <1>6, <1>9, <1>10, <1>11 DEF CapIInv, PlacesInv, GroupInv

\* The invariant is inductive.
LEMMA CapInductive ==
  ASSUME CapIInv, [CpNext]_cpVars
  PROVE  CapIInv'
  <1>1. PlacesInv /\ GroupInv /\ Promised /\ CpTypes /\ Stacks
    BY DEF CapIInv, PlacesInv
  <1>2. CASE UNCHANGED cpVars
    <2>1. /\ booted' = booted /\ free_cpu' = free_cpu /\ has_job' = has_job /\ jobs' = jobs /\ cp_pc' = cp_pc
          /\ cstack' = cstack /\ probed' = probed /\ group' = group /\ owner' = owner /\ parent' = parent
          /\ join' = join /\ started' = started
      BY <1>2 DEF cpVars
    <2>2. \A r, a : CpAt(r, a)' <=> CpAt(r, a)
      BY <2>1 DEF CpAt
    <2>3. CpTypes' /\ Stacks' /\ OnePlace'
      BY <1>1, <2>1, <2>2, SMTT(30) DEF PlacesInv, CpTypes, Stacks, OnePlace, Idle
    <2>4. Unfinished' = Unfinished
      BY <2>1, <2>2, SameJobs
    <2>5. Joining'
      BY <1>1, <2>1, <2>2 DEF GroupInv, Joining
    <2>6. GroupInv'
      BY <1>1, <2>1, <2>2, <2>4, <2>5, GroupsStay
    <2>7. Promised'
      BY <1>1, <2>1, <2>2 DEF Promised, Waits, Gives
    <2> QED
      BY <2>3, <2>6, <2>7 DEF CapIInv, PlacesInv
  <1>3. CASE CpNext
    <2>1. Promised' /\ free_cpu' \in Nat /\ has_job' \in Nat
      BY <1>1, <1>3, PromisedStep
    <2>2. CASE app_start
      <3>1. /\ booted' = TRUE /\ UNCHANGED <<cp_pc, cstack, probed, group, owner, parent, join, started>>
        BY <2>2 DEF app_start
      <3>2. jobs' \in Seq(Job) /\ OnePlace' /\ \A q \in Runner : Idle(q)' <=> cstack'[q] = <<>>
        BY <1>1, <2>2, StartsMain
      <3>3. CpTypes'
        BY <1>1, <2>1, <3>1, <3>2 DEF CpTypes
      <3>4. Stacks'
        BY <3>1, <3>2 DEF Stacks
      <3> QED
        BY <1>1, <2>1, <2>2, <3>2, <3>3, <3>4, StartGroups DEF CapIInv, PlacesInv
    <2>3. ASSUME NEW r \in Runner, runner_free(r) \/ runner_take(r) \/ divide_give(r) \/ capsule_group_join(r) \/ main_end(r)
          PROVE  PlacesInv' /\ GroupInv'
      <3>1. UNCHANGED <<booted, jobs, cstack, probed, group, owner, parent, join, started>>
        BY <2>3 DEF runner_free, runner_take, divide_give, capsule_group_join, main_end
      <3>2. cstack[r] = <<>> <=> cp_pc[r] \in {"boot", "wait", "pop", "free"}
        BY <1>1 DEF Stacks, Idle
      <3>3. ~booted => cp_pc[r] \in {"boot", "wait"} /\ has_job = 0
        BY <1>1 DEF Stacks, CpAt
      <3>4. CASE runner_free(r)
        <4>1. cp_pc[r] \in {"boot", "free"} /\ cp_pc' = [cp_pc EXCEPT ![r] = "wait"] /\ has_job' = has_job
          BY <3>4 DEF runner_free, CpAt, CpGoto
        <4> QED
          BY <1>1, <2>1, <3>1, <3>2, <3>3, <4>1, QuietStep
      <3>5. CASE runner_take(r)
        <4>1. cp_pc[r] = "wait" /\ cp_pc' = [cp_pc EXCEPT ![r] = "pop"] /\ has_job > 0
          BY <3>5 DEF runner_take, CpAt, CpGoto
        <4>2. booted
          BY <3>3, <4>1, SMTT(30)
        <4> QED
          BY <1>1, <2>1, <3>1, <3>2, <4>1, <4>2, QuietStep
      <3>6. CASE divide_give(r)
        <4>1. cp_pc[r] = "give" /\ cp_pc' = [cp_pc EXCEPT ![r] = "run"]
          BY <3>6 DEF divide_give, CpAt, CpGoto
        <4> QED
          BY <1>1, <2>1, <3>1, <3>2, <3>3, <4>1, QuietStep
      <3>7. CASE capsule_group_join(r)
        <4>1. cp_pc[r] = "run" /\ cp_pc' = [cp_pc EXCEPT ![r] = "join"] /\ owner[group[cur_job(r)]] = cur_job(r)
          BY <3>7 DEF capsule_group_join, CpAt, CpGoto
        <4> QED
          BY <1>1, <2>1, <3>1, <3>2, <3>3, <4>1, QuietStep
      <3>8. CASE main_end(r)
        <4>1. cp_pc[r] = "run" /\ cp_pc' = [cp_pc EXCEPT ![r] = "end"]
          BY <3>8 DEF main_end, CpAt, CpGoto
        <4> QED
          BY <1>1, <2>1, <3>1, <3>2, <3>3, <4>1, QuietStep
      <3> QED
        BY <2>3, <3>4, <3>5, <3>6, <3>7, <3>8
    <2>4. ASSUME NEW r \in Runner, runner_pop(r)
          PROVE  PlacesInv' /\ GroupInv'
      <3>1. CpAt(r, "pop") /\ UNCHANGED <<booted, free_cpu, has_job, probed, group, owner, parent, join, started>>
        BY <2>4 DEF runner_pop
      <3>2. CASE jobs = <<>>
        <4>1. cp_pc[r] = "pop" /\ cp_pc' = [cp_pc EXCEPT ![r] = "free"] /\ jobs' = jobs /\ cstack' = cstack
          BY <2>4, <3>2 DEF runner_pop, CpGoto, CpAt
        <4>2. cstack[r] = <<>> /\ booted
          BY <1>1, <4>1 DEF Stacks, Idle, CpAt
        <4> QED
          BY <1>1, <2>1, <3>1, <4>1, <4>2, QuietStep
      <3>3. CASE jobs # <<>>
        <4>1. RunJob(r)
          BY <2>4, <3>3 DEF runner_pop
        <4> QED
          BY <1>1, <3>1, <3>3, <4>1, RunStep
      <3> QED
        BY <3>2, <3>3
    <2>5. ASSUME NEW r \in Runner, join_steal(r)
          PROVE  PlacesInv' /\ GroupInv'
      <3>1. /\ CpAt(r, "join") /\ jobs # <<>> /\ RunJob(r)
            /\ UNCHANGED <<booted, free_cpu, has_job, probed, group, owner, parent, join, started>>
        BY <2>5 DEF join_steal
      <3> QED
        BY <1>1, <3>1, RunStep
    <2>6. ASSUME NEW r \in Runner, divide_push(r) \/ job_done(r)
          PROVE  PlacesInv' /\ GroupInv'
      BY <1>1, <2>6, PushStep, DropStep
    <2>7. ASSUME NEW r \in Runner, capsule_probe(r) \/ capsule_group_split(r) \/ join_take(r) \/ join_done(r) \/ job_end(r)
          PROVE  PlacesInv' /\ GroupInv'
      BY <1>1, <2>1, <2>7, GroupStep
    <2>8. PlacesInv' /\ GroupInv'
      BY <1>3, <2>2, <2>3, <2>4, <2>5, <2>6, <2>7 DEF CpNext, Work, CapIInv
    <2> QED
      BY <2>1, <2>8 DEF CapIInv
  <1> QED
    BY <1>2, <1>3

\* The invariant gives what the run checks.
LEMMA CapEnough ==
  ASSUME CapIInv
  PROVE  CapsuleInv
  <1>1. PlacesInv /\ GroupInv /\ Promised /\ CpTypes /\ Joining /\ JoinCounts
    BY DEF CapIInv, PlacesInv, GroupInv
  <1>2. PICK W, G, B, A : W = Waits /\ G = Gives /\ B = {r \in Runner : ~CpAt(r, "boot")}
                          /\ A = {r \in Runner : ~CpAt(r, "boot") /\ ~CpAt(r, "wait")}
    OBVIOUS
  <1>3. W \subseteq Runner /\ G \subseteq Runner /\ A \subseteq Runner /\ B = W \cup A /\ W \cap A = {}
    BY <1>2 DEF Waits, Gives, CpAt
  <1>4. /\ IsFiniteSet(W) /\ IsFiniteSet(A) /\ Cardinality(W) \in Nat /\ Cardinality(A) \in Nat
        /\ Cardinality(G) \in Nat /\ Cardinality(W) <= Cardinality(Runner) /\ Cardinality(Runner) \in Nat
    BY <1>3, Runners
  <1>5. free_cpu \in Nat /\ has_job \in Nat /\ Cardinality(W) = free_cpu + has_job + Cardinality(G)
    BY <1>1, <1>2 DEF CpTypes, Promised
  <1>6. free_cpu \in 0..Cardinality(Runner) /\ has_job \in 0..Cardinality(Runner)
    BY <1>4, <1>5, SMTT(30)
  <1>7. Cardinality(B) = Cardinality(W) + Cardinality(A)
    <2>1. Cardinality(W \cup A) = Cardinality(W) + Cardinality(A) - Cardinality(W \cap A)
      BY <1>4, FS_Union
    <2>2. Cardinality(W \cap A) = 0
      BY <1>3, FS_EmptySet
    <2> QED
      BY <1>3, <1>4, <2>1, <2>2, SMTT(30)
  <1>8. ProcessorsCounted
    <2>1. Cardinality(B) = free_cpu + has_job + Cardinality(G) + Cardinality(A)
      BY <1>4, <1>5, <1>7
    <2> QED
      BY <1>2, <2>1 DEF ProcessorsCounted, Gives
  <1>9. ASSUME NEW g \in Group
        PROVE  join[g] \in (-MaxJob)..1
    <2>1. PICK n : n = Cardinality(Members(g))
      OBVIOUS
    <2>2. n \in Nat /\ n <= MaxJob + 1 /\ MaxJob \in Nat
      BY <1>1, <2>1, UnfinishedJobs, CapsuleAssumption
    <2>3. CASE owner[g] = -1
      BY <1>1, <2>2, <2>3, SMTT(30) DEF JoinCounts
    <2>4. CASE owner[g] # -1 /\ ~JoinedOn(g)
      <3>1. join[g] = 1 - n
        BY <1>1, <2>1, <2>4 DEF JoinCounts
      <3> QED
        BY <2>2, <3>1, SMTT(30)
    <2>5. CASE owner[g] # -1 /\ JoinedOn(g)
      <3>1. Members(g) = {}
        BY <1>1, <2>5 DEF JoinCounts, JoinedOn
      <3>2. n = 0 /\ join[g] = 0 - n
        BY <1>1, <2>1, <2>5, <3>1, FS_EmptySet DEF JoinCounts
      <3> QED
        BY <2>2, <3>2, SMTT(30)
    <2> QED
      BY <2>3, <2>4, <2>5
  <1>10. CpTypeOK
    <2>1. join \in [Group -> (-MaxJob)..1]
      BY <1>1, <1>9 DEF CpTypes
    <2> QED
      BY <1>1, <1>6, <2>1 DEF CpTypeOK, CpTypes, Job
  <1>11. JoinWaits
    <2>1. ASSUME NEW r \in Runner, CpAt(r, "joined")
          PROVE  /\ join[group[cur_job(r)]] = 0
                 /\ \A j \in Unfinished \ {cur_job(r)} : group[j] # group[cur_job(r)]
      <3>1. PICK g : g = group[cur_job(r)]
        OBVIOUS
      <3>2. ~Idle(r)
        BY <2>1 DEF Idle, CpAt
      <3>3. g \in Group /\ owner[g] = cur_job(r) /\ cur_job(r) \in Job
        BY <1>1, <2>1, <3>1, <3>2, Current DEF Joining
      <3>4. JoinedOn(g) /\ Members(g) = {}
        BY <1>1, <2>1, <3>1 DEF JoinedOn, JoinCounts
      <3>5. owner[g] # -1
        BY <3>3, CapsuleAssumption, SMTT(30) DEF Job
      <3>6. join[g] = 0
        <4>1. join[g] = 0 - Cardinality(Members(g))
          BY <1>1, <3>3, <3>4, <3>5 DEF JoinCounts
        <4> QED
          BY <3>4, <4>1, FS_EmptySet, SMTT(30)
      <3>7. \A j \in Unfinished : j # cur_job(r) => group[j] # g
        BY <3>3, <3>4 DEF Members, InChain
      <3> QED
        BY <3>1, <3>6, <3>7
    <2> QED
      BY <2>1 DEF JoinWaits
  <1> QED
    BY <1>8, <1>10, <1>11 DEF CapsuleInv

\* For every number of processors, jobs and groups: a join waits for all the
\* jobs of its group, whoever runs them, and every processor is free, promised,
\* told of a job or at work (capsule.c:150-397).
THEOREM CapsuleSafe == CpSpec => []CapsuleInv
  <1>1. CpInit => CapIInv
    BY CapStart
  <1>2. CapIInv /\ [CpNext]_cpVars => CapIInv'
    BY CapInductive
  <1>3. CapIInv => CapsuleInv
    BY CapEnough
  <1> QED
    BY <1>1, <1>2, <1>3, PTL DEF CpSpec
=============================================================================
