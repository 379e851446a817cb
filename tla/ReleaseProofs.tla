---------------------------- MODULE ReleaseProofs ----------------------------
(***************************************************************************)
(* The release for any manifest and any cluster: what a run of the          *)
(* installer leaves behind, that a launched rank is alone on its Spark, and *)
(* what a pass of the mixed-request check means.                           *)
(*                                                                         *)
(* OutcomeIsTrue is about runs that are over.  While one is checking, every *)
(* entry it has passed is the release's or may be replaced, and is pending  *)
(* unless it is the release's; while it is copying, that holds of all but   *)
(* the file under its hands.  RankAlone is about containers: that a Spark   *)
(* is the rank's own, and free of earlier programs, is found out by a       *)
(* launcher and has to be kept until its container starts.                  *)
(***************************************************************************)
EXTENDS InstallOverlays, Launch, MixedCheck, FiniteSetTheorems, TLAPS

N == Len(Entries)

Sound(e) == disk[e] = "release" \/ Replaceable(e)

IsPending(e) == \E k \in 1 .. Len(pending) : pending[k] = e

InstallTypes ==
    /\ disk \in [Entry -> Contents] /\ before \in [Entry -> Contents]
    /\ pending \in Seq(Entry)
    /\ next \in 0 .. N
    /\ phase \in {"idle", "check", "copy", "done", "rejected", "killed"}

\* Nothing is copied before the last entry was checked; what was passed is sound, and
\* what is not the release's is pending.
WhileChecking ==
    phase = "check" =>
        /\ next < N => disk = before
        /\ \A k \in 1 .. next : Sound(Entries[k])
        /\ \A k \in 1 .. next : disk[Entries[k]] = "release" \/ IsPending(Entries[k])

WhileCopying ==
    phase = "copy" =>
        /\ next = N /\ pending # <<>> /\ disk[Head(pending)] = "torn"
        /\ \A e \in Entry \ {Head(pending)} : Sound(e) /\ (disk[e] = "release" \/ IsPending(e))

InstallInv == InstallTypes /\ WhileChecking /\ WhileCopying /\ OutcomeIsTrue

-----------------------------------------------------------------------------
LEMMA EntryIndex ==
    /\ N \in Nat
    /\ \A k \in 1 .. N : Entries[k] \in Entry
    /\ \A e \in Entry : \E k \in 1 .. N : Entries[k] = e
<1>1. Entries \in Seq(Entry)  BY InstallAssumption DEF Entry
<1>2. DOMAIN Entries = 1 .. Len(Entries) /\ Len(Entries) \in Nat  BY <1>1
<1> QED  BY <1>2 DEF N, Entry, Range

LEMMA InstallInit ==
    ASSUME Init
    PROVE  InstallInv
<1>1. <<>> \in Seq(Entry)  OBVIOUS
<1>2. InstallTypes  BY <1>1, EntryIndex DEF Init, InstallTypes, Contents
<1> QED  BY <1>2 DEF Init, InstallInv, WhileChecking, WhileCopying, OutcomeIsTrue

LEMMA CheckEntryKeeps ==
    ASSUME InstallInv, CheckEntry
    PROVE  InstallInv'
<1>1. PICK e \in Entry : /\ Checking(e) /\ (Installed(e) \/ Replaceable(e))
                         /\ pending' = IF Installed(e) THEN pending ELSE Append(pending, e)
                         /\ next' = next + 1
                         /\ UNCHANGED <<source, disk, phase, before, runs>>
  BY DEF CheckEntry
<1>2. /\ phase = "check" /\ next < N /\ e = Entries[next + 1] /\ next \in Nat /\ N \in Nat
      /\ pending \in Seq(Entry)
  BY <1>1, EntryIndex DEF Checking, N, InstallInv, InstallTypes
<1>3. pending' \in Seq(Entry)  BY <1>1, <1>2
<1>4. \A d \in Entry : IsPending(d) => IsPending(d)'
  <2> SUFFICES ASSUME NEW d \in Entry, NEW k \in 1 .. Len(pending), pending[k] = d
               PROVE  \E j \in 1 .. Len(pending') : pending'[j] = d
    BY DEF IsPending
  <2>1. k \in 1 .. Len(pending') /\ pending'[k] = pending[k]  BY <1>1, <1>2
  <2> QED  BY <2>1
<1>5. disk[e] = "release" \/ IsPending(e)'
  <2>1. CASE ~Installed(e)
    <3>1. pending' = Append(pending, e)  BY <1>1, <2>1
    <3>2. Len(pending') \in 1 .. Len(pending') /\ pending'[Len(pending')] = e
      BY <1>2, <3>1
    <3> QED  BY <3>2 DEF IsPending
  <2> QED  BY <2>1 DEF Installed
<1>6. InstallTypes'  BY <1>1, <1>2, <1>3 DEF InstallInv, InstallTypes
<1>7. WhileChecking'
  <2>1. next < N /\ disk = before  BY <1>2 DEF InstallInv, WhileChecking
  <2>2. \A k \in 1 .. next' : Sound(Entries[k])' /\ (disk'[Entries[k]] = "release" \/ IsPending(Entries[k])')
    <3> TAKE k \in 1 .. next'
    <3>1. CASE k = next + 1
      BY <3>1, <1>1, <1>2, <1>5 DEF Sound, Installed, Replaceable
    <3>2. CASE k # next + 1
      <4>1. k \in 1 .. next /\ Entries[k] \in Entry  BY <3>2, <1>1, <1>2, EntryIndex
      <4>2. Sound(Entries[k]) /\ (disk[Entries[k]] = "release" \/ IsPending(Entries[k]))
        BY <4>1, <1>2 DEF InstallInv, WhileChecking
      <4> QED  BY <4>1, <4>2, <1>1, <1>4 DEF Sound, Replaceable
    <3> QED  BY <3>1, <3>2
  <2> QED  BY <2>1, <2>2, <1>1 DEF WhileChecking
<1> QED  BY <1>1, <1>2, <1>6, <1>7 DEF InstallInv, WhileCopying, OutcomeIsTrue

LEMMA OpenTargetKeeps ==
    ASSUME InstallInv, OpenTarget
    PROVE  InstallInv'
<1>1. /\ phase = "check" /\ next = N /\ pending # <<>>
      /\ disk' = [disk EXCEPT ![Head(pending)] = "torn"]
      /\ phase' = "copy" /\ UNCHANGED <<source, pending, next, before, runs>>
  BY DEF OpenTarget, MayCopy, N
<1>2. Head(pending) \in Entry  BY <1>1 DEF InstallInv, InstallTypes
<1>3. InstallTypes'  BY <1>1, <1>2 DEF InstallInv, InstallTypes, Contents
<1>4. disk'[Head(pending)] = "torn" /\ \A e \in Entry \ {Head(pending)} : disk'[e] = disk[e]
  BY <1>1, <1>2 DEF InstallInv, InstallTypes
<1>5. \A e \in Entry : Sound(e) /\ (disk[e] = "release" \/ IsPending(e))
  BY <1>1, EntryIndex DEF InstallInv, WhileChecking
<1>6. WhileCopying'
  BY <1>1, <1>4, <1>5 DEF WhileCopying, Sound, Replaceable, IsPending
<1> QED  BY <1>1, <1>3, <1>6 DEF InstallInv, WhileChecking, OutcomeIsTrue

LEMMA CopyBytesKeeps ==
    ASSUME InstallInv, CopyBytes
    PROVE  InstallInv'
<1> DEFINE h == Head(pending)
<1>1. /\ phase = "copy" /\ next = N /\ pending # <<>> /\ phase' = "check"
      /\ disk' = [disk EXCEPT ![h] = "release"]
      /\ pending' = Tail(pending) /\ UNCHANGED <<source, next, before, runs>>
  BY DEF CopyBytes, Remaining, InstallInv, WhileCopying
<1>2. h \in Entry /\ pending \in Seq(Entry)  BY <1>1 DEF InstallInv, InstallTypes
<1>3. pending' \in Seq(Entry)  BY <1>1, <1>2
<1>4. InstallTypes'  BY <1>1, <1>2, <1>3 DEF InstallInv, InstallTypes, Contents
<1>5. disk'[h] = "release" /\ \A e \in Entry \ {h} : disk'[e] = disk[e]
  BY <1>1, <1>2 DEF InstallInv, InstallTypes
<1>6. \A e \in Entry \ {h} : IsPending(e) => IsPending(e)'
  <2> SUFFICES ASSUME NEW e \in Entry \ {h}, NEW k \in 1 .. Len(pending), pending[k] = e
               PROVE  \E j \in 1 .. Len(pending') : pending'[j] = e
    BY DEF IsPending
  <2>1. k # 1  BY <1>2
  <2>2. k - 1 \in 1 .. Len(pending') /\ pending'[k - 1] = pending[k]  BY <1>1, <1>2, <2>1
  <2> QED  BY <2>2
<1>7. \A e \in Entry : Sound(e)' /\ (disk'[e] = "release" \/ IsPending(e)')
  <2> TAKE e \in Entry
  <2>1. CASE e = h  BY <2>1, <1>5 DEF Sound
  <2>2. CASE e # h
    <3>1. Sound(e) /\ (disk[e] = "release" \/ IsPending(e))
      BY <1>1, <2>2 DEF InstallInv, WhileCopying
    <3> QED  BY <2>2, <3>1, <1>5, <1>6 DEF Sound, Replaceable
  <2> QED  BY <2>1, <2>2
<1>8. WhileChecking'
  <2>1. next' = N /\ ~(next' < N)  BY <1>1, EntryIndex
  <2> QED  BY <1>1, <1>7, <2>1, EntryIndex DEF WhileChecking
<1> QED  BY <1>1, <1>4, <1>8 DEF InstallInv, WhileCopying, OutcomeIsTrue

\* The steps that end a run: what they claim was true while it ran.
LEMMA EndingKeeps ==
    ASSUME InstallInv, Reject \/ Finish \/ Interrupt
    PROVE  InstallInv'
<1>0. UNCHANGED <<source, disk, pending, next, before, runs>>
  BY DEF Reject, Finish, Interrupt
<1>1. InstallTypes'
  BY <1>0 DEF InstallInv, InstallTypes, Reject, Finish, Interrupt
<1>2. phase' \in {"rejected", "done", "killed"}  BY DEF Reject, Finish, Interrupt
<1>3. CASE Reject
  <2>1. phase = "check" /\ next < N /\ phase' = "rejected"
    BY <1>3 DEF Reject, Checking, N
  <2>2. disk = before  BY <2>1 DEF InstallInv, WhileChecking
  <2> QED  BY <2>1, <2>2, <1>0, <1>1 DEF InstallInv, WhileChecking, WhileCopying, OutcomeIsTrue
<1>4. CASE Finish
  <2>1. phase = "check" /\ next = N /\ pending = <<>> /\ phase' = "done"
    BY <1>4 DEF Finish, N
  <2>2. \A e \in Entry : ~IsPending(e)  BY <2>1 DEF IsPending
  <2>3. \A e \in Entry : disk[e] = "release"
    BY <2>1, <2>2, EntryIndex DEF InstallInv, WhileChecking
  <2> QED  BY <2>1, <2>3, <1>0, <1>1 DEF InstallInv, WhileChecking, WhileCopying, OutcomeIsTrue
<1>5. CASE Interrupt
  <2>1. phase \in {"check", "copy"} /\ phase' = "killed"  BY <1>5 DEF Interrupt
  <2>2. CASE phase = "check"
    <3>1. next = N => \A e \in Entry : Sound(e)
      BY <2>2, EntryIndex DEF InstallInv, WhileChecking
    <3> QED  BY <2>1, <3>1, <1>0, <1>1 DEF InstallInv, WhileChecking, WhileCopying,
               OutcomeIsTrue, Sound, Installed, Replaceable, N
  <2>3. CASE phase = "copy"
    <3>1. \E e \in Entry : disk[e] = "torn"
      BY <2>3 DEF InstallInv, WhileCopying, InstallTypes
    <3> QED  BY <2>1, <3>1, <1>0, <1>1 DEF InstallInv, WhileChecking, WhileCopying, OutcomeIsTrue
  <2> QED  BY <2>1, <2>2, <2>3
<1> QED  BY <1>3, <1>4, <1>5

LEMMA StartKeeps ==
    ASSUME InstallInv, Start \/ Again
    PROVE  InstallInv'
<1>1. CASE Start
  <2>1. /\ disk' = disk \/ \E e \in Entry, c \in {"missing", "original", "foreign"} :
                             disk' = [disk EXCEPT ![e] = c]
        /\ before' = disk' /\ pending' = <<>> /\ next' = 0 /\ phase' = "check"
    BY <1>1 DEF Start
  <2>2. disk' \in [Entry -> Contents]  BY <2>1 DEF InstallInv, InstallTypes, Contents
  <2>3. <<>> \in Seq(Entry)  OBVIOUS
  <2>4. InstallTypes'  BY <2>1, <2>2, <2>3, EntryIndex DEF InstallTypes
  <2>5. WhileChecking'  BY <2>1 DEF WhileChecking
  <2> QED  BY <2>1, <2>4, <2>5 DEF InstallInv, WhileCopying, OutcomeIsTrue
<1>2. CASE Again
  BY <1>2 DEF Again, InstallInv, InstallTypes, WhileChecking, WhileCopying, OutcomeIsTrue
<1> QED  BY <1>1, <1>2

\* A run of the installer that rejects anything has changed nothing, one that says it
\* is done leaves the whole release, and one that was cut off between two copies can be
\* completed by the next: for every manifest, tree and moment of interruption.
THEOREM OutcomeIsTrueAlways == Spec => []OutcomeIsTrue
<1>1. Init => InstallInv  BY InstallInit
<1>2. InstallInv /\ [Next]_vars => InstallInv'
  <2> SUFFICES ASSUME InstallInv, [Next]_vars  PROVE InstallInv'
    OBVIOUS
  <2>1. CASE Next
    BY <2>1, CheckEntryKeeps, OpenTargetKeeps, CopyBytesKeeps, EndingKeeps, StartKeeps DEF Next
  <2>2. CASE UNCHANGED vars
    BY <2>2 DEF vars, InstallInv, InstallTypes, WhileChecking, WhileCopying, OutcomeIsTrue,
                Sound, IsPending, Installed, Replaceable
  <2> QED  BY <2>1, <2>2
<1>3. InstallInv => OutcomeIsTrue  BY DEF InstallInv
<1> QED  BY <1>1, <1>2, <1>3, PTL DEF Spec

-----------------------------------------------------------------------------
Underway == [at : {"command", "host", "preflight"}, machine : Machine, rank : Rank]

LaunchTypes ==
    /\ hosts \in HostLists
    /\ launcher \in [Operator -> Underway \cup {Idle}]
    /\ container \in [Machine -> [Rank -> {"none", "starting", "computing", "stopped"}]]
    /\ foreign \in [Machine -> {"none", "early", "late"}]

\* Rank r may be on m, and no earlier program is there.
MayRun(m, r) == ValidHosts(hosts) /\ OnItsHost(m, r) /\ foreign[m] # "early"

\* What a launch has found out so far.
Knows(l) ==
    /\ l.at \in {"command", "host"} => ValidHosts(hosts)
    /\ l.at = "host" => OnItsHost(l.machine, l.rank)
    /\ l.at = "preflight" => MayRun(l.machine, l.rank)

LaunchInv ==
    /\ LaunchTypes
    /\ \A o \in Operator : Knows(launcher[o])
    /\ \A m \in Machine, r \in Rank : container[m][r] \in Live => MayRun(m, r)

\* Eight different addresses: no two ranks share one.
LEMMA HostsDiffer ==
    ASSUME NEW h \in HostLists, ValidHosts(h)
    PROVE  /\ IsFiniteSet(Range(h))
           /\ \A i, j \in 1 .. NumRanks : h[i] = h[j] => i = j
           /\ \A i \in 1 .. NumRanks : h[i] \in Range(h)
<1>1. NumRanks \in Nat /\ h \in Seq(Range(h))  BY LaunchAssumption
<1>2. DOMAIN h = 1 .. NumRanks /\ h \in [1 .. NumRanks -> Range(h)]
  BY <1>1 DEF ValidHosts
<1>3. h \in Surjection(1 .. NumRanks, Range(h))  BY <1>2 DEF Range, Surjection
<1>4. IsFiniteSet(1 .. NumRanks) /\ Cardinality(1 .. NumRanks) = NumRanks
  BY <1>1, FS_Interval
<1>5. IsFiniteSet(Range(h)) /\ h \in Injection(1 .. NumRanks, Range(h))
  BY <1>3, <1>4, FS_Surjection DEF ValidHosts
<1> QED  BY <1>2, <1>5 DEF Injection, IsInjective

\* A machine has the address of at most one rank, and no two have the same rank's.
LEMMA OnePlace ==
    ASSUME NEW h \in HostLists, ValidHosts(h),
           NEW m \in Machine, NEW n \in Machine, NEW q \in Rank, NEW r \in Rank,
           h[q + 1] \in Address[m], h[r + 1] \in Address[n]
    PROVE  m = n <=> q = r
<1>1. NumRanks \in Nat /\ q + 1 \in 1 .. NumRanks /\ r + 1 \in 1 .. NumRanks
      /\ q \in Int /\ r \in Int
  BY LaunchAssumption DEF Rank
<1>2. CASE m # n
  <2>1. h[q + 1] # h[r + 1]  BY <1>2, LaunchAssumption
  <2> QED  BY <1>2, <2>1
<1>3. CASE m = n
  <2> DEFINE T == Range(h) \cap Address[m]
  <2>1. IsFiniteSet(Range(h)) /\ h[q + 1] \in T /\ h[r + 1] \in T
    BY <1>1, <1>3, HostsDiffer
  <2>2. IsFiniteSet(T) /\ Cardinality(T) <= 1
    BY <2>1, FS_Subset, LaunchAssumption
  <2>3. {h[q + 1], h[r + 1]} \in SUBSET T  BY <2>1
  <2>4. Cardinality({h[q + 1], h[r + 1]}) <= 1 /\ IsFiniteSet({h[q + 1], h[r + 1]})
    <3> DEFINE P == {h[q + 1], h[r + 1]}
    <3>1. IsFiniteSet(P) /\ Cardinality(P) <= Cardinality(T)  BY <2>2, <2>3, FS_Subset
    <3>2. Cardinality(P) \in Nat /\ Cardinality(T) \in Nat  BY <2>2, <3>1, FS_CardinalityType
    <3> HIDE DEF P, T
    <3>3. Cardinality(P) <= 1  BY <2>2, <3>1, <3>2
    <3> QED  BY <3>1, <3>3 DEF P
  <2>5. h[q + 1] = h[r + 1]
    <3> DEFINE P == {h[q + 1], h[r + 1]}
    <3>1. Cardinality(P) \in Nat  BY <2>4, FS_CardinalityType
    <3>2. Cardinality(P) # 0  BY <2>4, FS_EmptySet
    <3>3. Cardinality(P) = 1  BY <2>4, <3>1, <3>2
    <3>4. PICK x : P = {x}  BY <2>4, <3>3, FS_Singleton
    <3> QED  BY <3>4
  <2>6. q + 1 = r + 1  BY <1>1, <2>5, HostsDiffer
  <2> QED  BY <1>1, <1>3, <2>6
<1> QED  BY <1>2, <1>3

\* A launcher's own step: the other launches and the containers are as they were.
LEMMA LauncherKeeps ==
    ASSUME LaunchInv, NEW o \in Operator, NEW l \in Underway \cup {Idle}, Knows(l),
           launcher' = [launcher EXCEPT ![o] = l],
           UNCHANGED <<hosts, container, foreign>>
    PROVE  LaunchInv'
<1>1. LaunchTypes'  BY DEF LaunchInv, LaunchTypes
<1>2. \A p \in Operator : Knows(launcher'[p])
  BY DEF LaunchInv, LaunchTypes
<1>3. \A p \in Operator : Knows(launcher[p])'
  BY <1>2 DEF Knows, MayRun, OnItsHost
<1> QED  BY <1>1, <1>3 DEF LaunchInv, MayRun, OnItsHost

LEMMA LaunchStepKeeps ==
    ASSUME LaunchInv, NEW o \in Operator, Command(o) \/ CheckHost(o) \/ LookAtGpu(o)
    PROVE  LaunchInv'
<1> DEFINE l == launcher[o]
<1>0. Idle.at = "idle" /\ Idle \in Underway \cup {Idle}  BY DEF Idle
<1>i. Knows(Idle)  BY <1>0 DEF Knows
<1>l. l \in Underway \cup {Idle} /\ Knows(l)  BY DEF LaunchInv, LaunchTypes
<1> HIDE DEF l
<1>1. CASE Command(o)
  <2>1. PICK m \in Machine, r \in 0 .. NumRanks :
          launcher' = [launcher EXCEPT ![o] =
             IF ValidHosts(hosts) /\ r \in Rank
             THEN [at |-> "command", machine |-> m, rank |-> r] ELSE Idle]
    BY <1>1 DEF Command
  <2> DEFINE k == IF ValidHosts(hosts) /\ r \in Rank
                  THEN [at |-> "command", machine |-> m, rank |-> r] ELSE Idle
  <2>2. k \in Underway \cup {Idle} /\ Knows(k)  BY <1>0, <1>i DEF Underway, Knows
  <2> HIDE DEF k
  <2> QED  BY <1>1, <2>1, <2>2, LauncherKeeps DEF k, Command
<1>2. CASE CheckHost(o)
  <2>1. PICK ok \in BOOLEAN : launcher' = [launcher EXCEPT ![o] =
             IF ok /\ OnItsHost(l.machine, l.rank) THEN [l EXCEPT !.at = "host"] ELSE Idle]
    BY <1>2 DEF CheckHost, l
  <2> DEFINE k == IF ok /\ OnItsHost(l.machine, l.rank) THEN [l EXCEPT !.at = "host"] ELSE Idle
  <2>2. l.at = "command"  BY <1>2 DEF CheckHost, l
  <2>3. l \in Underway  BY <1>0, <1>l, <2>2
  <2>4. [l EXCEPT !.at = "host"] \in Underway /\ [l EXCEPT !.at = "host"].at = "host"
        /\ [l EXCEPT !.at = "host"].machine = l.machine /\ [l EXCEPT !.at = "host"].rank = l.rank
    BY <2>3 DEF Underway
  <2>5. k \in Underway \cup {Idle} /\ Knows(k)
    BY <1>0, <1>i, <1>l, <2>2, <2>4 DEF Knows
  <2> HIDE DEF k
  <2> QED  BY <1>2, <2>1, <2>5, LauncherKeeps DEF k, CheckHost
<1>3. CASE LookAtGpu(o)
  <2>1. launcher' = [launcher EXCEPT ![o] =
           IF Busy(l.machine) THEN Idle ELSE [l EXCEPT !.at = "preflight"]]
    BY <1>3 DEF LookAtGpu, l
  <2> DEFINE k == IF Busy(l.machine) THEN Idle ELSE [l EXCEPT !.at = "preflight"]
             s == [l EXCEPT !.at = "preflight"]
  <2>2. l.at = "host"  BY <1>3 DEF LookAtGpu, l
  <2>3. l \in Underway  BY <1>0, <1>l, <2>2
  <2>4. s \in Underway /\ s.at = "preflight" /\ s.machine = l.machine /\ s.rank = l.rank
    BY <2>3 DEF Underway
  <2>5. ~Busy(l.machine) => MayRun(s.machine, s.rank)
    BY <1>l, <2>2, <2>4 DEF Knows, MayRun, Busy
  <2>6. k \in Underway \cup {Idle} /\ Knows(k)
    BY <1>0, <1>i, <2>4, <2>5 DEF Knows
  <2> HIDE DEF k
  <2> QED  BY <1>3, <2>1, <2>6, LauncherKeeps DEF k, LookAtGpu
<1> QED  BY <1>1, <1>2, <1>3

LEMMA RunKeeps ==
    ASSUME LaunchInv, NEW o \in Operator, Run(o)
    PROVE  LaunchInv'
<1> DEFINE l == launcher[o]
<1>0. Idle.at = "idle" /\ Idle \in Underway \cup {Idle}  BY DEF Idle
<1>1. l.at = "preflight" /\ l \in Underway /\ MayRun(l.machine, l.rank)
  BY <1>0 DEF Run, LaunchInv, LaunchTypes, Knows
<1>2. l.machine \in Machine /\ l.rank \in Rank  BY <1>1 DEF Underway
<1>3. launcher' = [launcher EXCEPT ![o] = Idle] /\ UNCHANGED <<hosts, foreign>>
  BY DEF Run
<1>4. container' = container \/ container' = [container EXCEPT ![l.machine][l.rank] = "starting"]
  BY DEF Run
<1> HIDE DEF l
<1>5. LaunchTypes'
  <2>1. container' \in [Machine -> [Rank -> {"none", "starting", "computing", "stopped"}]]
    BY <1>2, <1>4 DEF LaunchInv, LaunchTypes
  <2>2. launcher' \in [Operator -> Underway \cup {Idle}]
    BY <1>0, <1>3 DEF LaunchInv, LaunchTypes
  <2> QED  BY <1>3, <2>1, <2>2 DEF LaunchInv, LaunchTypes
<1>6. \A m \in Machine, r \in Rank :
        container'[m][r] = container[m][r] \/ (m = l.machine /\ r = l.rank)
  BY <1>2, <1>4 DEF LaunchInv, LaunchTypes
<1>7. \A p \in Operator : Knows(launcher'[p])
  BY <1>0, <1>3 DEF LaunchInv, LaunchTypes, Knows
<1>8. \A p \in Operator : Knows(launcher[p])'
  BY <1>3, <1>7 DEF Knows, MayRun, OnItsHost
<1>9. \A m \in Machine, r \in Rank : container'[m][r] \in Live => MayRun(m, r)
  BY <1>1, <1>6 DEF LaunchInv
<1> QED  BY <1>3, <1>5, <1>8, <1>9 DEF LaunchInv, MayRun, OnItsHost

LEMMA OthersKeep ==
    ASSUME LaunchInv, Container \/ Foreign
    PROVE  LaunchInv'
<1>1. CASE Container
  <2>1. PICK m \in Machine, r \in Rank, s \in {"none", "computing", "stopped"} :
          /\ <<container[m][r], s>> \in
              {<<"starting", "computing">>, <<"starting", "stopped">>,
               <<"computing", "stopped">>, <<"stopped", "none">>}
          /\ container' = [container EXCEPT ![m][r] = s]
    BY <1>1 DEF Container
  <2>2. UNCHANGED <<hosts, launcher, foreign>>  BY <1>1 DEF Container
  <2>3. \A n \in Machine, q \in Rank : container'[n][q] \in Live => container[n][q] \in Live
    BY <2>1 DEF LaunchInv, LaunchTypes, Live
  <2>4. LaunchTypes'  BY <2>1, <2>2 DEF LaunchInv, LaunchTypes
  <2> QED  BY <2>2, <2>3, <2>4 DEF LaunchInv, Knows, MayRun, OnItsHost
<1>2. CASE Foreign
  <2>1. PICK m \in Machine : foreign' = [foreign EXCEPT ![m] =
             IF @ # "none" THEN "none" ELSE IF Claimed(m) THEN "late" ELSE "early"]
    BY <1>2 DEF Foreign
  <2>2. UNCHANGED <<hosts, launcher, container>>  BY <1>2 DEF Foreign
  <2>3. LaunchTypes'  BY <2>1, <2>2 DEF LaunchInv, LaunchTypes
  <2>4. \A n \in Machine : Claimed(n) /\ foreign[n] # "early" => foreign'[n] # "early"
    BY <2>1 DEF LaunchInv, LaunchTypes
  <2>5. \A n \in Machine, r \in Rank : Claimed(n) /\ MayRun(n, r) => MayRun(n, r)'
    BY <2>2, <2>4 DEF MayRun, OnItsHost
  <2>6. \A o \in Operator : Knows(launcher[o])'
    <3> TAKE o \in Operator
    <3>1. CASE launcher[o].at = "preflight"
      <4>1. launcher[o] \in Underway  BY <3>1 DEF LaunchInv, LaunchTypes, Idle
      <4>2. launcher[o].machine \in Machine /\ launcher[o].rank \in Rank
            /\ Claimed(launcher[o].machine)
        BY <3>1, <4>1 DEF Underway, Claimed
      <4> QED  BY <2>2, <2>5, <3>1, <4>2 DEF LaunchInv, Knows
    <3>2. CASE launcher[o].at # "preflight"
      BY <2>2, <3>2 DEF LaunchInv, Knows, OnItsHost
    <3> QED  BY <3>1, <3>2
  <2>7. \A n \in Machine, r \in Rank : container[n][r] \in Live => MayRun(n, r)'
    BY <2>5 DEF LaunchInv, Claimed
  <2> QED  BY <2>2, <2>3, <2>6, <2>7 DEF LaunchInv
<1> QED  BY <1>1, <1>2

LEMMA InvMeansAlone ==
    ASSUME LaunchInv
    PROVE  RankAlone
<1> SUFFICES ASSUME NEW m \in Machine, NEW r \in Rank, container[m][r] \in Live
             PROVE  /\ hosts[r + 1] \in Address[m]
                    /\ \A q \in Rank \ {r} : container[m][q] \notin Live
                    /\ \A n \in Machine \ {m} : container[n][r] \notin Live
                    /\ foreign[m] # "early"
  BY DEF RankAlone
<1>1. \A n \in Machine, q \in Rank : container[n][q] \in Live => hosts[q + 1] \in Address[n]
  BY DEF LaunchInv, MayRun, OnItsHost
<1>2. hosts \in HostLists /\ ValidHosts(hosts) /\ foreign[m] # "early"
  BY DEF LaunchInv, LaunchTypes, MayRun
<1> QED  BY <1>1, <1>2, OnePlace

\* Whatever is launched where, how often and beside what, a Spark runs at most the one
\* rank whose address it has, a rank runs on at most one Spark, and no program that was
\* there before shares its GPU: for every number of ranks, Sparks and launches.
THEOREM RankAloneAlways == LaunchSpec => []RankAlone
<1>1. LaunchInit => LaunchInv
  BY DEF LaunchInit, LaunchInv, LaunchTypes, Knows, Idle, Live
<1>2. LaunchInv /\ [LaunchNext]_launchVars => LaunchInv'
  <2> SUFFICES ASSUME LaunchInv, [LaunchNext]_launchVars  PROVE LaunchInv'
    OBVIOUS
  <2>1. CASE LaunchNext
    BY <2>1, LaunchStepKeeps, RunKeeps, OthersKeep DEF LaunchNext
  <2>2. CASE UNCHANGED launchVars
    BY <2>2 DEF launchVars, LaunchInv, LaunchTypes, Knows, MayRun, OnItsHost
  <2> QED  BY <2>1, <2>2
<1>3. LaunchInv => RankAlone  BY InvMeansAlone
<1> QED  BY <1>1, <1>2, <1>3, PTL DEF LaunchSpec

-----------------------------------------------------------------------------
(* The checker: why a request counts as ok only in time, and why a passed mixed  *)
(* stage did overlap, for any stages, deadline and trigger.                      *)
(*                                                                               *)
(* What a request's thread, its timer and the server do to it is one step of     *)
(* that request's record (Grows); what the main thread knows of the records when *)
(* it decides is in MainOK.  Neither property is inductive alone: ok is decided  *)
(* after the timer was cancelled, and the outcome of a stage is read after both  *)
(* requests are over.                                                            *)

States == {"none", "queued", "open", "reading", "closing", "ending", "stamped", "ended"}

Request ==
    [st : States, age : Nat, tokens : Nat, finish : BOOLEAN, good : BOOLEAN,
     done : BOOLEAN, doneAge : Nat, expired : BOOLEAN, shut : BOOLEAN,
     failed : BOOLEAN, ok : BOOLEAN, beside : BOOLEAN]

CheckTypes ==
    /\ req \in [Thread -> Request]
    /\ gate \in BOOLEAN
    /\ main \in {"stage", "wait", "stagger", "submit", "collect", "exit", "raised"}
    /\ waited \in Nat
    /\ results \in Seq(BOOLEAN)

\* A request up to where it is: nothing expires before the response is open, the last
\* line is read in time, an expired deadline has failed it once the timer is cancelled,
\* and it is ok only after that.
RequestOK(r) ==
    /\ r.st \in {"none", "queued", "open"} => ~r.expired /\ ~r.done
    /\ r.done => r.doneAge <= Timeout
    /\ r.st = "ending" /\ r.expired => r.failed
    /\ r.ok => r.st \in {"stamped", "ended"} /\ r.done /\ r.finish /\ ~r.expired
    /\ r.beside => r.st # "none"

\* What the main thread relies on: the gate means that the long request has streamed
\* the trigger, the short one exists only behind the gate, and between two stages both
\* are over, so that the outcome of the last one still describes them.
MainOK ==
    /\ gate => req["long"].tokens >= Trigger
    /\ main \in {"stagger", "submit"} => gate
    /\ main # "raised" /\ req["short"].st # "none" => gate
    /\ main \in {"stage", "exit"} => req["short"].st \in {"none", "ended"}
    /\ MixedPassMeansOverlap

CheckInv == CheckTypes /\ (\A q \in Thread : RequestOK(req[q])) /\ MainOK

-----------------------------------------------------------------------------
\* One step of a request's record: it is in progress, and no token is taken back.
Grows(r, s) ==
    /\ s \in Request /\ RequestOK(s)
    /\ r.st \notin {"none", "ended"} /\ s.st # "none"
    /\ s.tokens >= r.tokens

\* A step of q's request changes q's record, and opens the gate only for the long
\* request's trigger.
RequestStep(q) ==
    /\ \E s : /\ Grows(req[q], s) /\ req' = [req EXCEPT ![q] = s]
              /\ gate' \in BOOLEAN /\ (gate => gate')
              /\ gate' => gate \/ (q = "long" /\ s.tokens >= Trigger)
    /\ UNCHANGED <<main, waited, results>>

Own(q) == Client(q) \/ Server(q) \/ EndOfStream(q) \/ Expire(q)

LEMMA ThreadGrows ==
    ASSUME CheckInv, NEW q \in Thread, Client(q)
    PROVE  RequestStep(q)
<1> DEFINE r == req[q]
<1>0. r \in Request /\ RequestOK(r) /\ gate \in BOOLEAN  BY DEF CheckInv, CheckTypes
<1> HIDE DEF r
<1>s. SUFFICES ASSUME NEW s,
                    \/ r.st = "queued" /\ \E b \in BOOLEAN : s = [r EXCEPT !.st = "open", !.beside = b]
                    \/ r.st = "open" /\ s = [r EXCEPT !.st = "reading"]
                    \/ r.st = "open" /\ s = [r EXCEPT !.st = "ending", !.failed = TRUE]
                    \/ r.st = "closing"
                         /\ s = [r EXCEPT !.st = "ending", !.failed = @ \/ r.expired]
                    \/ r.st = "ending"
                         /\ s = [r EXCEPT !.st = "stamped",
                                          !.ok = ~r.failed /\ r.done /\ r.finish /\ r.good]
                    \/ r.st = "stamped" /\ s = [r EXCEPT !.st = "ended"]
             PROVE  Grows(r, s)
  <2>1. CASE Begin(q)  BY <2>1, <1>0 DEF r, RequestStep, Begin, Set
  <2>2. CASE Connect(q)  BY <2>2, <1>0 DEF r, RequestStep, Connect, Set
  <2>3. CASE Exit(q)  BY <2>3, <1>0 DEF r, RequestStep, Exit, Set, ExitFails
  <2>4. CASE Stamp(q)  BY <2>4, <1>0 DEF r, RequestStep, Stamp, Set
  <2>5. CASE Return(q)  BY <2>5, <1>0 DEF r, RequestStep, Return, Set
  <2> QED  BY <2>1, <2>2, <2>3, <2>4, <2>5 DEF Client
<1>1. /\ s \in Request /\ s.tokens = r.tokens /\ s.done = r.done /\ s.doneAge = r.doneAge
      /\ s.finish = r.finish /\ s.expired = r.expired /\ r.tokens \in Nat
      /\ r.ok \in BOOLEAN /\ r.done \in BOOLEAN
  BY <1>s, <1>0 DEF Request, States
<1>2. RequestOK(s) /\ r.st \notin {"none", "ended"} /\ s.st # "none"
  <2>1. CASE r.st = "queued"  BY <2>1, <1>s, <1>0, <1>1 DEF RequestOK, Request
  <2>2. CASE r.st = "open"  BY <2>2, <1>s, <1>0, <1>1 DEF RequestOK, Request
  <2>3. CASE r.st = "closing"  BY <2>3, <1>s, <1>0, <1>1 DEF RequestOK, Request
  <2>4. CASE r.st = "ending"  BY <2>4, <1>s, <1>0, <1>1 DEF RequestOK, Request
  <2>5. CASE r.st = "stamped"  BY <2>5, <1>s, <1>0, <1>1 DEF RequestOK, Request
  <2> QED  BY <1>s, <2>1, <2>2, <2>3, <2>4, <2>5
<1> QED  BY <1>1, <1>2 DEF Grows

LEMMA ServerGrows ==
    ASSUME CheckInv, NEW q \in Thread, Server(q) \/ EndOfStream(q) \/ Expire(q)
    PROVE  RequestStep(q)
<1> DEFINE r == req[q]
<1>0. r \in Request /\ RequestOK(r) /\ gate \in BOOLEAN  BY DEF CheckInv, CheckTypes
<1>n. Timeout \in Nat /\ Trigger \in Nat  BY CheckAssumption
<1> HIDE DEF r
<1>1. CASE TokensLine(q)
  <2> DEFINE a == [r EXCEPT !.tokens = IF @ < Trigger THEN @ + 1 ELSE @]
             s == IF Late(r) THEN [r EXCEPT !.st = "closing", !.failed = TRUE] ELSE a
  <2>1. r.st = "reading" /\ req' = [req EXCEPT ![q] = s]
        /\ gate' = (gate \/ (q = "long" /\ ~Late(r) /\ a.tokens >= Trigger))
        /\ UNCHANGED <<main, waited, results>>
    BY <1>1 DEF TokensLine, Line, Set, r
  <2>2. Grows(r, s)
    <3>1. a \in Request /\ a.tokens >= r.tokens /\ a.st = r.st /\ RequestOK(a)
      BY <1>0, <1>n, <2>1 DEF RequestOK, Request
    <3>2. LET c == [r EXCEPT !.st = "closing", !.failed = TRUE]
          IN  c \in Request /\ RequestOK(c) /\ c.st # "none" /\ c.tokens >= r.tokens
      <4> DEFINE c == [r EXCEPT !.st = "closing", !.failed = TRUE]
      <4>1. /\ c \in Request /\ c.st = "closing" /\ c.tokens = r.tokens /\ c.done = r.done
            /\ c.doneAge = r.doneAge /\ c.ok = r.ok /\ r.tokens \in Nat
        BY <1>0 DEF Request, States
      <4>2. ~r.ok /\ (r.done => r.doneAge <= Timeout)  BY <1>0, <2>1 DEF RequestOK
      <4> HIDE DEF c
      <4>3. RequestOK(c)  BY <4>1, <4>2 DEF RequestOK
      <4>4. c.tokens >= r.tokens  BY <4>1
      <4> QED  BY <4>1, <4>3, <4>4 DEF c
    <3> HIDE DEF a
    <3> QED  BY <2>1, <3>1, <3>2 DEF Grows
  <2>3. (q = "long" /\ ~Late(r) /\ a.tokens >= Trigger) => s.tokens >= Trigger  OBVIOUS
  <2> HIDE DEF s, a
  <2> QED  BY <1>0, <2>1, <2>2, <2>3 DEF RequestStep, r
<1>2. CASE FinishLine(q) \/ DoneLine(q) \/ ErrorLine(q) \/ EndOfStream(q) \/ Expire(q)
  <2>s. SUFFICES ASSUME NEW s,
                      \/ r.st = "reading" /\ s = [r EXCEPT !.st = "closing", !.failed = TRUE]
                      \/ r.st = "reading"
                           /\ \E good \in BOOLEAN : s = [r EXCEPT !.finish = TRUE, !.good = good]
                      \/ r.st = "reading" /\ ~Late(r)
                           /\ s = [r EXCEPT !.done = TRUE, !.doneAge = r.age, !.st = "closing"]
                      \/ r.st = "reading"
                           /\ \E failed \in BOOLEAN :
                                s = [r EXCEPT !.st = "closing", !.failed = failed]
                      \/ r.st \in {"reading", "closing"}
                           /\ s = [r EXCEPT !.expired = TRUE, !.shut = TRUE]
               PROVE  Grows(r, s)
    <3>1. CASE FinishLine(q) BY <3>1, <1>0 DEF r, RequestStep, FinishLine, Line, Set
    <3>2. CASE DoneLine(q) BY <3>2, <1>0 DEF r, RequestStep, DoneLine, Line, Set
    <3>3. CASE ErrorLine(q) BY <3>3, <1>0 DEF r, RequestStep, ErrorLine, Line, Set
    <3>4. CASE EndOfStream(q) BY <3>4, <1>0 DEF r, RequestStep, EndOfStream, Set
    <3>5. CASE Expire(q) BY <3>5, <1>0 DEF r, RequestStep, Expire, Set, Shutdown
    <3> QED  BY <1>2, <3>1, <3>2, <3>3, <3>4, <3>5
  <2>1. /\ s \in Request /\ r.st \notin {"none", "ended"} /\ s.st # "none"
        /\ s.tokens = r.tokens /\ r.tokens \in Nat
    BY <2>s, <1>0 DEF Request, States
  <2>2. RequestOK(s)
    <3>1. r.doneAge \in Nat /\ r.age \in Nat  BY <1>0 DEF Request
    <3>2. ~r.ok  BY <2>s, <1>0 DEF RequestOK
    <3>3. s.ok = r.ok /\ (s.st = r.st \/ s.st = "closing")  BY <2>s, <1>0 DEF Request
    <3>a. (s.done = r.done /\ s.doneAge = r.doneAge) \/ (s.doneAge = r.age /\ ~Late(r))
      BY <2>s, <1>0 DEF Request
    <3>b. r.done => r.doneAge <= Timeout  BY <1>0 DEF RequestOK
    <3>c. ~Late(r) => r.age <= Timeout  BY <1>n, <3>1 DEF Late
    <3>4. s.done => s.doneAge <= Timeout  BY Zenon, <3>a, <3>b, <3>c
    <3>5. s.st \in {"reading", "closing"}  BY <2>s, <3>3
    <3> QED  BY <3>2, <3>3, <3>4, <3>5 DEF RequestOK
  <2> QED  BY <2>1, <2>2 DEF Grows
<1> QED  BY <1>1, <1>2 DEF Server

-----------------------------------------------------------------------------
\* A step of one request keeps the invariant: no record that is over is touched.
LEMMA RequestStepKeeps ==
    ASSUME CheckInv, NEW q \in Thread, RequestStep(q)
    PROVE  CheckInv'
<1>1. PICK s : /\ Grows(req[q], s) /\ req' = [req EXCEPT ![q] = s]
               /\ gate' \in BOOLEAN /\ (gate => gate')
               /\ gate' => gate \/ (q = "long" /\ s.tokens >= Trigger)
  BY DEF RequestStep
<1>2. UNCHANGED <<main, waited, results>>  BY DEF RequestStep
<1>3. CheckTypes'  BY <1>1, <1>2 DEF CheckInv, CheckTypes, Grows
<1>4. \A p \in Thread : RequestOK(req'[p])
  BY <1>1 DEF CheckInv, CheckTypes, Grows
<1>5. MainOK'
  <2>1. /\ req'["long"].tokens >= req["long"].tokens
        /\ req["long"].tokens \in Nat /\ req'["long"].tokens \in Nat
        /\ q = "long" => req'["long"].tokens = s.tokens
    BY <1>1, <1>3 DEF CheckInv, CheckTypes, Grows, Request, Thread
  <2>2. /\ req["short"].st = "none" => req'["short"] = req["short"]
        /\ req["short"].st = "ended" => req'["short"] = req["short"]
        /\ req'["short"].st = "none" => req["short"].st = "none"
    BY <1>1 DEF CheckInv, CheckTypes, Grows, Thread
  <2>3. gate' => req'["long"].tokens >= Trigger
    BY <1>1, <2>1, CheckAssumption DEF CheckInv, MainOK
  <2>4. MixedPassMeansOverlap'
    BY <1>1, <1>2, <2>1, <2>2, <2>3 DEF CheckInv, MainOK, MixedPassMeansOverlap
  <2> QED  BY <1>1, <1>2, <2>2, <2>3, <2>4 DEF CheckInv, MainOK
<1> QED  BY <1>3, <1>4, <1>5 DEF CheckInv

LEMMA TickKeeps ==
    ASSUME CheckInv, Tick
    PROVE  CheckInv'
<1>1. \A q \in Thread : \E a \in Nat : req'[q] = [req[q] EXCEPT !.age = a]
  <2> SUFFICES ASSUME NEW q \in Thread
               PROVE  \E a \in Nat : req'[q] = [req[q] EXCEPT !.age = a]
    OBVIOUS
  <2>1. req[q] \in Request  BY DEF CheckInv, CheckTypes
  <2>2. req'[q] = IF Active(q) THEN [req[q] EXCEPT !.age = Later(@)] ELSE req[q]
    BY DEF Tick
  <2>3. Later(req[q].age) \in Nat  BY <2>1, CheckAssumption DEF Later, Request
  <2>4. req[q] = [req[q] EXCEPT !.age = req[q].age]  BY <2>1 DEF Request
  <2>5. req[q].age \in Nat  BY <2>1 DEF Request
  <2> QED  BY <2>2, <2>3, <2>4, <2>5
<1>2. req' = [q \in Thread |-> req'[q]]  BY DEF Tick
<1>3. \A q \in Thread : req[q] \in Request  BY DEF CheckInv, CheckTypes
<1>4. \A q \in Thread : req'[q] \in Request /\ RequestOK(req'[q])
                        /\ req'[q].st = req[q].st /\ req'[q].tokens = req[q].tokens
                        /\ req'[q].beside = req[q].beside
  <2> TAKE q \in Thread
  <2>1. PICK a \in Nat : req'[q] = [req[q] EXCEPT !.age = a]  BY <1>1
  <2>2. req[q] \in Request /\ RequestOK(req[q])  BY <1>3 DEF CheckInv
  <2> DEFINE s == [req[q] EXCEPT !.age = a]
  <2>3. /\ s \in Request /\ s.st = req[q].st /\ s.tokens = req[q].tokens
        /\ s.beside = req[q].beside /\ s.done = req[q].done /\ s.doneAge = req[q].doneAge
        /\ s.expired = req[q].expired /\ s.failed = req[q].failed /\ s.ok = req[q].ok
        /\ s.finish = req[q].finish
    BY <2>2 DEF Request
  <2> HIDE DEF s
  <2>4. RequestOK(s)  BY <2>2, <2>3 DEF RequestOK
  <2> QED  BY <2>1, <2>3, <2>4 DEF s
<1>5. waited' \in Nat /\ UNCHANGED <<gate, main, results>>
  BY CheckAssumption DEF Tick, Later, CheckInv, CheckTypes
<1>6. CheckTypes'  BY <1>2, <1>4, <1>5 DEF CheckInv, CheckTypes
<1>7. MainOK'  BY <1>4, <1>5 DEF CheckInv, MainOK, MixedPassMeansOverlap, Thread
<1> QED  BY <1>4, <1>6, <1>7 DEF CheckInv


-----------------------------------------------------------------------------
LEMMA MainKeeps ==
    ASSUME CheckInv, MainStep
    PROVE  CheckInv'
<1> USE DEF Thread
<1>f. Fresh \in Request /\ RequestOK(Fresh) /\ Fresh.st = "none" /\ ~Fresh.beside
  BY DEF Fresh, Request, States, RequestOK
<1>q. LET s == [Fresh EXCEPT !.st = "queued"]
      IN  s \in Request /\ RequestOK(s) /\ s.st = "queued" /\ ~s.beside
  BY DEF Fresh, Request, States, RequestOK
<1>1. CASE BeginStage
  <2>1. /\ gate' = FALSE /\ waited' = 0 /\ results' = results
        /\ main' \in {"wait", "collect", "raised"}
    BY <1>1 DEF BeginStage
  <2>2. CASE main' = "raised"
    <3>1. req' = req  BY <1>1, <2>2 DEF BeginStage
    <3> QED  BY <2>1, <2>2, <3>1 DEF CheckInv, CheckTypes, MainOK, MixedPassMeansOverlap
  <2>3. CASE main' # "raised"
    <3>1. req' = [q \in Thread |-> IF q = "long" THEN [Fresh EXCEPT !.st = "queued"] ELSE Fresh]
      BY <1>1, <2>3 DEF BeginStage
    <3>2. req'["short"] = Fresh  BY <3>1
    <3>3. \A q \in Thread : req'[q] \in Request /\ RequestOK(req'[q])
      BY <3>1, <1>f, <1>q
    <3>4. CheckTypes'  BY <2>1, <3>1, <3>3 DEF CheckInv, CheckTypes
    <3>5. MainOK'  BY <2>1, <2>3, <3>2, <1>f DEF MainOK, MixedPassMeansOverlap
    <3> QED  BY <3>3, <3>4, <3>5 DEF CheckInv
  <2> QED  BY <2>2, <2>3
<1>2. CASE WaitOver
  BY <1>2 DEF WaitOver, CheckInv, CheckTypes, MainOK, MixedPassMeansOverlap
<1>3. CASE Stagger
  BY <1>3 DEF Stagger, CheckInv, CheckTypes, MainOK, MixedPassMeansOverlap
<1>4. CASE Submit
  <2>1. /\ req' = [req EXCEPT !["short"] = [Fresh EXCEPT !.st = "queued"]]
        /\ main = "submit" /\ main' = "collect" /\ UNCHANGED <<gate, waited, results>>
    BY <1>4 DEF Submit, Set
  <2>2. req'["long"] = req["long"] /\ req'["short"] = [Fresh EXCEPT !.st = "queued"]
    BY <2>1 DEF CheckInv, CheckTypes
  <2>3. \A q \in Thread : req'[q] \in Request /\ RequestOK(req'[q])
    BY <1>q, <2>2 DEF CheckInv, CheckTypes
  <2>4. CheckTypes'  BY <2>1, <2>3 DEF CheckInv, CheckTypes
  <2>5. MainOK'  BY <2>1, <2>2 DEF CheckInv, MainOK, MixedPassMeansOverlap
  <2> QED  BY <2>3, <2>4, <2>5 DEF CheckInv
<1>5. CASE Collect
  <2> DEFINE ok == IF Stage = "mixed" THEN MixedOk(req["long"], req["short"])
                   ELSE req["long"].ok
  <2>1. /\ main = "collect" /\ req["short"].st \in {"none", "ended"}
        /\ results' = Append(results, ok) /\ main' \in {"stage", "exit"}
        /\ UNCHANGED <<req, gate, waited>>
    BY <1>5 DEF Collect, Ended
  <2>2. ok \in BOOLEAN
    BY DEF CheckInv, CheckTypes, Request, MixedOk
  <2>3. results' \in Seq(BOOLEAN) /\ Len(results') = Len(results) + 1
        /\ results'[Len(results')] = ok
    <3> HIDE DEF ok
    <3> QED  BY <2>1, <2>2 DEF CheckInv, CheckTypes
  <2>4. MixedPassMeansOverlap'
    <3> SUFFICES ASSUME Stages[Len(results')] = "mixed", results'[Len(results')]
                 PROVE  gate /\ req["short"].beside /\ req["long"].tokens >= Trigger
      BY <2>1 DEF MixedPassMeansOverlap
    <3>1. MixedOk(req["long"], req["short"])  BY <2>3 DEF Stage
    <3>2. req["short"].beside  BY <3>1 DEF MixedOk
    <3>3. req["short"].st # "none"  BY <3>2 DEF CheckInv, RequestOK
    <3> QED  BY <2>1, <3>2, <3>3 DEF CheckInv, MainOK
  <2>5. MainOK'  BY <2>1, <2>4 DEF CheckInv, MainOK
  <2>6. CheckTypes'  BY <2>1, <2>3 DEF CheckInv, CheckTypes
  <2> QED  BY <2>1, <2>5, <2>6 DEF CheckInv
<1> QED  BY <1>1, <1>2, <1>3, <1>4, <1>5 DEF MainStep

LEMMA CheckInitKeeps ==
    ASSUME CheckInit
    PROVE  CheckInv
<1>1. Fresh \in Request /\ RequestOK(Fresh) /\ Fresh.st = "none"
  BY DEF Fresh, Request, States, RequestOK
<1>2. \A q \in Thread : req[q] = Fresh  BY DEF CheckInit
<1>0. <<>> \in Seq(BOOLEAN)  OBVIOUS
<1>3. CheckTypes  BY <1>0, <1>1 DEF CheckInit, CheckTypes
<1>4. MainOK  BY <1>1, <1>2 DEF CheckInit, MainOK, MixedPassMeansOverlap, Thread
<1> QED  BY <1>1, <1>2, <1>3, <1>4 DEF CheckInv

LEMMA CheckStepKeeps ==
    ASSUME CheckInv, [CheckNext]_checkVars
    PROVE  CheckInv'
<1>1. CASE CheckNext
  BY <1>1, TickKeeps, MainKeeps, ThreadGrows, ServerGrows, RequestStepKeeps DEF CheckNext
<1>2. CASE UNCHANGED checkVars
  BY <1>2 DEF checkVars, CheckInv, CheckTypes, MainOK, MixedPassMeansOverlap
<1> QED  BY <1>1, <1>2

LEMMA CheckInvAlways == CheckSpec => []CheckInv
<1>1. CheckInit => CheckInv  BY CheckInitKeeps
<1>2. CheckInv /\ [CheckNext]_checkVars => CheckInv'  BY CheckStepKeeps
<1> QED  BY <1>1, <1>2, PTL DEF CheckSpec

\* Whatever the server sends and whenever the timer fires, a request counts as ok only
\* if its last line was read within the deadline and the timer never fired.
THEOREM OkInTimeAlways == CheckSpec => []OkInTime
<1>1. CheckInv => OkInTime  BY DEF CheckInv, RequestOK, OkInTime
<1> QED  BY <1>1, CheckInvAlways, PTL

\* A mixed stage that passed had the short request begin between the long one's
\* trigger and its end.
THEOREM MixedPassMeansOverlapAlways == CheckSpec => []MixedPassMeansOverlap
<1>1. CheckInv => MixedPassMeansOverlap  BY DEF CheckInv, MainOK
<1> QED  BY <1>1, CheckInvAlways, PTL
=============================================================================
