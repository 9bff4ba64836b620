------------------------ MODULE StatsCollectorProofs ------------------------
(***************************************************************************)
(* Proofs about StatsCollector, for any number of threads and drives and a  *)
(* history of any length.                                                   *)
(***************************************************************************)
EXTENDS StatsCollector, FiniteSetTheorems, TLAPS

(* The first t units, and the sample of /proc/stat after them.              *)
Idle(t) == {i \in 1..t : ticks[i] = "idle"}
SampleAt(t) == [total |-> t, idle |-> Cardinality(Idle(t))]
IsSample(s) == \E t \in 0..Len(ticks) : s = SampleAt(t)

HasCurrent == {"load", "sleep", "store", "compute"}
HasPrevious == {"sleep", "store", "compute"}

Shapes ==
  /\ ticks \in Seq({"busy", "idle"})
  /\ DOMAIN pc = Workers /\ DOMAIN current = Workers /\ DOMAIN previous = Workers
  /\ DOMAIN percent = Workers /\ DOMAIN asked = Workers
  /\ DOMAIN report = Workers /\ DOMAIN steady = Workers /\ DOMAIN missed = Workers
  /\ DOMAIN span = Workers

(* A thread holds two samples, of which the later was taken after the       *)
(* request came.                                                            *)
Holds(w) ==
  /\ asked[w] \in 0..Len(ticks)
  /\ pc[w] \in HasCurrent => IsSample(current[w]) /\ current[w].total >= asked[w]
  /\ pc[w] \in HasPrevious => IsSample(previous[w])

Shared == last # None => IsSample(last)

(* ShareIsMeasured for one thread. *)
Measured(w) ==
  pc[w] = "drive" /\ percent[w] # <<0, 1>> =>
    \E i, j \in 0..Len(ticks) :
      /\ i < j /\ j >= asked[w]
      /\ percent[w] = <<Cardinality({n \in i + 1 .. j : ticks[n] = "busy"}), j - i>>

CpuInv == Shared /\ \A w \in Workers : Holds(w) /\ Measured(w)

LEMMA ShapesKept == Shapes /\ [Next]_vars => Shapes'
PROOF
<1>. SUFFICES ASSUME Shapes, [Next]_vars PROVE Shapes' OBVIOUS
<1>. USE DEF Shapes, Goto, cpu, told, drive
<1>1. CASE Tick BY <1>1 DEF Tick
<1>2. ASSUME NEW d \in Devices, DriveChanges(d) PROVE Shapes' BY <1>2 DEF DriveChanges
<1>3. ASSUME NEW w \in Workers, Stats(w) \/ Services(w) PROVE Shapes' BY <1>3 DEF Stats, Services
<1>4. ASSUME NEW w \in Workers, Step(w) PROVE Shapes'
  BY <1>4 DEF Step, ReadSample, LoadLast, SleepEnds, StoreLast, Compute, StartDrive,
              CommandFails, HasLsblk, DockerReturns, Ends
<1>5. ASSUME NEW w \in Workers, Returns(w) PROVE Shapes'
  BY <1>5 DEF Returns, LsblkReturns, HasLsblk, FindmntReturns, CommandRaises, Ends
<1>6. CASE UNCHANGED vars BY <1>6 DEF vars
<1>. QED BY <1>1, <1>2, <1>3, <1>4, <1>5, <1>6 DEF Next

-----------------------------------------------------------------------------
(* Counting *)

(* The busy share between two samples is the number of busy units between.  *)
LEMMA ShareCounts ==
  ASSUME Shapes, NEW i \in 0..Len(ticks), NEW j \in 0..Len(ticks), i < j
  PROVE  Share(SampleAt(i), SampleAt(j)) =
           <<Cardinality({n \in i + 1 .. j : ticks[n] = "busy"}), j - i>>
PROOF
<1>. DEFINE idle == {n \in i + 1 .. j : ticks[n] = "idle"}
            busy == {n \in i + 1 .. j : ticks[n] = "busy"}
<1>1. i \in Nat /\ j \in Nat /\ Len(ticks) \in Nat BY DEF Shapes
<1>2. IsFiniteSet(1..i) /\ IsFiniteSet(i + 1 .. j) /\ Cardinality(i + 1 .. j) = j - i
  BY <1>1, FS_Interval
<1>3. IsFiniteSet(Idle(i)) BY <1>2, FS_Subset DEF Idle
<1>4. IsFiniteSet(idle) /\ IsFiniteSet(busy) BY <1>2, FS_Subset
<1>5. Idle(j) = Idle(i) \cup idle /\ Idle(i) \cap idle = {} BY <1>1 DEF Idle
<1>6. i + 1 .. j = idle \cup busy /\ idle \cap busy = {}
  <2>1. \A n \in i + 1 .. j : ticks[n] \in {"busy", "idle"} BY <1>1 DEF Shapes
  <2>. QED BY <2>1
<1>. HIDE DEF idle, busy
<1>7. Cardinality({}) = 0 BY FS_EmptySet
<1>8. /\ Cardinality(Idle(i)) \in Nat /\ Cardinality(idle) \in Nat
      /\ Cardinality(busy) \in Nat
  BY <1>3, <1>4, FS_CardinalityType
<1>9. Cardinality(Idle(j)) = Cardinality(Idle(i)) + Cardinality(idle)
  <2>1. Cardinality(Idle(j)) = Cardinality(Idle(i)) + Cardinality(idle) - Cardinality({})
    BY <1>3, <1>4, <1>5, FS_Union
  <2>. QED BY <1>7, <1>8, <2>1
<1>10. j - i = Cardinality(idle) + Cardinality(busy)
  <2>1. Cardinality(i + 1 .. j) = Cardinality(idle) + Cardinality(busy) - Cardinality({})
    BY <1>4, <1>6, FS_Union
  <2>. QED BY <1>2, <1>7, <1>8, <2>1
<1>11. (j - i) - (Cardinality(Idle(j)) - Cardinality(Idle(i))) = Cardinality(busy)
  BY <1>8, <1>9, <1>10
<1>. QED BY <1>1, <1>11 DEF Share, SampleAt, busy

(* What was sampled stays a sample.                                         *)
LEMMA TickKeeps ==
  ASSUME Shapes, Tick
  PROVE  /\ Len(ticks) \in Nat /\ Len(ticks') = Len(ticks) + 1
         /\ \A i \in 1..Len(ticks) : ticks'[i] = ticks[i]
         /\ \A s : IsSample(s) => IsSample(s)'
PROOF
<1>1. /\ Len(ticks) \in Nat /\ Len(ticks') = Len(ticks) + 1
      /\ \A i \in 1..Len(ticks) : ticks'[i] = ticks[i]
  BY DEF Shapes, Tick
<1>2. ASSUME NEW t \in 0..Len(ticks) PROVE SampleAt(t)' = SampleAt(t)
  <2>1. Idle(t)' = Idle(t) BY <1>1 DEF Idle
  <2>. QED BY <2>1 DEF SampleAt
<1>3. ASSUME NEW s, IsSample(s) PROVE IsSample(s)'
  <2>1. PICK t \in 0..Len(ticks) : s = SampleAt(t) BY <1>3 DEF IsSample
  <2>2. t \in 0..Len(ticks') /\ s = SampleAt(t)' BY <1>1, <1>2, <2>1
  <2>. QED BY <2>2 DEF IsSample
<1>. QED BY <1>1, <1>3

-----------------------------------------------------------------------------
(* The share of the CPU *)

LEMMA CpuInit == Init => Shapes /\ CpuInv
BY DEF Init, Shapes, CpuInv, Shared, Holds, Measured, HasCurrent, HasPrevious

LEMMA SampleIsSample ==
  ASSUME Shapes
  PROVE  IsSample(Sample) /\ Sample.total = Len(ticks) /\ Len(ticks) \in Nat
PROOF
<1>1. Len(ticks) \in Nat /\ DOMAIN ticks = 1..Len(ticks) BY DEF Shapes
<1>2. Sample = SampleAt(Len(ticks)) BY <1>1 DEF Sample, SampleAt, Idle
<1>. QED BY <1>1, <1>2 DEF IsSample, SampleAt

LEMMA CpuTick == ASSUME Shapes, CpuInv, Tick PROVE CpuInv'
PROOF
<1>1. UNCHANGED <<last, pc, current, previous, percent, asked>> BY DEF Tick, cpu, drive
<1>2. /\ Len(ticks) \in Nat /\ Len(ticks') = Len(ticks) + 1
      /\ \A i \in 1..Len(ticks) : ticks'[i] = ticks[i]
  BY TickKeeps
<1>. DEFINE Was(s) == \E t \in 0..Len(ticks') :
                        s = [total |-> t,
                             idle |-> Cardinality({i \in 1..t : ticks'[i] = "idle"})]
<1>3. \A s : IsSample(s) => Was(s) BY TickKeeps DEF IsSample, SampleAt, Idle
<1>4. Shared'
  <2>1. last # None => Was(last') BY <1>1, <1>3 DEF CpuInv, Shared
  <2>. QED BY <1>1, <2>1 DEF Shared, IsSample, SampleAt, Idle
<1>5. ASSUME NEW w \in Workers PROVE Holds(w)'
  <2>1. Holds(w) BY DEF CpuInv
  <2>2. pc[w] \in HasCurrent => Was(current'[w]) BY <1>1, <1>3, <2>1 DEF Holds
  <2>3. pc[w] \in HasPrevious => Was(previous'[w]) BY <1>1, <1>3, <2>1 DEF Holds
  <2>4. pc'[w] \in HasCurrent => IsSample(current[w])'
    BY <1>1, <2>2 DEF IsSample, SampleAt, Idle
  <2>5. pc'[w] \in HasPrevious => IsSample(previous[w])'
    BY <1>1, <2>3 DEF IsSample, SampleAt, Idle
  <2>. HIDE DEF Was
  <2>. QED BY <1>1, <1>2, <2>1, <2>4, <2>5 DEF Holds
<1>6. ASSUME NEW w \in Workers PROVE Measured(w)'
  <2>1. ASSUME NEW i \in 0..Len(ticks), NEW j \in 0..Len(ticks)
        PROVE  {n \in i + 1 .. j : ticks'[n] = "busy"} = {n \in i + 1 .. j : ticks[n] = "busy"}
    BY <1>2
  <2>2. 0..Len(ticks) \subseteq 0..Len(ticks') BY <1>2
  <2>3. Measured(w) BY DEF CpuInv
  <2>. QED BY <1>1, <2>1, <2>2, <2>3 DEF Measured
<1>. QED BY <1>4, <1>5, <1>6 DEF CpuInv

(* A thread that does nothing loses nothing. *)
LEMMA CpuStays ==
  ASSUME NEW w \in Workers, UNCHANGED ticks, Holds(w), Measured(w),
         pc'[w] = pc[w], current'[w] = current[w], previous'[w] = previous[w],
         percent'[w] = percent[w], asked'[w] = asked[w]
  PROVE  Holds(w)' /\ Measured(w)'
BY DEF Holds, Measured, IsSample, SampleAt, Idle

LEMMA CpuStep ==
  ASSUME Shapes, CpuInv, NEW w \in Workers, Stats(w) \/ Services(w) \/ Step(w) \/ Returns(w)
  PROVE  CpuInv'
PROOF
<1>1. Holds(w) /\ Measured(w) /\ Shared BY DEF CpuInv
<1>2. IsSample(Sample) /\ Sample.total = Len(ticks) /\ Len(ticks) \in Nat BY SampleIsSample
<1>3. UNCHANGED ticks
  BY DEF Stats, Services, Step, ReadSample, LoadLast, SleepEnds, StoreLast, Compute, StartDrive,
         CommandFails, DockerReturns, HasLsblk, Returns, LsblkReturns, FindmntReturns,
         CommandRaises, Ends, cpu, drive
<1>. USE DEF Shapes, Goto, HasCurrent, HasPrevious, drive
<1>5. ASSUME NEW v \in Workers, v # w PROVE Holds(v)' /\ Measured(v)'
  <2>1. /\ pc'[v] = pc[v] /\ current'[v] = current[v] /\ previous'[v] = previous[v]
        /\ percent'[v] = percent[v] /\ asked'[v] = asked[v]
    BY <1>5
    DEF Stats, Services, Step, ReadSample, LoadLast, SleepEnds, StoreLast, Compute, StartDrive,
        CommandFails, DockerReturns, HasLsblk, Returns, LsblkReturns, FindmntReturns,
        CommandRaises, Ends, cpu
  <2>2. Holds(v) /\ Measured(v) BY DEF CpuInv
  <2>. QED BY <1>3, <2>1, <2>2, CpuStays
<1>6. Shared'
  <2>1. last' = last \/ (last' = current[w] /\ pc[w] = "store")
    BY DEF Stats, Services, Step, ReadSample, LoadLast, SleepEnds, StoreLast, Stored, Compute,
           StartDrive, CommandFails, DockerReturns, HasLsblk, Returns, LsblkReturns,
           FindmntReturns, CommandRaises, Ends, cpu
  <2>2. last' # None => IsSample(last') BY <1>1, <2>1 DEF Holds, Shared
  <2>. QED BY <1>3, <2>2 DEF Shared, IsSample, SampleAt, Idle
<1>7. /\ asked'[w] \in 0..Len(ticks)
      /\ pc'[w] \in HasCurrent => IsSample(current'[w]) /\ current'[w].total >= asked'[w]
      /\ pc'[w] \in HasPrevious => IsSample(previous'[w])
  <2>. USE <1>1, <1>2 DEF Holds, Shared, cpu
  <2>1. CASE Stats(w) BY <2>1 DEF Stats
  <2>2. CASE Services(w) BY <2>2 DEF Services
  <2>3. CASE ReadSample(w) BY <2>3 DEF ReadSample
  <2>4. CASE LoadLast(w) BY <2>4 DEF LoadLast
  <2>5. CASE SleepEnds(w) BY <2>5 DEF SleepEnds
  <2>6. CASE StoreLast(w) BY <2>6 DEF StoreLast
  <2>7. CASE Compute(w) BY <2>7 DEF Compute
  <2>8. CASE StartDrive(w) BY <2>8 DEF StartDrive
  <2>9. CASE CommandFails(w) BY <2>9 DEF CommandFails, HasLsblk, AfterLsblk, DockerReturns, Ends
  <2>10. CASE Returns(w)
    BY <2>10 DEF Returns, LsblkReturns, HasLsblk, AfterLsblk, FindmntReturns, CommandRaises, Ends
  <2>. QED BY <2>1, <2>2, <2>3, <2>4, <2>5, <2>6, <2>7, <2>8, <2>9, <2>10 DEF Step
<1>8. Holds(w)' BY <1>3, <1>7 DEF Holds, IsSample, SampleAt, Idle
<1>9. Measured(w)'
  <2>1. CASE Compute(w)
    <3>. SUFFICES ASSUME percent'[w] # <<0, 1>>
                  PROVE  \E i, j \in 0..Len(ticks) :
                           /\ i < j /\ j >= asked[w]
                           /\ percent'[w] =
                                <<Cardinality({n \in i + 1 .. j : ticks[n] = "busy"}), j - i>>
      BY <1>3, <2>1 DEF Compute, Measured
    <3>1. PICK i \in 0..Len(ticks) : previous[w] = SampleAt(i)
      BY <1>1, <2>1 DEF Compute, Holds, IsSample
    <3>2. PICK j \in 0..Len(ticks) : current[w] = SampleAt(j)
      BY <1>1, <2>1 DEF Compute, Holds, IsSample
    <3>3. percent'[w] = Share(SampleAt(i), SampleAt(j)) BY <2>1, <3>1, <3>2 DEF Compute
    <3>4. i < j BY <1>2, <3>3 DEF Share, SampleAt
    <3>5. j >= asked[w] BY <1>1, <2>1, <3>2 DEF Compute, Holds, SampleAt
    <3>. QED BY <3>3, <3>4, <3>5, ShareCounts
  <2>2. CASE ~Compute(w)
    <3>1. pc'[w] # "drive"
      BY <2>2
      DEF Stats, Services, Step, ReadSample, LoadLast, SleepEnds, StoreLast, StartDrive,
          CommandFails, DockerReturns, HasLsblk, AfterLsblk, Returns, LsblkReturns,
          FindmntReturns, CommandRaises, Ends
    <3>. QED BY <3>1 DEF Measured
  <2>. QED BY <2>1, <2>2
<1>. QED BY <1>5, <1>6, <1>8, <1>9 DEF CpuInv

LEMMA CpuKept == Shapes /\ CpuInv /\ [Next]_vars => CpuInv'
PROOF
<1>. SUFFICES ASSUME Shapes, CpuInv, [Next]_vars PROVE CpuInv' OBVIOUS
<1>1. CASE UNCHANGED <<cpu, pc>>
  BY <1>1 DEF cpu, CpuInv, Shared, Holds, Measured, IsSample, SampleAt, Idle
<1>. QED BY <1>1, CpuTick, CpuStep DEF Next, DriveChanges, vars

(* cpu_percent is a busy share that the CPU had over a period that ends     *)
(* within the request, or 0.                                                *)
THEOREM SharesAreTrue == Spec => []ShareIsMeasured
PROOF
<1>1. CpuInv => ShareIsMeasured BY DEF CpuInv, Measured, ShareIsMeasured
<1>. QED BY <1>1, CpuInit, ShapesKept, CpuKept, PTL DEF Spec

-----------------------------------------------------------------------------
(* What the samples cover *)

(* Some request covers the unit n, whether it has ended or is under way.    *)
Covered(n) ==
  \/ n \in measured \cup unsaid
  \/ \E w \in Workers :
       \/ n \in span[w]
       \/ pc[w] = "compute" /\ n \in previous[w].total + 1 .. current[w].total

(* All before the sample a thread has loaded is covered, though others have *)
(* stored newer ones since.                                                 *)
CoverInv ==
  /\ base \in Int
  /\ \A w \in Workers : pc[w] \in {"idle", "sample"} \cup HasCurrent => span[w] = {}
  /\ last # None => \A n \in base + 1 .. last.total : Covered(n)
  /\ \A w \in Workers : pc[w] \in HasPrevious =>
       \A n \in base + 1 .. previous[w].total : Covered(n)

LEMMA SamplesHaveTotals == \A s : IsSample(s) /\ Shapes => s.total \in Int
BY DEF IsSample, SampleAt, Shapes

LEMMA Widened ==
  ASSUME NEW a \in Int, NEW b \in Int, a >= b, NEW t \in Int, NEW n, n \in a + 1 .. t
  PROVE  n \in b + 1 .. t
OBVIOUS

LEMMA CoverKept == Shapes /\ CpuInv /\ CoverInv /\ [Next]_vars => CoverInv'
PROOF
<1>. SUFFICES ASSUME Shapes, CpuInv, CoverInv, [Next]_vars PROVE CoverInv' OBVIOUS
<1>1. ASSUME NEW n, Covered(n), NEW w \in Workers,
             Stats(w) \/ Services(w) \/ Step(w) \/ Returns(w)
      PROVE  Covered(n)'
  <2>. USE DEF Shapes, Goto, cpu, told, drive
  <2>1. CASE Compute(w)
    <3>1. /\ pc[w] = "compute" /\ span[w] = {} /\ UNCHANGED <<measured, unsaid>>
          /\ span' = [span EXCEPT ![w] = previous[w].total + 1 .. current[w].total]
      BY <2>1 DEF Compute, CoverInv, HasCurrent
    <3>2. ASSUME NEW v \in Workers, v # w
          PROVE  /\ span'[v] = span[v] /\ pc'[v] = pc[v]
                 /\ previous'[v] = previous[v] /\ current'[v] = current[v]
      BY <2>1, <3>2 DEF Compute
    <3>3. CASE n \in measured \cup unsaid BY <3>1, <3>3 DEF Covered
    <3>4. ASSUME NEW v \in Workers,
                 \/ n \in span[v]
                 \/ pc[v] = "compute" /\ n \in previous[v].total + 1 .. current[v].total
          PROVE  Covered(n)'
      <4>1. CASE v # w BY <3>2, <3>4, <4>1 DEF Covered
      <4>2. CASE v = w
        <5>1. n \in span'[w] BY <3>1, <3>4, <4>2
        <5>. QED BY <5>1 DEF Covered
      <4>. QED BY <4>1, <4>2
    <3>. QED BY <1>1, <3>3, <3>4 DEF Covered
  <2>2. CASE DockerReturns(w) BY <1>1, <2>2 DEF DockerReturns, Ends, Covered
  <2>3. CASE CommandRaises(w) BY <1>1, <2>3 DEF CommandRaises, Ends, Covered
  <2>4. CASE ~Compute(w) /\ ~DockerReturns(w) /\ ~CommandRaises(w)
    <3>1. ASSUME NEW v \in Workers, pc[v] = "compute"
          PROVE  pc'[v] = "compute" /\ current'[v] = current[v] /\ previous'[v] = previous[v]
      BY <1>1, <2>4, <3>1
      DEF Stats, Services, Step, ReadSample, LoadLast, SleepEnds, StoreLast, StartDrive,
          CommandFails, HasLsblk, Returns, LsblkReturns, FindmntReturns
    <3>2. UNCHANGED told
      BY <1>1, <2>4
      DEF Stats, Services, Step, ReadSample, LoadLast, SleepEnds, StoreLast, StartDrive,
          CommandFails, HasLsblk, Returns, LsblkReturns, FindmntReturns
    <3>. QED BY <1>1, <3>1, <3>2 DEF Covered
  <2>. QED BY <2>1, <2>2, <2>3, <2>4
<1>2. ASSUME NEW w \in Workers, Stats(w) \/ Services(w) \/ Step(w) \/ Returns(w)
      PROVE  CoverInv'
  <2>1. pc[w] \in HasCurrent => current[w].total \in Int
    BY SamplesHaveTotals DEF CpuInv, Holds
  <2>2. last # None => last.total \in Int BY SamplesHaveTotals DEF CpuInv, Shared
  <2>3. base' \in Int /\ base' >= base
    BY <1>2, <2>1
    DEF CoverInv, HasCurrent, cpu, Stats, Services, Step, ReadSample, LoadLast, SleepEnds,
        StoreLast, Compute, StartDrive, CommandFails, DockerReturns, HasLsblk, Returns,
        LsblkReturns, FindmntReturns, CommandRaises, Ends
  <2>4. ASSUME NEW v \in Workers, pc'[v] \in HasPrevious,
               NEW n, n \in base' + 1 .. previous'[v].total
        PROVE  Covered(n)'
    <3>1. CASE pc[v] \in HasPrevious /\ previous'[v] = previous[v]
      <4>1. previous[v].total \in Int BY <3>1, SamplesHaveTotals DEF CpuInv, Holds
      <4>2. n \in base + 1 .. previous[v].total
        <5>1. base \in Int BY DEF CoverInv
        <5>2. n \in base' + 1 .. previous[v].total BY <2>4, <3>1
        <5>. QED BY <2>3, <4>1, <5>1, <5>2, Widened
      <4>. QED BY <1>1, <1>2, <3>1, <4>2 DEF CoverInv
    <3>2. CASE ~(pc[v] \in HasPrevious /\ previous'[v] = previous[v])
      <4>. USE DEF Shapes, Goto, cpu
      <4>. HIDE DEF HasPrevious
      <4>1. v = w
        <5>1. v # w => pc'[v] = pc[v] /\ previous'[v] = previous[v]
          BY <1>2
          DEF Stats, Services, Step, ReadSample, LoadLast, SleepEnds, StoreLast, Compute,
              StartDrive, CommandFails, DockerReturns, HasLsblk, Returns, LsblkReturns,
              FindmntReturns, CommandRaises, Ends
        <5>. QED BY <2>4, <3>2, <5>1
      <4>2. LoadLast(w)
        <5>1. CASE SleepEnds(w) \/ StoreLast(w)
          BY <3>2, <4>1, <5>1 DEF SleepEnds, StoreLast, HasPrevious
        <5>2. CASE ~LoadLast(w) /\ ~SleepEnds(w) /\ ~StoreLast(w)
          <6>1. pc'[w] \notin HasPrevious
            BY <1>2, <5>2
            DEF HasPrevious, Stats, Services, Step, ReadSample, Compute, StartDrive,
                CommandFails, DockerReturns, HasLsblk, AfterLsblk, Returns, LsblkReturns,
                FindmntReturns, CommandRaises, Ends
          <6>. QED BY <2>4, <4>1, <6>1
        <5>. QED BY <5>1, <5>2
      <4>3. CASE last = None
        <5>1. previous'[v] = current[w] /\ pc[w] = "load"
              /\ base' = IF current[w].total > base THEN current[w].total ELSE base
          BY <4>1, <4>2, <4>3 DEF LoadLast, Shapes
        <5>2. base' >= previous'[v].total BY <2>1, <5>1 DEF HasCurrent, CoverInv
        <5>. QED BY <2>1, <2>3, <2>4, <5>1, <5>2 DEF HasCurrent
      <4>4. CASE last # None
        <5>1. previous'[v] = last BY <4>1, <4>2, <4>4 DEF LoadLast, Shapes
        <5>2. base \in Int /\ n \in base' + 1 .. last.total BY <2>4, <5>1 DEF CoverInv
        <5>3. n \in base + 1 .. last.total BY <2>2, <2>3, <4>4, <5>2, Widened
        <5>. QED BY <1>1, <1>2, <4>4, <5>3 DEF CoverInv
      <4>. QED BY <4>3, <4>4
    <3>. QED BY <3>1, <3>2
  <2>5. ASSUME last' # None, NEW n \in base' + 1 .. last'.total PROVE Covered(n)'
    <3>1. CASE last' = last
      <4>1. base \in Int /\ n \in base' + 1 .. last.total BY <2>5, <3>1 DEF CoverInv
      <4>2. n \in base + 1 .. last.total BY <2>2, <2>3, <2>5, <3>1, <4>1, Widened
      <4>. QED BY <1>1, <1>2, <2>5, <3>1, <4>2 DEF CoverInv
    <3>2. CASE last' # last
      <4>1. StoreLast(w)
        BY <1>2, <3>2
        DEF cpu, Stats, Services, Step, ReadSample, LoadLast, SleepEnds, Compute, StartDrive,
            CommandFails, DockerReturns, HasLsblk, Returns, LsblkReturns, FindmntReturns,
            CommandRaises, Ends
      <4>2. /\ pc[w] = "store" /\ pc'[w] = "compute" /\ last' = current[w]
            /\ UNCHANGED <<base, current, previous>>
        BY <4>1 DEF StoreLast, Stored, Goto, Shapes
      <4>3. previous[w].total \in Int
        BY <4>2, SamplesHaveTotals DEF CpuInv, Holds, HasPrevious
      <4>4. CASE n <= previous[w].total
        <5>1. n \in base + 1 .. previous[w].total BY <2>5, <4>2, <4>3, <4>4 DEF CoverInv
        <5>. QED BY <1>1, <1>2, <4>2, <5>1 DEF CoverInv, HasPrevious
      <4>5. CASE n > previous[w].total
        <5>1. n \in previous[w].total + 1 .. current[w].total
          BY <2>1, <2>3, <2>5, <4>2, <4>3, <4>5 DEF HasCurrent
        <5>. QED BY <4>2, <5>1 DEF Covered
      <4>6. n \in Int BY <2>1, <2>3, <2>5, <4>2 DEF HasCurrent
      <4>. QED BY <4>3, <4>4, <4>5, <4>6
    <3>. QED BY <3>1, <3>2
  <2>6. ASSUME NEW v \in Workers, pc'[v] \in {"idle", "sample"} \cup HasCurrent
        PROVE  span'[v] = {}
    <3>. USE DEF Shapes, Goto, cpu, told, drive
    <3>1. CASE v # w
      <4>1. pc'[v] = pc[v] /\ span'[v] = span[v]
        BY <1>2, <3>1
        DEF Stats, Services, Step, ReadSample, LoadLast, SleepEnds, StoreLast, Compute,
            StartDrive, CommandFails, DockerReturns, HasLsblk, Returns, LsblkReturns,
            FindmntReturns, CommandRaises, Ends
      <4>. QED BY <2>6, <4>1 DEF CoverInv
    <3>2. CASE v = w
      <4>1. CASE DockerReturns(w) \/ CommandRaises(w)
        BY <3>2, <4>1 DEF DockerReturns, CommandRaises, Ends
      <4>2. CASE Stats(w) \/ ReadSample(w) \/ LoadLast(w) \/ SleepEnds(w) \/ StoreLast(w)
        <5>1. span' = span /\ pc[w] \in {"idle", "sample"} \cup HasCurrent
          BY <4>2 DEF Stats, ReadSample, LoadLast, SleepEnds, StoreLast, HasCurrent
        <5>. QED BY <3>2, <5>1 DEF CoverInv
      <4>3. CASE ~(DockerReturns(w) \/ CommandRaises(w) \/ Stats(w) \/ ReadSample(w)
                     \/ LoadLast(w) \/ SleepEnds(w) \/ StoreLast(w))
        <5>1. pc'[w] \in {"drive", "lsblk", "findmnt", "docker"}
          BY <1>2, <4>3
          DEF Services, Step, Compute, StartDrive, CommandFails, HasLsblk, AfterLsblk, Returns,
              LsblkReturns, FindmntReturns
        <5>. QED BY <2>6, <3>2, <5>1 DEF HasCurrent
      <4>. QED BY <4>1, <4>2, <4>3
    <3>. QED BY <3>1, <3>2
  <2>. QED BY <2>3, <2>4, <2>5, <2>6 DEF CoverInv
<1>3. CASE UNCHANGED <<last, pc, current, previous, base, told>>
  BY <1>3 DEF CoverInv, Covered, told
<1>. QED BY <1>2, <1>3 DEF Next, Tick, DriveChanges, cpu, vars

(* Whatever the threads overtake, every moment up to the stored sample is   *)
(* covered by an answer that was sent or is under way, unless only requests *)
(* that ended without one have measured it.                                 *)
THEOREM LoadIsNotMissed == Spec => []NothingMissed
PROOF
<1>1. Init => CoverInv BY DEF Init, CoverInv, HasPrevious
<1>2. CoverInv => NothingMissed BY DEF CoverInv, Covered, NothingMissed
<1>. QED BY <1>1, <1>2, CpuInit, ShapesKept, CpuKept, CoverKept, PTL DEF Spec

-----------------------------------------------------------------------------
(* The drive *)

(* A request that has passed read_backup_drive has seen the drive at the    *)
(* mount point, or findmnt failed; a thread without a request has seen none.*)
DriveInv ==
  /\ MountedIsReported
  /\ \A w \in Workers : pc[w] = "idle" => ~steady[w]

LEMMA DriveKept == Shapes /\ DriveInv /\ [Next]_vars => DriveInv'
PROOF
<1>. SUFFICES ASSUME Shapes, DriveInv, [Next]_vars PROVE DriveInv' OBVIOUS
<1>. USE DEF DriveInv, MountedIsReported, Shapes, Goto, cpu, drive
<1>1. CASE Tick BY <1>1 DEF Tick
<1>2. ASSUME NEW d \in Devices, DriveChanges(d) PROVE DriveInv'
  <2>1. UNCHANGED <<pc, watch, missed, report>> BY <1>2 DEF DriveChanges
  <2>2. \A w \in Workers : ~steady[w] => ~steady'[w] BY <1>2 DEF DriveChanges
  <2>. QED BY <2>1, <2>2
<1>3. ASSUME NEW w \in Workers, Stats(w) \/ Services(w) PROVE DriveInv'
  BY <1>3 DEF Stats, Services
<1>4. ASSUME NEW w \in Workers, Step(w) PROVE DriveInv'
  <2>1. CASE ReadSample(w) \/ LoadLast(w) \/ SleepEnds(w) \/ StoreLast(w) \/ Compute(w)
    BY <2>1 DEF ReadSample, LoadLast, SleepEnds, StoreLast, Compute
  <2>2. CASE StartDrive(w) BY <2>2 DEF StartDrive
  <2>3. CASE CommandFails(w)
    BY <2>3 DEF CommandFails, HasLsblk, AfterLsblk, NoReport, DockerReturns, Ends
  <2>. QED BY <1>4, <2>1, <2>2, <2>3 DEF Step
<1>5. ASSUME NEW w \in Workers, Returns(w) PROVE DriveInv'
  BY <1>5 DEF Returns, LsblkReturns, HasLsblk, AfterLsblk, Preferred, ReportOf, NoReport,
              FindmntReturns, Merged, CommandRaises, Ends
<1>6. CASE UNCHANGED vars BY <1>6 DEF vars
<1>. QED BY <1>1, <1>2, <1>3, <1>4, <1>5, <1>6 DEF Next

(* A drive that stays at the backup mount point is reported as mounted.     *)
THEOREM MountIsSeen == Spec => []MountedIsReported
PROOF
<1>1. Init => DriveInv BY DEF Init, DriveInv, MountedIsReported
<1>2. DriveInv => MountedIsReported BY DEF DriveInv
<1>. QED BY <1>1, <1>2, CpuInit, ShapesKept, DriveKept, PTL DEF Spec
=============================================================================
