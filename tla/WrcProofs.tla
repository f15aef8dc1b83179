----------------------------- MODULE WrcProofs ------------------------------
(***************************************************************************)
(* Invariants of a write-read-compare test for every configuration, device *)
(* and kind of fault.  The task: type correctness, that the threads of a   *)
(* step share its blocks out exactly, whatever their number, that a test   *)
(* which passes has tested what it was asked to and has written nothing    *)
(* else, and that a sweep uses the lengths it shows.                       *)
(*                                                                         *)
(* The task under the dialog: neither a cancel nor the end of a test       *)
(* orphans a command, and a test is repeated only when the round before    *)
(* has failed or tested its whole range.                                   *)
(***************************************************************************)
EXTENDS WrcDialog, TLAPS, FiniteSetTheorems, SequenceTheorems

-----------------------------------------------------------------------------
(* The task. *)

(* What TLA+ division is: quotient and remainder.                          *)
LEMMA QuotientRemainder ==
  ASSUME NEW a \in Nat, NEW b \in Nat \ {0}
  PROVE  /\ a \div b \in Nat
         /\ a % b \in 0 .. (b - 1)
         /\ a = b * (a \div b) + (a % b)
  OBVIOUS

(* Products of natural numbers grow with their factors.                    *)
LEMMA ProductGrows ==
  ASSUME NEW a \in Nat, NEW b \in Nat, NEW c \in Nat, a <= b
  PROVE  a * c \in Nat /\ b * c \in Nat /\ a * c <= b * c
  OBVIOUS

(* One share more.                                                         *)
LEMMA ProductPlusOne ==
  ASSUME NEW a \in Nat, NEW c \in Nat
  PROVE  a * c \in Nat /\ (a + 1) * c = a * c + c
  OBVIOUS

(* Where the slice of thread t begins and ends, when n threads share k     *)
(* blocks: the first gets the remainder, so the others begin after it.     *)
LEMMA SliceBounds ==
  ASSUME NEW n \in Nat \ {0}, NEW k \in Nat, n <= k, NEW t \in 0 .. (n - 1)
  PROVE  /\ k \div n \in Nat \ {0} /\ k % n \in Nat
         /\ SliceStart(t, n, k) = IF t = 0 THEN 0 ELSE (k % n) + t * (k \div n)
         /\ SliceStart(t, n, k) + SliceLength(t, n, k) = (k % n) + (t + 1) * (k \div n)
         /\ SliceStart(t, n, k) \in Nat
         /\ SliceLength(t, n, k) \in Nat \ {0}
<1> DEFINE q == k \div n
           r == k % n
<1>1. q \in Nat /\ r \in 0 .. (n - 1) /\ k = n * q + r
  BY QuotientRemainder
<1>2. q # 0
  <2> SUFFICES ASSUME q = 0 PROVE FALSE
    OBVIOUS
  <2>1. n * q = 0
    OBVIOUS
  <2> QED  BY <1>1, <2>1
<1>3. /\ SliceLength(t, n, k) = IF t = 0 THEN q + r ELSE q
      /\ SliceStart(t, n, k) = IF t = 0 THEN 0 ELSE (q + r) + (t - 1) * q
  BY DEF SliceStart, SliceLength
<1>4. t \in Nat
  OBVIOUS
<1>5. t * q \in Nat /\ (t + 1) * q = t * q + q
  BY <1>1, <1>4, ProductPlusOne
<1>6. CASE t = 0
  <2>1. t * q = 0
    BY <1>6, <1>1
  <2> HIDE DEF q, r
  <2>2. /\ SliceStart(t, n, k) = 0
        /\ SliceLength(t, n, k) = q + r
    BY <1>3, <1>6
  <2>3. SliceLength(t, n, k) \in Nat \ {0} /\ SliceStart(t, n, k) \in Nat
    BY <1>1, <1>2, <2>2
  <2>4. SliceStart(t, n, k) + SliceLength(t, n, k) = r + (t + 1) * q
    BY <1>1, <2>1, <2>2, <1>5
  <2>5. SliceStart(t, n, k) = IF t = 0 THEN 0 ELSE r + t * q
    BY <2>2, <1>6
  <2> QED  BY <1>1, <1>2, <2>3, <2>4, <2>5 DEF q, r
<1>7. CASE t # 0
  <2>1. (t - 1) * q \in Nat /\ t * q = (t - 1) * q + q
    <3>1. t - 1 \in Nat /\ (t - 1) + 1 = t
      BY <1>7, <1>4
    <3> HIDE DEF q, r
    <3> QED  BY <3>1, <1>1, ProductPlusOne
  <2> HIDE DEF q, r
  <2>2. SliceStart(t, n, k) = r + t * q /\ SliceLength(t, n, k) = q
    BY <1>1, <1>3, <1>7, <2>1
  <2>3. /\ SliceStart(t, n, k) \in Nat /\ SliceLength(t, n, k) \in Nat \ {0}
        /\ SliceStart(t, n, k) + SliceLength(t, n, k) = r + (t + 1) * q
    BY <1>1, <1>2, <1>5, <2>2
  <2>4. SliceStart(t, n, k) = IF t = 0 THEN 0 ELSE r + t * q
    BY <2>2, <1>7
  <2> QED  BY <1>1, <1>2, <2>3, <2>4 DEF q, r
<1> QED  BY <1>6, <1>7

(* The blocks of the slice of thread t, when the step begins at block c.   *)
SliceBlocks(c, t, n, k) ==
  (c + SliceStart(t, n, k)) .. ((c + SliceStart(t, n, k)) + SliceLength(t, n, k) - 1)

(* The slices of n threads tile the k blocks from c on.                    *)
LEMMA SlicesTile ==
  ASSUME NEW n \in Nat \ {0}, NEW k \in Nat, n <= k, NEW c \in Nat
  PROVE  /\ UNION {SliceBlocks(c, t, n, k) : t \in 0 .. (n - 1)} = c .. (c + k - 1)
         /\ \A t, u \in 0 .. (n - 1) : t # u => SliceBlocks(c, t, n, k) \cap SliceBlocks(c, u, n, k) = {}
         /\ \A t \in 0 .. (n - 1) : SliceBlocks(c, t, n, k) # {}
<1> DEFINE q == k \div n
           r == k % n
           First(t) == SliceStart(t, n, k)
           Past(t)  == SliceStart(t, n, k) + SliceLength(t, n, k)
<1>1. /\ q \in Nat \ {0} /\ r \in Nat
      /\ \A t \in 0 .. (n - 1) :
            /\ First(t) \in Nat /\ Past(t) \in Nat /\ First(t) < Past(t)
            /\ First(t) = IF t = 0 THEN 0 ELSE r + t * q
            /\ Past(t) = r + (t + 1) * q
  <2>1. q \in Nat \ {0} /\ r \in Nat
    BY SliceBounds
  <2>2. ASSUME NEW t \in 0 .. (n - 1)
        PROVE  /\ First(t) \in Nat /\ Past(t) \in Nat /\ First(t) < Past(t)
               /\ First(t) = IF t = 0 THEN 0 ELSE r + t * q
               /\ Past(t) = r + (t + 1) * q
    <3>1. /\ First(t) = IF t = 0 THEN 0 ELSE r + t * q
          /\ Past(t) = r + (t + 1) * q
          /\ First(t) \in Nat /\ SliceLength(t, n, k) \in Nat \ {0}
      BY SliceBounds
    <3> QED  BY <3>1
  <2> QED  BY <2>1, <2>2
<1>2. k = n * q + r /\ r < n
  BY QuotientRemainder
<1>3. \A t \in 0 .. (n - 1) : SliceBlocks(c, t, n, k) = (c + First(t)) .. (c + Past(t) - 1)
  <2> SUFFICES ASSUME NEW t \in 0 .. (n - 1)
               PROVE  (c + First(t)) + SliceLength(t, n, k) - 1 = c + Past(t) - 1
    BY DEF SliceBlocks
  <2>1. First(t) \in Nat /\ SliceLength(t, n, k) \in Nat
    BY SliceBounds
  <2> QED  BY <2>1
<1> HIDE DEF q, r, First, Past
<1>4. ASSUME NEW t \in 0 .. (n - 1), NEW u \in 0 .. (n - 1), t < u
      PROVE  Past(t) <= First(u)
  <2>1. t + 1 \in Nat /\ u \in Nat /\ t + 1 <= u
    BY <1>4
  <2>2. (t + 1) * q \in Nat /\ u * q \in Nat /\ (t + 1) * q <= u * q
    BY <2>1, <1>1, ProductGrows
  <2>3. First(u) = r + u * q /\ Past(t) = r + (t + 1) * q
    BY <1>1, <2>1
  <2> QED  BY <1>1, <2>2, <2>3
<1>5. ASSUME NEW t \in 0 .. (n - 1)
      PROVE  Past(t) <= k
  <2>1. t + 1 \in Nat /\ n \in Nat /\ t + 1 <= n
    OBVIOUS
  <2>2. (t + 1) * q \in Nat /\ n * q \in Nat /\ (t + 1) * q <= n * q
    BY <2>1, <1>1, ProductGrows
  <2> QED  BY <1>1, <1>2, <2>2
<1>6. ASSUME NEW x \in 0 .. (k - 1)
      PROVE  \E t \in 0 .. (n - 1) : First(t) <= x /\ x < Past(t)
  <2>1. CASE x < r + q
    <3>1. 0 \in 0 .. (n - 1) /\ First(0) = 0 /\ Past(0) = r + (0 + 1) * q
      BY <1>1
    <3>2. (0 + 1) * q = q
      BY <1>1
    <3> QED  BY <1>1, <2>1, <3>1, <3>2
  <2>2. CASE ~(x < r + q)
    <3> DEFINE y == x - r
               t == y \div q
    <3>1. y \in Nat /\ q <= y /\ y < n * q
      BY <1>1, <1>2, <2>2
    <3> HIDE DEF y
    <3>2. t \in Nat /\ y % q \in 0 .. (q - 1) /\ y = q * t + (y % q)
      BY <1>1, <3>1, QuotientRemainder
    <3> DEFINE m == y % q
    <3> HIDE DEF t, m
    <3>3. q * t = t * q
      BY <1>1, <3>2
    <3>4. t * q \in Nat /\ (t + 1) * q = t * q + q
      BY <1>1, <3>2, ProductPlusOne
    <3>5. m \in 0 .. (q - 1) /\ y = t * q + m
      BY <3>2, <3>3 DEF m
    <3>6. t * q <= y /\ y < (t + 1) * q
      BY <1>1, <3>4, <3>5
    <3>7. t # 0
      <4> SUFFICES ASSUME t = 0 PROVE FALSE
        OBVIOUS
      <4>1. t * q = 0
        BY <1>1
      <4> QED  BY <1>1, <3>1, <3>5, <4>1
    <3>8. t < n
      <4> SUFFICES ASSUME n <= t PROVE FALSE
        BY <3>2
      <4>1. n * q <= t * q
        BY <1>1, <3>2, ProductGrows
      <4> QED  BY <1>1, <3>1, <3>4, <3>6, <4>1, ProductGrows
    <3>9. t \in 0 .. (n - 1) /\ First(t) = r + t * q /\ Past(t) = r + (t + 1) * q
      BY <1>1, <3>2, <3>7, <3>8
    <3>10. x = r + y
      BY <1>1 DEF y
    <3>11. (t + 1) * q \in Nat
      BY <1>1, <3>4
    <3>12. First(t) <= x /\ x < Past(t)
      BY <1>1, <3>1, <3>4, <3>6, <3>9, <3>10, <3>11
    <3> QED  BY <3>9, <3>12
  <2> QED  BY <2>1, <2>2
<1>7. UNION {SliceBlocks(c, t, n, k) : t \in 0 .. (n - 1)} \subseteq c .. (c + k - 1)
  <2> SUFFICES ASSUME NEW t \in 0 .. (n - 1), NEW l \in (c + First(t)) .. (c + Past(t) - 1)
               PROVE  l \in c .. (c + k - 1)
    BY <1>3
  <2> QED  BY <1>1, <1>5
<1>8. c .. (c + k - 1) \subseteq UNION {SliceBlocks(c, t, n, k) : t \in 0 .. (n - 1)}
  <2> SUFFICES ASSUME NEW l \in c .. (c + k - 1)
               PROVE  \E t \in 0 .. (n - 1) : l \in (c + First(t)) .. (c + Past(t) - 1)
    BY <1>3
  <2>1. l - c \in 0 .. (k - 1)
    OBVIOUS
  <2>2. PICK t \in 0 .. (n - 1) : First(t) <= l - c /\ l - c < Past(t)
    BY <2>1, <1>6
  <2>3. l \in (c + First(t)) .. (c + Past(t) - 1)
    BY <1>1, <2>2
  <2> QED  BY <2>3
<1>9. ASSUME NEW t \in 0 .. (n - 1), NEW u \in 0 .. (n - 1), t < u
      PROVE  SliceBlocks(c, t, n, k) \cap SliceBlocks(c, u, n, k) = {}
  <2>1. Past(t) <= First(u)
    BY <1>4, <1>9
  <2>2. /\ SliceBlocks(c, t, n, k) = (c + First(t)) .. (c + Past(t) - 1)
        /\ SliceBlocks(c, u, n, k) = (c + First(u)) .. (c + Past(u) - 1)
    BY <1>3
  <2>3. Past(t) \in Nat /\ First(u) \in Nat
    BY <1>1
  <2>4. \A l \in Int : ~(l <= c + Past(t) - 1 /\ c + First(u) <= l)
    BY <2>1, <2>3
  <2>5. ASSUME NEW l \in SliceBlocks(c, t, n, k) \cap SliceBlocks(c, u, n, k)
        PROVE  FALSE
    <3>1. l \in Int /\ l <= c + Past(t) - 1 /\ c + First(u) <= l
      BY <2>2, <2>3
    <3> QED  BY <3>1, <2>4
  <2> QED  BY <2>5
<1>10. \A t \in 0 .. (n - 1) : SliceBlocks(c, t, n, k) # {}
  <2> SUFFICES ASSUME NEW t \in 0 .. (n - 1) PROVE (c + First(t)) \in (c + First(t)) .. (c + Past(t) - 1)
    BY <1>3
  <2> QED  BY <1>1
<1>11. \A t, u \in 0 .. (n - 1) : t # u => t < u \/ u < t
  OBVIOUS
<1> QED  BY <1>7, <1>8, <1>9, <1>10, <1>11
-----------------------------------------------------------------------------
(* The threads of a team are numbered from 0, and there are at most as     *)
(* many as the step has blocks.                                            *)
LEMMA TeamInterval ==
  ASSUME TaskTypeOK
  PROVE  /\ Team \subseteq Nat
         /\ Cardinality(Team) \in Nat \ {0}
         /\ Cardinality(Team) <= nlba + 1
         /\ Team = 0 .. (Cardinality(Team) - 1)
<1>1. nlba \in Nat /\ asked \in ConfigRec
  BY WrcAssumption DEF TaskTypeOK
<1>2. ThreadConfig.nthreads \in Nat
  BY <1>1 DEF ThreadConfig, ConfigRec
<1> DEFINE m == IF ThreadConfig.nthreads = 0 THEN 0 ELSE LesserOf(ThreadConfig.nthreads, nlba)
<1>3. m \in Nat /\ m <= nlba
  BY <1>1, <1>2 DEF LesserOf
<1>4. Team = 0 .. m
  <2>1. CASE ThreadConfig.nthreads = 0
    <3>1. Team = {0} /\ m = 0
      BY <2>1 DEF Team, Threads
    <3>2. {0} = 0 .. 0
      OBVIOUS
    <3> QED  BY <3>1, <3>2
  <2>2. CASE ThreadConfig.nthreads # 0
    BY <2>2 DEF Team, Threads
  <2> QED  BY <2>1, <2>2
<1> HIDE DEF m
<1>5. Cardinality(0 .. m) = m + 1
  <2>1. 0 \in Int /\ m \in Int /\ ~(0 > m)
    BY <1>3
  <2>2. Cardinality(0 .. m) = IF 0 > m THEN 0 ELSE m - 0 + 1
    BY <2>1, FS_Interval
  <2> QED  BY <2>1, <2>2
<1> QED  BY <1>1, <1>3, <1>4, <1>5

(* While the threads of an operation exist, the worker waits for them, in  *)
(* a step that goes on with that operation; and they are the whole team.   *)
TeamAtWork ==
  io # <<>> =>
    /\ worker = "exec"
    /\ DOMAIN io = Team
    /\ todo # <<>>
    /\ Head(todo) \in {"write", "read"}

TaskInv == TaskTypeOK /\ TeamAtWork

(* The invariant gives the property of the runs.                           *)
LEMMA TaskInvShares == TaskInv => TeamSharesStep
<1> SUFFICES ASSUME TaskTypeOK, TeamAtWork, io # <<>>
             PROVE  /\ UNION {Slice(t) : t \in DOMAIN io} = Step
                    /\ \A t, u \in DOMAIN io : t # u => Slice(t) \cap Slice(u) = {}
                    /\ \A t \in DOMAIN io : Slice(t) # {}
  BY DEF TaskInv, TeamSharesStep
<1> DEFINE n == Cardinality(Team)
           k == nlba + 1
<1>1. DOMAIN io = 0 .. (n - 1) /\ n \in Nat \ {0} /\ n <= k
  BY TeamInterval DEF TeamAtWork
<1>2. cur \in Nat /\ nlba \in Nat
  BY WrcAssumption DEF TaskTypeOK
<1>3. \A t : Slice(t) = SliceBlocks(cur, t, n, k)
  BY DEF Slice, SliceBlocks
<1>4. Step = cur .. (cur + k - 1)
  BY <1>2 DEF Step
<1>5. k \in Nat
  BY <1>2
<1> HIDE DEF n, k
<1>6. /\ UNION {SliceBlocks(cur, t, n, k) : t \in 0 .. (n - 1)} = cur .. (cur + k - 1)
      /\ \A t, u \in 0 .. (n - 1) : t # u => SliceBlocks(cur, t, n, k) \cap SliceBlocks(cur, u, n, k) = {}
      /\ \A t \in 0 .. (n - 1) : SliceBlocks(cur, t, n, k) # {}
  BY <1>1, <1>2, <1>5, SlicesTile
<1> HIDE DEF SliceBlocks
<1>7. {Slice(t) : t \in DOMAIN io} = {SliceBlocks(cur, t, n, k) : t \in 0 .. (n - 1)}
  BY <1>1, <1>3
<1>8. UNION {Slice(t) : t \in DOMAIN io} = Step
  BY <1>4, <1>6, <1>7
<1> QED  BY <1>1, <1>3, <1>6, <1>8
-----------------------------------------------------------------------------
(* A constructed task is type correct.                                     *)
LEMMA TasksTyped ==
  ASSUME NEW c \in Configs
  PROVE  LET t == IF c.tt = "sweepNLB" THEN SweepTask(c) ELSE PlainTask(c)
         IN /\ t.slba \in Nat /\ t.elba \in Nat /\ t.step \in Nat /\ t.sweepEnd \in Nat
            /\ t.cur \subseteq Nat /\ t.fail \in BOOLEAN
<1>1. c.slba \in Nat /\ c.elba \in Nat /\ c.nblocksPerStep \in Nat
  BY WrcAssumption DEF ConfigRec
<1>2. MaxLba \in Nat /\ c.elba % NlbWord \in Nat
  BY <1>1, WrcAssumption
<1>3. CASE c.tt = "sweepNLB"
  <2>1. LesserOf(MaxLba, c.elba % NlbWord) \in Nat
    BY <1>2 DEF LesserOf
  <2>2. /\ SweepTask(c).slba \in Nat /\ SweepTask(c).elba \in Nat /\ SweepTask(c).step \in Nat
        /\ SweepTask(c).sweepEnd \in Nat /\ SweepTask(c).cur \subseteq Nat
        /\ SweepTask(c).fail \in BOOLEAN
    BY <1>1, <1>2, <2>1 DEF SweepTask, Disk
  <2> QED  BY <1>3, <2>2
<1>4. CASE c.tt # "sweepNLB"
  <2>1. /\ PlainTask(c).slba \in Nat /\ PlainTask(c).elba \in Nat /\ PlainTask(c).step \in Nat
        /\ PlainTask(c).sweepEnd \in Nat /\ PlainTask(c).cur \subseteq Nat
        /\ PlainTask(c).fail \in BOOLEAN
    BY <1>1, <1>2 DEF PlainTask
  <2> QED  BY <1>4, <2>1
<1> QED  BY <1>3, <1>4

(* The invariant holds at first.                                           *)
LEMMA TaskInvInit == TaskInit => TaskInv
<1> SUFFICES ASSUME TaskInit PROVE TaskTypeOK /\ TeamAtWork
  BY DEF TaskInv
<1>1. asked \in Configs
  BY WrcAssumption DEF TaskInit
<1>2. nlba \in 0 .. (NlbWord - 1)
  BY WrcAssumption DEF TaskInit
<1>3. wbuf \in Value /\ rbuf \in [Disk -> Value] /\ disk \in [Disk -> Value]
  BY DEF TaskInit, Value
<1>4. DOMAIN io \subseteq Nat /\ \A t \in DOMAIN io : io[t] \in {"busy", "ok", "failed"}
  <2>1. DOMAIN io = {}
    BY DEF TaskInit
  <2> QED  BY <2>1
<1>5. todo \in Seq({"pattern", "write", "read", "compare", "check"})
  BY DEF TaskInit
<1>6. TaskTypeOK
  BY <1>1, <1>2, <1>3, <1>4, <1>5 DEF TaskInit, TaskTypeOK
<1> QED  BY <1>6 DEF TaskInit, TeamAtWork

(* The actions of run() outside exec() preserve the invariant.             *)
LEMMA RunKeepsInv ==
  ASSUME TaskInv,
         \/ StartStep \/ LeaveLoop \/ Report \/ Settle \/ StopTask \/ EnableTermination
         \/ MarkFilled \/ StartAgain \/ SweepNext \/ ContinuePass
  PROVE  TaskInv'
<1> USE DEF TaskInv, configVars, resultVars, bufferVars
<1>0. TaskTypeOK /\ TeamAtWork
  OBVIOUS
<1>1. CASE StartStep
  <2>1. nlba' \in 0 .. (NlbWord - 1)
    <3>1. cur \in Nat /\ elba \in Nat /\ step \in Nat /\ cur < elba
      BY <1>0, <1>1 DEF TaskTypeOK, StartStep
    <3>2. (IF cur + step + 1 > elba THEN elba - cur - 1 ELSE step) \in Nat
      BY <3>1
    <3> QED  BY <1>1, <3>2, WrcAssumption DEF StartStep, StepBlocks
  <2> QED  BY <1>0, <1>1, <2>1 DEF StartStep, TaskTypeOK, TeamAtWork
<1>2. CASE LeaveLoop
  BY <1>0, <1>2 DEF LeaveLoop, TaskTypeOK, TeamAtWork
<1>3. CASE Report
  BY <1>0, <1>3 DEF Report, TestLock, SetLock, AppendLog, WorkerIn, TaskTypeOK, TeamAtWork
<1>4. CASE Settle
  <2>1. cur' \in Nat
    BY <1>0, <1>4, WrcAssumption DEF Settle, TaskTypeOK
  <2> QED  BY <1>0, <1>4, <2>1 DEF Settle, TaskTypeOK, TeamAtWork
<1>5. CASE StopTask
  BY <1>0, <1>5 DEF StopTask, TaskTypeOK, TeamAtWork
<1>6. CASE EnableTermination
  BY <1>0, <1>6 DEF EnableTermination, TaskTypeOK, TeamAtWork
<1>7. CASE MarkFilled
  BY <1>0, <1>7 DEF MarkFilled, TaskTypeOK, TeamAtWork
<1>8. CASE StartAgain
  BY <1>0, <1>8 DEF StartAgain, TaskTypeOK, TeamAtWork
<1>9. CASE SweepNext
  BY <1>0, <1>9 DEF SweepNext, TaskTypeOK, TeamAtWork
<1>10. CASE ContinuePass
  BY <1>0, <1>10 DEF ContinuePass, TaskTypeOK, TeamAtWork
<1> QED  BY <1>1, <1>2, <1>3, <1>4, <1>5, <1>6, <1>7, <1>8, <1>9, <1>10

(* So do the actions of exec().                                            *)
LEMMA ExecKeepsInv ==
  ASSUME TaskInv,
         DisableTermination \/ FillPattern \/ StartTeam \/ JoinTeam \/ Compare \/ EndExec
  PROVE  TaskInv'
<1> USE DEF TaskInv, configVars, resultVars, bufferVars
<1>0. TaskTypeOK /\ TeamAtWork
  OBVIOUS
<1>1. CASE DisableTermination
  <2>1. Operations \in Seq({"pattern", "write", "read", "compare", "check"})
    <3> DEFINE S == {"pattern", "write", "read", "compare", "check"}
    <3>1. /\ <<"pattern", "write", "read", "compare">> \in Seq(S)
          /\ <<"read", "check">> \in Seq(S)
          /\ <<"write">> \in Seq(S)
      OBVIOUS
    <3>2. <<"read", "check">> \o <<"pattern", "write", "read", "compare">> \in Seq(S)
      BY <3>1
    <3>3. \/ Operations = <<"pattern", "write", "read", "compare">>
          \/ Operations = <<"read", "check">> \o <<"pattern", "write", "read", "compare">>
          \/ Operations = <<"write">>
      BY Zenon DEF Operations
    <3> QED  BY <3>1, <3>2, <3>3, Zenon
  <2>2. wbuf' \in Value /\ rbuf' \in [Disk -> Value]
    BY <1>1 DEF DisableTermination, Value
  <2> QED  BY <1>0, <1>1, <2>1, <2>2 DEF DisableTermination, TaskTypeOK, TeamAtWork
<1>2. CASE FillPattern
  <2>1. io = <<>>
    BY <1>0, <1>2 DEF FillPattern, ToDo, TeamAtWork
  <2>2. wbuf' \in Value /\ todo' \in Seq({"pattern", "write", "read", "compare", "check"})
    BY <1>0, <1>2 DEF FillPattern, ToDo, TaskTypeOK, Value
  <2> QED  BY <1>0, <1>2, <2>1, <2>2 DEF FillPattern, TaskTypeOK, TeamAtWork
<1>3. CASE StartTeam
  <2>1. Team \subseteq Nat
    BY <1>0, TeamInterval
  <2>2. DOMAIN io' = Team /\ \A t \in Team : io'[t] = "busy"
    BY <1>3 DEF StartTeam
  <2>3. TaskTypeOK'
    BY <1>0, <1>3, <2>1, <2>2 DEF StartTeam, TaskTypeOK
  <2>4. Team' = Team
    BY <1>3 DEF StartTeam, Team, Threads, ThreadConfig
  <2>5. TeamAtWork'
    BY <1>3, <2>2, <2>4 DEF StartTeam, ToDo, TeamAtWork
  <2> QED  BY <2>3, <2>5
<1>4. CASE JoinTeam
  <2>1. todo # <<>>
    BY <1>0, <1>4 DEF JoinTeam, TeamAtWork
  <2>2. todo' \in Seq({"pattern", "write", "read", "compare", "check"})
    BY <1>0, <1>4, <2>1 DEF JoinTeam, TaskTypeOK
  <2> QED  BY <1>0, <1>4, <2>2 DEF JoinTeam, TaskTypeOK, TeamAtWork
<1>5. CASE Compare
  <2>1. io = <<>>
    BY <1>0, <1>5 DEF Compare, ToDo, TeamAtWork
  <2>2. ret' \in {0, -1} /\ todo' \in Seq({"pattern", "write", "read", "compare", "check"})
    BY <1>0, <1>5 DEF Compare, ToDo, TaskTypeOK
  <2> QED  BY <1>0, <1>5, <2>1, <2>2 DEF Compare, TaskTypeOK, TeamAtWork
<1>6. CASE EndExec
  BY <1>0, <1>6 DEF EndExec, TaskTypeOK, TeamAtWork
<1> QED  BY <1>1, <1>2, <1>3, <1>4, <1>5, <1>6

(* So do the threads of a team ...                                         *)
LEMMA ThreadKeepsInv ==
  ASSUME TaskInv, NEW t \in DOMAIN io, NVMeIOTask(t)
  PROVE  TaskInv'
<1> USE DEF TaskInv, configVars, resultVars, bufferVars
<1>0. TaskTypeOK /\ TeamAtWork /\ io # <<>>
  OBVIOUS
<1>1. rbuf' \in [Disk -> Value] /\ disk' \in [Disk -> Value]
  BY <1>0 DEF NVMeIOTask, TransferredOk, TaskTypeOK, Value
<1>2. /\ DOMAIN io' = DOMAIN io
      /\ \A u \in DOMAIN io : io'[u] \in {"busy", "ok", "failed"}
  BY <1>0 DEF NVMeIOTask, TaskTypeOK
<1>3. TaskTypeOK'
  BY <1>0, <1>1, <1>2 DEF NVMeIOTask, TaskTypeOK
<1>4. Team' = Team
  BY DEF NVMeIOTask, Team, Threads, ThreadConfig
<1>5. TeamAtWork'
  BY <1>0, <1>2, <1>4 DEF NVMeIOTask, TeamAtWork
<1> QED  BY <1>3, <1>5

(* ... and the construction of a task.                                     *)
LEMMA ConstructKeepsInv ==
  ASSUME TaskInv, NEW c \in Configs, Construct(c)
  PROVE  TaskInv'
<1> USE DEF TaskInv, configVars, resultVars, bufferVars
<1> DEFINE t == IF c.tt = "sweepNLB" THEN SweepTask(c) ELSE PlainTask(c)
<1>1. /\ t.slba \in Nat /\ t.elba \in Nat /\ t.step \in Nat /\ t.sweepEnd \in Nat
      /\ t.cur \subseteq Nat /\ t.fail \in BOOLEAN
  BY TasksTyped
<1>2. /\ asked' = c /\ slba' = t.slba /\ elba' = t.elba /\ step' = t.step
      /\ sweepEnd' = t.sweepEnd /\ cur' \in t.cur /\ testFail' = t.fail
  BY DEF Construct
<1> HIDE DEF t
<1>3. TaskTypeOK'
  <2>1. /\ asked' \in Configs /\ slba' \in Nat /\ elba' \in Nat /\ step' \in Nat
        /\ sweepEnd' \in Nat /\ cur' \in Nat /\ testFail' \in BOOLEAN
    BY <1>1, <1>2
  <2>2. /\ io' = <<>> /\ filled' = FALSE /\ locked' = FALSE /\ enabled' = TRUE /\ worker' = "loop"
        /\ UNCHANGED <<nlba, todo, ret, wbuf, rbuf, disk, after, skip>>
    BY DEF Construct
  <2>3. DOMAIN io' \subseteq Nat /\ \A u \in DOMAIN io' : io'[u] \in {"busy", "ok", "failed"}
    <3>1. DOMAIN io' = {}
      BY <2>2
    <3> QED  BY <3>1
  <2> QED  BY <2>1, <2>2, <2>3 DEF TaskTypeOK
<1>4. TeamAtWork'
  BY DEF Construct, TeamAtWork
<1> QED  BY <1>3, <1>4

(* Every step of a task and its threads preserves the invariant.           *)
LEMMA TaskInvStep == TaskInv /\ [TaskNext]_taskVars => TaskInv'
<1> SUFFICES ASSUME TaskInv, [TaskNext]_taskVars PROVE TaskInv'
  OBVIOUS
<1>1. CASE \E c \in Configs : Construct(c)
  BY <1>1, ConstructKeepsInv
<1>2. CASE Run
  BY <1>2, RunKeepsInv, ExecKeepsInv DEF Run
<1>3. CASE \E t \in DOMAIN io : NVMeIOTask(t)
  BY <1>3, ThreadKeepsInv
<1>4. CASE UNCHANGED taskVars
  <2>1. Team' = Team
    BY <1>4 DEF taskVars, configVars, Team, Threads, ThreadConfig
  <2> QED
    BY <1>4, <2>1 DEF TaskInv, TaskTypeOK, TeamAtWork, taskVars, configVars, resultVars, bufferVars
<1> QED  BY <1>1, <1>2, <1>3, <1>4 DEF TaskNext, Threaded

(* Theorem: the state of a task keeps its types, for every configuration   *)
(* and device; in particular no block number and no length goes below      *)
(* zero, and nlba keeps its width.                                         *)
THEOREM TaskTypeCorrect == TaskSpec => []TaskTypeOK
<1>1. TaskInv => TaskTypeOK
  BY DEF TaskInv
<1> QED  BY <1>1, TaskInvInit, TaskInvStep, PTL DEF TaskSpec

(* Theorem: whatever the range, the length of a step and the number of     *)
(* threads, the commands in flight together share the step's blocks out    *)
(* without gap or overlap, and each has a block to transfer.               *)
THEOREM TeamSharing == TaskSpec => []TeamSharesStep
BY TaskInvInit, TaskInvStep, TaskInvShares, PTL DEF TaskSpec
-----------------------------------------------------------------------------
(* What a w1r1c1 or march test has done so far.  The step in work lies     *)
(* inside the range, which is the one asked for unless the test is to fail *)
(* from the start; a test that fails has nothing left to do.               *)
Ranged == asked.tt # "sweepNLB" /\ worker # "none"
InStep == worker \in {"report", "lock", "append", "disable", "exec", "settle"}
Executing == worker \in {"exec", "settle"} \/ (worker \in {"report", "lock", "append"} /\ after # "disable")

RangeInv ==
  Ranged =>
    /\ slba = asked.slba /\ slba <= cur /\ cur <= elba
    /\ ~testFail => elba = asked.elba + 1 /\ elba <= MaxLba + 1
    /\ testFail \/ worker \in {"stop", "again", "finished"} => cur = elba
    /\ InStep => cur + nlba + 1 <= elba

(* The first pass of a march test fills, the second tests.                 *)
PassInv ==
  Ranged =>
    /\ filled => asked.tt = "march"
    /\ worker = "again" => filled /\ ~testFail
    /\ worker \in {"loop", "finished"} /\ ~testFail /\ asked.tt = "march" /\ ~filled =>
         cur < elba \/ slba = elba

Tests == asked.tt = "w1r1c1" \/ filled

(* What exec() has still to do, and what the buffers hold by then: the     *)
(* pattern is in the write buffer before the write, and what is read back  *)
(* as the pattern is the pattern on the device.                            *)
ToCompare == <<"compare">>
ToRead    == <<"read", "compare">>
ToWrite   == <<"write", "read", "compare">>
ToFill    == <<"pattern", "write", "read", "compare">>
ToCheck   == <<"check", "pattern", "write", "read", "compare">>
ToReread  == <<"read", "check", "pattern", "write", "read", "compare">>

ExecInv ==
  Ranged /\ ~skip /\ Executing =>
    /\ ret # 0 \/ worker = "settle" \/ (worker # "exec" /\ after = "settle") => todo = <<>>
    /\ Tests => todo \in {ToReread, ToCheck, ToFill, ToWrite, ToRead, ToCompare, <<>>}
    /\ todo \in {ToWrite, ToRead, ToCompare} => wbuf = "test"
    /\ ~Tests => todo \in {<<"write">>, <<>>} /\ \A l \in Disk : rbuf[l] = "junk"
    /\ \A l \in Disk : rbuf[l] = "test" => disk[l] = "test"
    /\ Tests /\ todo = <<>> /\ ret = 0 => \A l \in Step : disk[l] = "test"

(* The blocks a test has gone past hold its pattern, but for the moments   *)
(* between the two assignments of a failure and of a new pass.             *)
TestedInv ==
  Ranged /\ ~skip /\ Tests /\ ~testFail /\ worker \notin {"stop", "again", "killed"} =>
    \A l \in slba .. (cur - 1) : disk[l] = "test"

TestInv == RangeInv /\ PassInv /\ ExecInv /\ TestedInv

(* A sweep has a length in work, from block 0 on, or has reached the end   *)
(* of the length before.                                                   *)
SweepInv ==
  asked.tt = "sweepNLB" /\ worker # "none" =>
    /\ worker # "again" /\ sweepEnd \in 1 .. NlbWord /\ asked.slba <= step
    /\ asked.slba < sweepEnd =>
         /\ cur = elba \/ (cur = 0 /\ elba = step + 1 /\ step < sweepEnd)
         /\ InStep => cur = 0 /\ elba = step + 1 /\ step < sweepEnd /\ nlba = step

(* All of it holds before a task is made.                                  *)
LEMMA TestInit == TaskInit => TestInv /\ SweepInv
BY DEF TaskInit, TestInv, Ranged, RangeInv, PassInv, ExecInv, TestedInv, SweepInv

(* A constructed test has its range ahead of it, or has failed.            *)
LEMMA TestConstruct ==
  ASSUME NEW c \in Configs, Construct(c)
  PROVE  TestInv'
<1>1. c \in ConfigRec /\ MaxLba \in Nat
  BY WrcAssumption
<1>2. /\ asked' = c /\ worker' = "loop" /\ filled' = FALSE
      /\ LET t == IF c.tt = "sweepNLB" THEN SweepTask(c) ELSE PlainTask(c) IN
         slba' = t.slba /\ elba' = t.elba /\ cur' \in t.cur /\ testFail' = t.fail
  BY DEF Construct
<1> SUFFICES ASSUME c.tt # "sweepNLB" PROVE TestInv'
  BY <1>2 DEF TestInv, RangeInv, PassInv, ExecInv, TestedInv, Ranged
<1>3. /\ slba' = c.slba /\ slba' <= cur' /\ cur' <= elba'
      /\ ~testFail' => elba' = c.elba + 1 /\ elba' <= MaxLba + 1
      /\ testFail' => cur' = elba'
      /\ ~testFail' => cur' = slba'
      /\ slba' \in Nat /\ cur' \in Nat /\ elba' \in Nat
  <2>1. /\ c.slba \in Nat /\ c.elba \in Nat
    BY <1>1 DEF ConfigRec
  <2> DEFINE t == PlainTask(c)
             last == IF c.elba + 1 < c.slba THEN c.slba ELSE c.elba + 1
             bad == c.elba + 1 < c.slba \/ last > MaxLba + 1
  <2>2. slba' = t.slba /\ elba' = t.elba /\ cur' \in t.cur /\ testFail' = t.fail
    BY <1>2
  <2>3. /\ t.slba = c.slba /\ t.elba = last /\ t.fail = bad
        /\ t.cur = {IF bad THEN last ELSE c.slba}
    BY DEF PlainTask
  <2> HIDE DEF t
  <2>4. /\ slba' = c.slba /\ elba' = last /\ cur' = (IF bad THEN last ELSE c.slba)
        /\ testFail' = bad
    BY <2>2, <2>3
  <2>5. last \in Nat /\ c.slba <= last /\ (~bad => last = c.elba + 1 /\ last <= MaxLba + 1)
    BY <1>1, <2>1
  <2> HIDE DEF bad, last
  <2>6. (testFail' => bad) /\ (bad => testFail')
    BY <2>4, Zenon
  <2>7. slba' = c.slba /\ elba' = last /\ cur' = (IF bad THEN last ELSE c.slba)
    BY <2>4
  <2> QED  BY <2>1, <2>5, <2>6, <2>7
<1>4. RangeInv'
  BY <1>2, <1>3 DEF RangeInv, InStep
<1>5. PassInv'
  BY <1>2, <1>3 DEF PassInv
<1>6. ExecInv'
  BY <1>2 DEF ExecInv, Executing
<1>7. TestedInv'
  <2>1. ~testFail' => slba' .. (cur' - 1) = {}
    BY <1>3
  <2> QED  BY <2>1 DEF TestedInv
<1> QED  BY <1>4, <1>5, <1>6, <1>7 DEF TestInv

(* A remainder is no larger than what was divided.                         *)
LEMMA RemainderBound ==
  ASSUME NEW a \in Nat, NEW b \in Nat \ {0}
  PROVE  a % b \in Nat /\ a % b <= a
<1>1. a \div b \in Nat /\ a % b \in 0 .. (b - 1) /\ a = b * (a \div b) + (a % b)
  BY QuotientRemainder
<1> DEFINE m == b * (a \div b)
<1>2. m \in Nat
  BY <1>1
<1> HIDE DEF m
<1>3. a = m + (a % b)
  BY <1>1 DEF m
<1> QED  BY <1>1, <1>2, <1>3

(* The last step of a range is clipped to it.                              *)
LEMMA StepClipped ==
  ASSUME cur \in Nat, elba \in Nat, step \in Nat, cur < elba
  PROVE  StepBlocks \in Nat /\ cur + StepBlocks + 1 <= elba
<1> DEFINE n == IF cur + step + 1 > elba THEN elba - cur - 1 ELSE step
<1>1. n \in Nat /\ cur + n + 1 <= elba
  OBVIOUS
<1> HIDE DEF n
<1>2. n % NlbWord \in Nat /\ n % NlbWord <= n
  BY <1>1, WrcAssumption, RemainderBound
<1>3. StepBlocks = n % NlbWord
  BY DEF StepBlocks, n
<1> QED  BY <1>1, <1>2, <1>3

(* The range: the steps of the worker that touch it.                       *)
LEMMA RangeStep ==
  ASSUME TaskInv, RangeInv, PassInv, Ranged, Threaded
  PROVE  RangeInv'
<1> USE DEF RangeInv, Ranged, InStep, configVars, resultVars, bufferVars
<1>0. slba \in Nat /\ cur \in Nat /\ elba \in Nat /\ step \in Nat /\ nlba \in Nat
  BY WrcAssumption DEF TaskInv, TaskTypeOK
<1>1. CASE StartStep
  <2>1. cur < elba /\ nlba' = StepBlocks
    BY <1>1 DEF StartStep
  <2>2. cur + nlba' + 1 <= elba
    BY <1>0, <2>1, StepClipped
  <2> QED  BY <1>0, <1>1, <2>1, <2>2 DEF StartStep
<1>2. CASE LeaveLoop
  BY <1>0, <1>2 DEF LeaveLoop
<1>3. CASE Report
  BY <1>3 DEF Report, TestLock, SetLock, AppendLog, WorkerIn, TaskInv, TaskTypeOK
<1>4. CASE DisableTermination
  BY <1>4 DEF DisableTermination
<1>5. CASE Settle
  BY <1>0, <1>5 DEF Settle
<1>6. CASE StopTask
  BY <1>6 DEF StopTask
<1>7. CASE EnableTermination
  BY <1>7 DEF EnableTermination
<1>8. CASE MarkFilled
  BY <1>8 DEF MarkFilled, PassDone
<1>9. CASE StartAgain
  BY <1>0, <1>9 DEF StartAgain, PassInv
<1>10. CASE SweepNext
  BY <1>10 DEF SweepNext
<1>11. CASE ContinuePass
  BY <1>11 DEF ContinuePass
<1>12. CASE FillPattern \/ StartTeam \/ Compare \/ EndExec
  BY <1>12 DEF FillPattern, StartTeam, Compare, EndExec, ToDo
<1>13. CASE JoinTeam
  BY <1>13 DEF JoinTeam
<1>14. CASE \E t \in DOMAIN io : NVMeIOTask(t)
  BY <1>14 DEF NVMeIOTask
<1> QED
  BY <1>1, <1>2, <1>3, <1>4, <1>5, <1>6, <1>7, <1>8, <1>9, <1>10, <1>11, <1>12, <1>13, <1>14
  DEF Threaded, Run

(* The passes of a march test.                                             *)
LEMMA PassStep ==
  ASSUME TaskInv, RangeInv, PassInv, Ranged, Threaded
  PROVE  PassInv'
<1> USE DEF PassInv, Ranged, configVars, resultVars, bufferVars
<1>0. /\ slba \in Nat /\ cur \in Nat /\ elba \in Nat /\ cur <= elba
      /\ worker \in {"pass", "again"} => worker # "loop"
      /\ after \in {"disable", "exec", "settle"}
      /\ asked.tt \in {"w1r1c1", "march"}
  BY WrcAssumption DEF TaskInv, TaskTypeOK, RangeInv, ConfigRec
<1>1. CASE StartStep \/ DisableTermination \/ Settle \/ StopTask \/ EnableTermination
  BY <1>1 DEF StartStep, DisableTermination, Settle, StopTask, EnableTermination
<1>2. CASE LeaveLoop
  BY <1>0, <1>2 DEF LeaveLoop
<1>3. CASE Report
  BY <1>0, <1>3 DEF Report, TestLock, SetLock, AppendLog, WorkerIn
<1>4. CASE MarkFilled
  BY <1>4 DEF MarkFilled, PassDone
<1>5. CASE StartAgain
  BY <1>5 DEF StartAgain
<1>6. CASE SweepNext
  BY <1>6 DEF SweepNext
<1>7. CASE ContinuePass
  BY <1>0, <1>7 DEF ContinuePass, PassDone
<1>8. CASE FillPattern \/ StartTeam \/ Compare \/ EndExec
  BY <1>8 DEF FillPattern, StartTeam, Compare, EndExec, ToDo
<1>9. CASE JoinTeam
  BY <1>9 DEF JoinTeam
<1>10. CASE \E t \in DOMAIN io : NVMeIOTask(t)
  BY <1>10 DEF NVMeIOTask
<1> QED
  BY <1>1, <1>2, <1>3, <1>4, <1>5, <1>6, <1>7, <1>8, <1>9, <1>10 DEF Threaded, Run

(* How the operations of a step follow each other.                         *)
LEMMA OperationOrder ==
  /\ ToReread # <<>> /\ Head(ToReread) = "read" /\ Tail(ToReread) = ToCheck
  /\ ToCheck # <<>> /\ Head(ToCheck) = "check" /\ Tail(ToCheck) = ToFill
  /\ ToFill # <<>> /\ Head(ToFill) = "pattern" /\ Tail(ToFill) = ToWrite
  /\ ToWrite # <<>> /\ Head(ToWrite) = "write" /\ Tail(ToWrite) = ToRead
  /\ ToRead # <<>> /\ Head(ToRead) = "read" /\ Tail(ToRead) = ToCompare
  /\ ToCompare # <<>> /\ Head(ToCompare) = "compare" /\ Tail(ToCompare) = <<>>
  /\ <<"write">> # <<>> /\ Head(<<"write">>) = "write" /\ Tail(<<"write">>) = <<>>
BY DEF ToReread, ToCheck, ToFill, ToWrite, ToRead, ToCompare

(* What a step of a w1r1c1 or march test consists of.                      *)
LEMMA OperationsOf ==
  ASSUME asked.tt \in {"w1r1c1", "march"}, filled => asked.tt = "march"
  PROVE  Operations = IF ~Tests THEN <<"write">> ELSE IF filled THEN ToReread ELSE ToFill
<1>1. <<"read", "check">> \o <<"pattern", "write", "read", "compare">> = ToReread
  <2> DEFINE s == <<"read", "check">>
             t == <<"pattern", "write", "read", "compare">>
             S == {"read", "check", "pattern", "write", "compare"}
  <2>1. s \in Seq(S) /\ t \in Seq(S) /\ Len(s) = 2 /\ Len(t) = 4
    OBVIOUS
  <2>2. /\ s \o t \in Seq(S) /\ Len(s \o t) = 6
        /\ \A i \in 1 .. 6 : (s \o t)[i] = IF i <= 2 THEN s[i] ELSE t[i - 2]
    <3> HIDE DEF s, t, S
    <3>1. /\ s \o t \in Seq(S) /\ Len(s \o t) = Len(s) + Len(t)
          /\ \A i \in 1 .. Len(s) + Len(t) : (s \o t)[i] = IF i <= Len(s) THEN s[i] ELSE t[i - Len(s)]
      BY <2>1, ConcatProperties
    <3> QED  BY <2>1, <3>1
  <2>3. \A i \in 1 .. 6 : (s \o t)[i] = ToReread[i]
    <3>1. \A i \in 1 .. 6 : i = 1 \/ i = 2 \/ i = 3 \/ i = 4 \/ i = 5 \/ i = 6
      OBVIOUS
    <3>2. /\ s[1] = "read" /\ s[2] = "check"
          /\ t[1] = "pattern" /\ t[2] = "write" /\ t[3] = "read" /\ t[4] = "compare"
      OBVIOUS
    <3>3. /\ ToReread[1] = "read" /\ ToReread[2] = "check" /\ ToReread[3] = "pattern"
          /\ ToReread[4] = "write" /\ ToReread[5] = "read" /\ ToReread[6] = "compare"
      BY DEF ToReread
    <3> HIDE DEF s, t
    <3>4. /\ (s \o t)[1] = s[1] /\ (s \o t)[2] = s[2] /\ (s \o t)[3] = t[1]
          /\ (s \o t)[4] = t[2] /\ (s \o t)[5] = t[3] /\ (s \o t)[6] = t[4]
      BY <2>2
    <3> QED  BY <3>1, <3>2, <3>3, <3>4
  <2>4. ToReread \in Seq(S) /\ Len(ToReread) = 6
    BY DEF ToReread
  <2> HIDE DEF s, t, S
  <2>5. s \o t = ToReread
    BY <2>2, <2>3, <2>4, SeqEqual
  <2> QED  BY <2>5 DEF s, t
<1> QED  BY <1>1 DEF Operations, Tests, ToFill

(* What exec() has established, by the steps around it: they leave it, or  *)
(* begin it with fresh buffers.                                            *)
LEMMA ExecAround ==
  ASSUME TaskInv, PassInv, ExecInv, Ranged, ~skip,
         \/ StartStep \/ LeaveLoop \/ Report \/ Settle \/ StopTask \/ EnableTermination
         \/ MarkFilled \/ StartAgain \/ SweepNext \/ ContinuePass \/ DisableTermination
  PROVE  ExecInv'
<1> USE DEF Ranged, Executing, configVars, resultVars, bufferVars
<1>0. after \in {"disable", "exec", "settle"} /\ asked.tt \in {"w1r1c1", "march", "sweepNLB"}
  BY WrcAssumption DEF TaskInv, TaskTypeOK, ConfigRec
<1>1. CASE \/ StartStep \/ LeaveLoop \/ Settle \/ StopTask \/ EnableTermination
           \/ MarkFilled \/ StartAgain \/ SweepNext \/ ContinuePass
  BY <1>1 DEF StartStep, LeaveLoop, Settle, StopTask, EnableTermination, MarkFilled,
              StartAgain, SweepNext, ContinuePass, ExecInv
<1>2. CASE Report
  BY <1>0, <1>2 DEF Report, TestLock, SetLock, AppendLog, WorkerIn, ExecInv, Tests, Step
<1>3. CASE DisableTermination
  <2>1. /\ worker' = "exec" /\ todo' = Operations /\ ret' = 0
        /\ rbuf' = [l \in Disk |-> "junk"]
        /\ UNCHANGED <<asked, filled, disk>>
    BY <1>3 DEF DisableTermination
  <2>2. Operations = IF ~Tests THEN <<"write">> ELSE IF filled THEN ToReread ELSE ToFill
    BY <1>0, OperationsOf DEF PassInv
  <2>3. /\ ToReread # <<>> /\ ToFill # <<>>
        /\ ToReread \notin {ToWrite, ToRead, ToCompare}
        /\ ToFill \notin {ToWrite, ToRead, ToCompare}
        /\ <<"write">> \notin {ToWrite, ToRead, ToCompare}
    BY DEF ToReread, ToFill, ToWrite, ToRead, ToCompare
  <2>4. Tests' <=> Tests
    BY <2>1 DEF Tests
  <2> HIDE DEF Executing
  <2> QED  BY <2>1, <2>2, <2>3, <2>4 DEF ExecInv
<1> QED  BY <1>1, <1>2, <1>3

(* In a test, the operation to come tells which are left ...               *)
LEMMA HeadTells ==
  ASSUME todo \in {ToReread, ToCheck, ToFill, ToWrite, ToRead, ToCompare, <<>>}, todo # <<>>
  PROVE  /\ Head(todo) = "pattern" => todo = ToFill
         /\ Head(todo) = "write" => todo = ToWrite
         /\ Head(todo) = "read" => todo \in {ToReread, ToRead}
         /\ Head(todo) = "check" => todo = ToCheck
         /\ Head(todo) = "compare" => todo = ToCompare
         /\ Tail(todo) \in {ToCheck, ToFill, ToWrite, ToRead, ToCompare, <<>>}
         /\ Tail(todo) = <<>> => todo = ToCompare
         /\ Tail(todo) \in {ToWrite, ToRead, ToCompare} => todo \in {ToFill, ToWrite, ToRead}
BY OperationOrder DEF ToReread, ToCheck, ToFill, ToWrite, ToRead, ToCompare

(* ... and so in a filling pass.                                           *)
LEMMA FillingHead ==
  ASSUME todo \in {<<"write">>, <<>>}, todo # <<>>
  PROVE  Head(todo) = "write" /\ Tail(todo) = <<>>
BY OperationOrder

(* The step of a test lies on the device.                                  *)
LEMMA StepOnDisk ==
  ASSUME TaskInv, RangeInv, Ranged, InStep
  PROVE  Step \subseteq Disk
<1>1. cur \in Nat /\ nlba \in Nat /\ elba \in Nat /\ MaxLba \in Nat
  BY WrcAssumption DEF TaskInv, TaskTypeOK
<1>2. cur + nlba + 1 <= elba /\ cur # elba
  BY <1>1 DEF RangeInv
<1>3. ~testFail
  BY <1>2 DEF RangeInv
<1>4. elba <= MaxLba + 1
  BY <1>3 DEF RangeInv
<1> QED  BY <1>1, <1>2, <1>4 DEF Step, Disk

(* What exec() has established, by its own steps but the transfers.        *)
LEMMA ExecWithin ==
  ASSUME TaskInv, RangeInv, ExecInv, Ranged, ~skip,
         FillPattern \/ StartTeam \/ JoinTeam \/ Compare \/ EndExec
  PROVE  ExecInv'
<1> USE DEF configVars, resultVars, bufferVars
<1>1. worker = "exec" /\ Executing
  BY DEF FillPattern, StartTeam, JoinTeam, Compare, EndExec, ToDo, Executing
<1>2. /\ UNCHANGED <<asked, slba, elba, step, sweepEnd, cur, filled, testFail, nlba, disk, rbuf, skip>>
      /\ worker' # "none"
  BY <1>1 DEF FillPattern, StartTeam, JoinTeam, Compare, EndExec
<1>3. (Tests' <=> Tests) /\ Step' = Step /\ Ranged' /\ ~skip'
  BY <1>2 DEF Tests, Step, Ranged
<1>4. /\ Tests => todo \in {ToReread, ToCheck, ToFill, ToWrite, ToRead, ToCompare, <<>>}
      /\ todo \in {ToWrite, ToRead, ToCompare} => wbuf = "test"
      /\ ~Tests => todo \in {<<"write">>, <<>>} /\ \A l \in Disk : rbuf[l] = "junk"
      /\ \A l \in Disk : rbuf[l] = "test" => disk[l] = "test"
      /\ Tests /\ todo = <<>> /\ ret = 0 => \A l \in Step : disk[l] = "test"
      /\ ret # 0 => todo = <<>>
  BY <1>1 DEF ExecInv
<1>5. CASE FillPattern
  <2>1. /\ todo # <<>> /\ Head(todo) = "pattern" /\ todo' = Tail(todo) /\ wbuf' = "test"
        /\ worker' = worker /\ ret' = ret
    BY <1>5 DEF FillPattern, ToDo
  <2>2. Tests
    BY <1>4, <2>1, FillingHead
  <2>3. todo' = ToWrite
    BY <1>4, <2>1, <2>2, HeadTells, OperationOrder
  <2>4. ToWrite # <<>>
    BY OperationOrder
  <2> HIDE DEF Executing
  <2> QED  BY <1>1, <1>2, <1>3, <1>4, <2>1, <2>2, <2>3, <2>4 DEF ExecInv
<1>6. CASE StartTeam
  <2>1. UNCHANGED <<todo, ret, wbuf, worker>>
    BY <1>6 DEF StartTeam
  <2> HIDE DEF Executing
  <2> QED  BY <1>1, <1>2, <1>3, <1>4, <2>1 DEF ExecInv
<1>7. CASE JoinTeam
  <2>1. todo # <<>> /\ Head(todo) \in {"write", "read"}
    BY <1>7 DEF JoinTeam, TaskInv, TeamAtWork
  <2>2. /\ ret' \in {0, -1} /\ todo' = (IF ret' = 0 THEN Tail(todo) ELSE <<>>)
        /\ wbuf' = wbuf
        /\ worker' = "exec" \/ (worker' = "report" /\ after' = "exec")
    BY <1>1, <1>7 DEF JoinTeam
  <2>3. /\ Tests => /\ todo' \in {ToCheck, ToFill, ToWrite, ToRead, ToCompare, <<>>}
                    /\ todo' = <<>> => ret' # 0
                    /\ todo' \in {ToWrite, ToRead, ToCompare} => todo \in {ToWrite, ToRead}
        /\ ~Tests => todo' = <<>>
    <3>1. CASE Tests
      <4>1. todo \in {ToReread, ToWrite, ToRead}
        BY <1>4, <2>1, <3>1, HeadTells
      <4>2. /\ Tail(todo) \in {ToCheck, ToRead, ToCompare} /\ Tail(todo) # <<>>
            /\ todo = ToReread => Tail(todo) = ToCheck
        BY <4>1, OperationOrder
      <4>3. ToCheck \notin {ToWrite, ToRead, ToCompare, <<>>} /\ <<>> \notin {ToWrite, ToRead, ToCompare}
        BY DEF ToCheck, ToWrite, ToRead, ToCompare
      <4> QED  BY <2>2, <3>1, <4>1, <4>2, <4>3
    <3>2. CASE ~Tests
      BY <1>4, <2>1, <2>2, <3>2, FillingHead
    <3> QED  BY <3>1, <3>2
  <2>4. <<>> \notin {ToWrite, ToRead, ToCompare}
    BY DEF ToWrite, ToRead, ToCompare
  <2>5. ret' # 0 => todo' = <<>>
    BY <2>2
  <2> HIDE DEF Executing
  <2> QED  BY <1>2, <1>3, <1>4, <2>2, <2>3, <2>4, <2>5 DEF ExecInv
<1>8. CASE Compare
  <2> DEFINE off == ToDo("compare") /\ skip
             equal == \A l \in Step : rbuf[l] = wbuf
  <2>1. /\ todo # <<>> /\ Head(todo) \in {"compare", "check"}
        /\ ret' = (IF equal \/ off THEN 0 ELSE -1)
        /\ todo' = (IF equal \/ off THEN Tail(todo) ELSE <<>>)
        /\ worker' = worker /\ wbuf' = wbuf
    BY <1>8 DEF Compare, ToDo
  <2>2. ~off
    OBVIOUS
  <2> HIDE DEF off
  <2>3. (equal /\ ret' = 0 /\ todo' = Tail(todo)) \/ (ret' = -1 /\ todo' = <<>>)
    BY <2>1, <2>2
  <2>4. Tests
    BY <1>4, <2>1, FillingHead
  <2>5. todo \in {ToCompare, ToCheck}
    BY <1>4, <2>1, <2>4, HeadTells
  <2>6. Step \subseteq Disk
    BY <1>1, StepOnDisk DEF InStep
  <2>7. <<>> \notin {ToWrite, ToRead, ToCompare} /\ ToFill \notin {ToWrite, ToRead, ToCompare, <<>>}
    BY DEF ToFill, ToWrite, ToRead, ToCompare
  <2>8. CASE ret' = -1 /\ todo' = <<>>
    BY <1>2, <1>3, <1>4, <2>1, <2>4, <2>7, <2>8 DEF ExecInv
  <2>9. CASE equal /\ ret' = 0 /\ todo' = Tail(todo)
    <3>1. CASE todo = ToCheck
      <4>1. todo' = ToFill
        BY <2>9, <3>1, OperationOrder
      <4> QED  BY <1>1, <1>2, <1>3, <1>4, <2>1, <2>4, <2>7, <2>9, <4>1 DEF ExecInv
    <3>2. CASE todo = ToCompare
      <4>1. todo' = <<>> /\ wbuf = "test"
        BY <1>4, <2>9, <3>2, OperationOrder
      <4>2. \A l \in Step : disk[l] = "test"
        BY <1>4, <2>6, <2>9, <4>1
      <4> QED  BY <1>2, <1>3, <1>4, <2>1, <2>4, <2>7, <2>9, <4>1, <4>2 DEF ExecInv
    <3> QED  BY <2>5, <3>1, <3>2
  <2> QED  BY <2>3, <2>8, <2>9
<1>9. CASE EndExec
  <2>1. UNCHANGED <<todo, ret, wbuf>> /\ todo = <<>> /\ worker' = "report"
    BY <1>9 DEF EndExec
  <2> HIDE DEF Executing
  <2> QED  BY <1>2, <1>3, <1>4, <2>1 DEF ExecInv
<1> QED  BY <1>5, <1>6, <1>7, <1>8, <1>9

(* A transfer writes the pattern or reads what is there.                   *)
LEMMA ExecTransfer ==
  ASSUME TaskInv, ExecInv, Ranged, ~skip, NEW t \in DOMAIN io, NVMeIOTask(t)
  PROVE  /\ ExecInv'
         /\ Tests => \A l \in Disk : disk[l] = "test" => disk'[l] = "test"
<1> USE DEF configVars, resultVars, bufferVars
<1>1. /\ worker = "exec" /\ Executing /\ Head(todo) \in {"write", "read"} /\ todo # <<>>
  BY DEF TaskInv, TeamAtWork, Executing
<1>2. /\ UNCHANGED <<asked, slba, elba, step, sweepEnd, cur, filled, testFail, nlba, worker,
                     todo, ret, wbuf, skip>>
  BY DEF NVMeIOTask
<1>3. (Tests' <=> Tests) /\ Step' = Step /\ Ranged' /\ ~skip'
  BY <1>2 DEF Tests, Step, Ranged
<1>4. /\ Tests => todo \in {ToReread, ToCheck, ToFill, ToWrite, ToRead, ToCompare, <<>>}
      /\ todo \in {ToWrite, ToRead, ToCompare} => wbuf = "test"
      /\ ~Tests => todo \in {<<"write">>, <<>>} /\ \A l \in Disk : rbuf[l] = "junk"
      /\ \A l \in Disk : rbuf[l] = "test" => disk[l] = "test"
      /\ ret # 0 => todo = <<>>
  BY <1>1 DEF ExecInv
<1>5. CASE ToDo("write")
  <2>1. rbuf' = rbuf /\ \A l \in Disk : disk'[l] \in {wbuf, disk[l]}
    BY <1>5 DEF NVMeIOTask, TransferredOk, TaskInv, TaskTypeOK
  <2>2. Tests => wbuf = "test"
    BY <1>1, <1>4, <1>5, HeadTells DEF ToDo
  <2>3. \A l \in Disk : rbuf'[l] = "test" => disk'[l] = "test"
    BY <1>4, <2>1, <2>2
  <2> QED  BY <1>1, <1>2, <1>3, <1>4, <2>1, <2>2, <2>3 DEF ExecInv
<1>6. CASE ~ToDo("write")
  <2>1. disk' = disk /\ \A l \in Disk : rbuf'[l] \in {disk[l], "bad", rbuf[l]}
    BY <1>6 DEF NVMeIOTask, TransferredOk, TaskInv, TaskTypeOK
  <2>2. Tests
    BY <1>1, <1>4, <1>6, FillingHead DEF ToDo
  <2>3. \A l \in Disk : rbuf'[l] = "test" => disk'[l] = "test"
    BY <1>4, <2>1
  <2> QED  BY <1>1, <1>2, <1>3, <1>4, <2>1, <2>2, <2>3 DEF ExecInv
<1> QED  BY <1>5, <1>6

(* So exec() keeps what it has established.                                *)
LEMMA ExecStep ==
  ASSUME TaskInv, RangeInv, PassInv, ExecInv, Ranged, Threaded
  PROVE  ExecInv'
<1>1. skip' = skip
  BY DEF Threaded, Run, StartStep, LeaveLoop, Report, TestLock, SetLock, AppendLog, WorkerIn,
         DisableTermination, Settle, StopTask, EnableTermination, MarkFilled, StartAgain,
         SweepNext, ContinuePass, FillPattern, StartTeam, JoinTeam, Compare, EndExec,
         NVMeIOTask
<1>2. CASE skip
  BY <1>1, <1>2 DEF ExecInv
<1>3. CASE ~skip
  BY <1>3, ExecAround, ExecWithin, ExecTransfer DEF Threaded, Run
<1> QED  BY <1>2, <1>3

(* A step that succeeds adds its blocks to those tested, and no write of a *)
(* test takes its pattern away again.                                      *)
LEMMA TestedStep ==
  ASSUME TaskInv, RangeInv, PassInv, ExecInv, TestedInv, Ranged, Threaded
  PROVE  TestedInv'
<1> USE DEF Ranged, configVars, resultVars, bufferVars
<1>0. slba \in Nat /\ cur \in Nat /\ nlba \in Nat
  BY WrcAssumption DEF TaskInv, TaskTypeOK
<1>1. CASE \/ StartStep \/ LeaveLoop \/ Report \/ DisableTermination \/ EnableTermination
           \/ ContinuePass \/ FillPattern \/ StartTeam \/ JoinTeam \/ Compare \/ EndExec
  <2>1. /\ UNCHANGED <<asked, slba, cur, filled, testFail, disk, skip>>
        /\ worker \notin {"stop", "again", "killed"}
    BY <1>1 DEF StartStep, LeaveLoop, Report, TestLock, SetLock, AppendLog, WorkerIn,
                DisableTermination, EnableTermination, ContinuePass, FillPattern, StartTeam,
                JoinTeam, Compare, EndExec, ToDo
  <2>2. Tests' <=> Tests
    BY <2>1 DEF Tests
  <2> QED  BY <2>1, <2>2 DEF TestedInv
<1>2. CASE Settle
  <2>1. CASE ret = 0
    <3>1. /\ cur' = cur + nlba + 1 /\ worker = "settle"
          /\ UNCHANGED <<asked, slba, filled, testFail, disk, skip>>
      BY <1>2, <2>1 DEF Settle
    <3>2. Tests' <=> Tests
      BY <3>1 DEF Tests
    <3> SUFFICES ASSUME ~skip, Tests, ~testFail
                 PROVE  \A l \in slba .. (cur' - 1) : disk[l] = "test"
      BY <3>1, <3>2 DEF TestedInv
    <3>3. \A l \in Step : disk[l] = "test"
      BY <2>1, <3>1 DEF ExecInv, Executing
    <3>4. \A l \in slba .. (cur - 1) : disk[l] = "test"
      BY <3>1 DEF TestedInv
    <3>5. \A l \in slba .. (cur' - 1) : l \in slba .. (cur - 1) \/ l \in cur .. (cur + nlba)
      BY <1>0, <3>1
    <3> QED  BY <3>3, <3>4, <3>5 DEF Step
  <2>2. CASE ret # 0
    BY <1>2, <2>2 DEF Settle, TestedInv
  <2> QED  BY <2>1, <2>2
<1>3. CASE StopTask \/ MarkFilled \/ SweepNext
  BY <1>3 DEF StopTask, MarkFilled, SweepNext, TestedInv
<1>4. CASE StartAgain
  <2>1. cur' = slba /\ slba' = slba
    BY <1>4 DEF StartAgain
  <2>2. slba' .. (cur' - 1) = {}
    BY <1>0, <2>1
  <2> QED  BY <2>2 DEF TestedInv
<1>5. CASE \E t \in DOMAIN io : NVMeIOTask(t)
  <2> PICK t \in DOMAIN io : NVMeIOTask(t)
    BY <1>5
  <2>1. UNCHANGED <<asked, slba, cur, filled, testFail, skip, worker>>
    BY DEF NVMeIOTask
  <2>2. Tests' <=> Tests
    BY <2>1 DEF Tests
  <2> SUFFICES ASSUME ~skip, Tests, ~testFail, worker \notin {"stop", "again", "killed"}
               PROVE  \A l \in slba .. (cur - 1) : disk'[l] = "test"
    BY <2>1, <2>2 DEF TestedInv
  <2>3. \A l \in Disk : disk[l] = "test" => disk'[l] = "test"
    BY ExecTransfer
  <2>4. \A l \in slba .. (cur - 1) : disk[l] = "test"
    BY DEF TestedInv
  <2>5. /\ cur <= elba /\ elba <= MaxLba + 1 /\ elba \in Nat /\ MaxLba \in Nat
    BY WrcAssumption DEF RangeInv, TaskInv, TaskTypeOK
  <2>6. slba .. (cur - 1) \subseteq Disk
    BY <1>0, <2>5 DEF Disk
  <2> QED  BY <2>3, <2>4, <2>6
<1> QED  BY <1>1, <1>2, <1>3, <1>4, <1>5 DEF Threaded, Run

(* A task is constructed once, and after that it is its threads that run.  *)
LEMMA MadeOnce ==
  ASSUME TaskInv, worker = "none", Threaded
  PROVE  FALSE
BY DEF TaskInv, TeamAtWork, Threaded, Run, StartStep, LeaveLoop, Report, TestLock, SetLock,
       AppendLog, WorkerIn, DisableTermination, Settle, StopTask, EnableTermination, MarkFilled,
       StartAgain, SweepNext, ContinuePass, FillPattern, StartTeam, JoinTeam, Compare, EndExec,
       ToDo

(* What a task was asked for does not change while its threads run.        *)
LEMMA ThreadedKeeps ==
  ASSUME Threaded
  PROVE  UNCHANGED <<asked, slba, skip>>
BY DEF Threaded, Run, StartStep, LeaveLoop, Report, TestLock, SetLock, AppendLog, WorkerIn,
       DisableTermination, Settle, StopTask, EnableTermination, MarkFilled, StartAgain,
       SweepNext, ContinuePass, FillPattern, StartTeam, JoinTeam, Compare, EndExec,
       NVMeIOTask, configVars

(* Every step of the task and its threads preserves the invariant.         *)
LEMMA TestInvStep == TaskInv /\ TestInv /\ [TaskNext]_taskVars => TestInv'
<1> SUFFICES ASSUME TaskInv, TestInv, [TaskNext]_taskVars PROVE TestInv'
  OBVIOUS
<1>1. CASE \E c \in Configs : Construct(c)
  BY <1>1, TestConstruct
<1>2. CASE Threaded
  <2>1. CASE Ranged
    BY <1>2, <2>1, RangeStep, PassStep, ExecStep, TestedStep DEF TestInv
  <2>2. CASE ~Ranged
    <3>1. ~Ranged'
      BY <1>2, <2>2, MadeOnce, ThreadedKeeps DEF Ranged
    <3> QED  BY <3>1 DEF TestInv, RangeInv, PassInv, ExecInv, TestedInv
  <2> QED  BY <2>1, <2>2
<1>3. CASE UNCHANGED taskVars
  <2> USE DEF taskVars, configVars, resultVars, bufferVars
  <2>1. /\ Tests' <=> Tests
        /\ Ranged' <=> Ranged
        /\ Executing' <=> Executing
        /\ InStep' <=> InStep
        /\ Step' = Step
    BY <1>3 DEF Tests, Ranged, Executing, InStep, Step
  <2>2. RangeInv'
    BY <1>3, <2>1 DEF TestInv, RangeInv
  <2>3. PassInv'
    BY <1>3, <2>1 DEF TestInv, PassInv
  <2>4. ExecInv'
    BY <1>3, <2>1 DEF TestInv, ExecInv
  <2>5. TestedInv'
    BY <1>3, <2>1 DEF TestInv, TestedInv
  <2> QED  BY <2>2, <2>3, <2>4, <2>5 DEF TestInv
<1> QED  BY <1>1, <1>2, <1>3 DEF TaskNext

(* A finished test without failure has gone past the whole range.          *)
LEMMA TestInvTested == TaskInv /\ TestInv => PassMeansTested
<1> SUFFICES ASSUME TaskInv, TestInv, worker = "finished", ~testFail, ~skip, asked.tt # "sweepNLB"
             PROVE  /\ \A l \in AskedBlocks : disk[l] = "test"
                    /\ asked.tt = "march" /\ AskedBlocks # {} => filled
  BY DEF PassMeansTested
<1>1. /\ slba = asked.slba /\ cur = elba /\ elba = asked.elba + 1
  BY DEF TestInv, RangeInv, Ranged
<1>2. /\ asked.slba \in Nat /\ asked.elba \in Nat /\ asked.tt \in {"w1r1c1", "march"}
  BY WrcAssumption DEF TaskInv, TaskTypeOK, ConfigRec
<1>3. asked.tt = "march" /\ ~filled => AskedBlocks = {}
  <2> SUFFICES ASSUME asked.tt = "march", ~filled PROVE AskedBlocks = {}
    OBVIOUS
  <2>1. slba = elba
    BY <1>1, <1>2 DEF TestInv, PassInv, Ranged
  <2> QED  BY <1>1, <1>2, <2>1 DEF AskedBlocks
<1>4. AskedBlocks = slba .. (cur - 1)
  BY <1>1, <1>2 DEF AskedBlocks
<1>5. Tests => \A l \in AskedBlocks : disk[l] = "test"
  BY <1>4 DEF TestInv, TestedInv, Ranged
<1> QED  BY <1>2, <1>3, <1>5 DEF Tests

(* Theorem: for every range, step length, number of threads and device,    *)
(* and whatever commands fail or spoil data, a w1r1c1 or march test that   *)
(* ends without failure has left its pattern in every block asked for, the *)
(* end block included, and a march test has been through its range twice.  *)
THEOREM PassTested == TaskSpec => []PassMeansTested
<1>1. TaskInit => TaskInv /\ TestInv
  BY TaskInvInit, TestInit
<1>2. (TaskInv /\ TestInv) /\ [TaskNext]_taskVars => (TaskInv /\ TestInv)'
  BY TaskInvStep, TestInvStep
<1> QED  BY <1>1, <1>2, TestInvTested, PTL DEF TaskSpec
-----------------------------------------------------------------------------
(* A write of a test lies in its step, which lies in the range asked for.  *)
LEMMA WritesInRange ==
  ASSUME TaskInv, TestInv, [TaskNext]_taskVars, asked.tt # "sweepNLB",
         NEW l \in Disk, disk'[l] # disk[l]
  PROVE  l \in AskedBlocks
<1> USE DEF configVars, resultVars, bufferVars
<1>1. CASE UNCHANGED disk
  BY <1>1
<1>2. CASE \E t \in DOMAIN io : NVMeIOTask(t)
  <2> PICK t \in DOMAIN io : NVMeIOTask(t)
    BY <1>2
  <2>1. l \in Slice(t)
    BY DEF NVMeIOTask, TransferredOk, TaskInv, TaskTypeOK
  <2>2. io # <<>> /\ worker = "exec"
    BY DEF TaskInv, TeamAtWork
  <2>3. l \in Step
    BY <2>1, <2>2, TaskInvShares DEF TeamSharesStep
  <2>4. /\ slba = asked.slba /\ slba <= cur /\ cur + nlba + 1 <= elba
        /\ testFail => cur = elba
        /\ ~testFail => elba = asked.elba + 1
    BY <2>2 DEF TestInv, RangeInv, Ranged, InStep
  <2>5. /\ slba \in Nat /\ cur \in Nat /\ nlba \in Nat /\ elba \in Nat
        /\ asked.slba \in Nat /\ asked.elba \in Nat
    BY WrcAssumption DEF TaskInv, TaskTypeOK, ConfigRec
  <2> QED  BY <2>3, <2>4, <2>5 DEF Step, AskedBlocks
<1> QED
  BY <1>1, <1>2
  DEF taskVars, TaskNext, Construct, Threaded, Run, StartStep, LeaveLoop, Report, TestLock,
      SetLock, AppendLog, WorkerIn, DisableTermination, Settle, StopTask, EnableTermination,
      MarkFilled, StartAgain, SweepNext, ContinuePass, FillPattern, StartTeam, JoinTeam,
      Compare, EndExec

(* Theorem: no step of a test, failing or not, writes a block outside the  *)
(* range asked for, whatever the length of a step and the way the threads  *)
(* share it out.                                                           *)
THEOREM AskedOnly == TaskSpec => WritesOnlyAsked
<1>1. TaskInit => TaskInv /\ TestInv
  BY TaskInvInit, TestInit
<1>2. (TaskInv /\ TestInv) /\ [TaskNext]_taskVars => (TaskInv /\ TestInv)'
  BY TaskInvStep, TestInvStep
<1>3. (TaskInv /\ TestInv) /\ [TaskNext]_taskVars =>
        [asked.tt # "sweepNLB" => \A l \in Disk : disk'[l] # disk[l] => l \in AskedBlocks]_taskVars
  BY WritesInRange
<1> QED  BY <1>1, <1>2, <1>3, PTL DEF TaskSpec, WritesOnlyAsked
-----------------------------------------------------------------------------
(* A length below 2^16 is what the unsigned short holds of it.             *)
LEMMA FitsWord ==
  ASSUME NEW a \in Nat, NEW b \in Nat, a < b
  PROVE  a % b = a
OBVIOUS

(* A constructed sweep begins with the shortest length asked for.          *)
LEMMA SweepConstruct ==
  ASSUME NEW c \in Configs, Construct(c)
  PROVE  SweepInv'
<1>1. c \in ConfigRec /\ MaxLba \in Nat /\ NlbWord \in Nat \ {0}
  BY WrcAssumption
<1> SUFFICES ASSUME c.tt = "sweepNLB" PROVE SweepInv'
  BY DEF Construct, SweepInv
<1> DEFINE e == c.elba % NlbWord
           last == LesserOf(MaxLba, e) + 1
<1>2. c.slba \in Nat /\ e \in 0 .. (NlbWord - 1)
  BY <1>1 DEF ConfigRec
<1>3. last \in 1 .. NlbWord
  BY <1>1, <1>2 DEF LesserOf
<1>4. /\ asked' = c /\ worker' = "loop" /\ step' = c.slba /\ sweepEnd' = last
      /\ c.slba < last => elba' = c.slba + 1 /\ cur' = 0
  <2>1. /\ asked' = c /\ worker' = "loop" /\ step' = SweepTask(c).step
        /\ sweepEnd' = SweepTask(c).sweepEnd /\ elba' = SweepTask(c).elba
        /\ cur' \in SweepTask(c).cur
    BY DEF Construct
  <2>2. /\ SweepTask(c).step = c.slba /\ SweepTask(c).sweepEnd = last
        /\ ~(c.slba >= last) => SweepTask(c).elba = c.slba + 1 /\ SweepTask(c).cur = {0}
    BY DEF SweepTask
  <2> HIDE DEF last, e
  <2>3. c.slba < last => ~(c.slba >= last)
    BY <1>2, <1>3
  <2> QED  BY <2>1, <2>2, <2>3
<1> HIDE DEF last, e
<1> QED  BY <1>2, <1>3, <1>4 DEF SweepInv, InStep

(* The steps of the worker and its threads go from length to length.       *)
LEMMA SweepStep ==
  ASSUME TaskInv, SweepInv, asked.tt = "sweepNLB", worker # "none", Threaded
  PROVE  SweepInv'
<1> USE DEF SweepInv, InStep, configVars, resultVars, bufferVars
<1>0. /\ cur \in Nat /\ elba \in Nat /\ step \in Nat /\ nlba \in Nat /\ sweepEnd \in Nat
      /\ NlbWord \in Nat \ {0} /\ asked.slba \in Nat /\ after \in {"disable", "exec", "settle"}
  BY WrcAssumption DEF TaskInv, TaskTypeOK, ConfigRec
<1>1. CASE StartStep
  <2>1. cur < elba /\ nlba' = StepBlocks
    BY <1>1 DEF StartStep
  <2>2. asked.slba < sweepEnd => nlba' = step
    <3> SUFFICES ASSUME asked.slba < sweepEnd PROVE StepBlocks = step
      BY <2>1
    <3>1. cur = 0 /\ elba = step + 1 /\ step < NlbWord
      BY <1>0, <2>1
    <3>2. step % NlbWord = step
      BY <1>0, <3>1, FitsWord
    <3>3. ~(cur + step + 1 > elba)
      BY <1>0, <3>1
    <3> QED  BY <3>2, <3>3 DEF StepBlocks
  <2> QED  BY <1>0, <1>1, <2>1, <2>2 DEF StartStep
<1>2. CASE Report
  BY <1>0, <1>2 DEF Report, TestLock, SetLock, AppendLog, WorkerIn
<1>3. CASE Settle
  BY <1>0, <1>3 DEF Settle
<1>4. CASE SweepNext
  BY <1>0, <1>4 DEF SweepNext, PassDone
<1>5. CASE \/ LeaveLoop \/ DisableTermination \/ StopTask \/ EnableTermination \/ MarkFilled
           \/ StartAgain \/ ContinuePass
  BY <1>5 DEF LeaveLoop, DisableTermination, StopTask, EnableTermination, MarkFilled, StartAgain,
              ContinuePass
<1>6. CASE FillPattern \/ StartTeam \/ JoinTeam \/ Compare \/ EndExec
  BY <1>6 DEF FillPattern, StartTeam, JoinTeam, Compare, EndExec, ToDo
<1>7. CASE \E t \in DOMAIN io : NVMeIOTask(t)
  BY <1>7 DEF NVMeIOTask
<1> QED  BY <1>1, <1>2, <1>3, <1>4, <1>5, <1>6, <1>7 DEF Threaded, Run

(* Every step of the task and its threads preserves the invariant.         *)
LEMMA SweepInvStep == TaskInv /\ SweepInv /\ [TaskNext]_taskVars => SweepInv'
<1> SUFFICES ASSUME TaskInv, SweepInv, [TaskNext]_taskVars PROVE SweepInv'
  OBVIOUS
<1>1. CASE \E c \in Configs : Construct(c)
  BY <1>1, SweepConstruct
<1>2. CASE Threaded
  <2>1. CASE asked.tt = "sweepNLB"
    BY <1>2, <2>1, MadeOnce, SweepStep
  <2>2. CASE asked.tt # "sweepNLB"
    BY <1>2, <2>2, ThreadedKeeps DEF SweepInv
  <2> QED  BY <2>1, <2>2
<1>3. CASE UNCHANGED taskVars
  BY <1>3 DEF SweepInv, InStep, taskVars, configVars, resultVars
<1> QED  BY <1>1, <1>2, <1>3 DEF TaskNext

(* The invariant gives the property of the runs.                           *)
LEMMA SweepInvLengths == TaskInv /\ SweepInv => SweepLengths
<1> SUFFICES ASSUME TaskInv, SweepInv, asked.tt = "sweepNLB", asked.slba < sweepEnd, worker = "exec"
             PROVE  nlba = step /\ cur = 0 /\ step \in asked.slba .. (sweepEnd - 1)
  BY DEF SweepLengths
<1>1. step \in Nat /\ sweepEnd \in Nat /\ asked.slba \in Nat
  BY WrcAssumption DEF TaskInv, TaskTypeOK, ConfigRec
<1> QED  BY <1>1 DEF SweepInv, InStep

(* Theorem: whatever lengths are asked for, and however many blocks the    *)
(* device has, a sweep's command in work is of the length the sweep has    *)
(* reached, from block 0 on: no length is cut to the width of nlba, and    *)
(* none beyond the last is used.                                           *)
THEOREM Sweep == TaskSpec => []SweepLengths
<1>1. TaskInit => TaskInv /\ SweepInv
  BY TaskInvInit, TestInit
<1>2. (TaskInv /\ SweepInv) /\ [TaskNext]_taskVars => (TaskInv /\ SweepInv)'
  BY TaskInvStep, SweepInvStep
<1> QED  BY <1>1, <1>2, SweepInvLengths, PTL DEF TaskSpec

-----------------------------------------------------------------------------
(* The dialog around the task. *)

(* Commands are in flight in exec() only.                                  *)
CommandsInExec == io # <<>> => worker = "exec"

(* exec(), the reports it makes, and what follows it up to the worker's    *)
(* setTerminationEnabled(true) run with termination disabled.              *)
ExecProtected ==
  /\ worker \in {"exec", "settle", "stop", "enable"} => ~enabled
  /\ worker \in {"report", "lock", "append"} /\ after # "disable" => ~enabled

(* From the end of its wait to the deletion the dialog has a dead worker.  *)
Deleting == gui = "delete" \/ (gui \in {"fetch", "fetchLock", "fetchLog"} /\ fetched = "delete")
WaitedFor == Deleting => ~Alive

DialogInv == CommandsInExec /\ ExecProtected /\ WaitedFor

(* The invariant holds at first and gives the property of the runs.        *)
LEMMA DialogInvInit == DialogInit => DialogInv
BY DEF DialogInit, TaskInit, DialogInv, CommandsInExec, ExecProtected, WaitedFor, Deleting, Alive

LEMMA DialogInvProtects == DialogInv => NoCommandOutlivesTask
BY DEF DialogInv, CommandsInExec, NoCommandOutlivesTask, Alive

(* A step of the worker or of a thread of its team keeps the two parts     *)
(* about the task.                                                         *)
LEMMA WorkKeepsTask ==
  ASSUME CommandsInExec, ExecProtected, Threaded
  PROVE  CommandsInExec' /\ ExecProtected'
<1> USE DEF CommandsInExec, ExecProtected, configVars, resultVars, bufferVars
<1>1. CASE StartStep
  BY <1>1 DEF StartStep
<1>2. CASE LeaveLoop
  BY <1>2 DEF LeaveLoop
<1>3. CASE Report
  BY <1>3 DEF Report, TestLock, SetLock, AppendLog, WorkerIn
<1>4. CASE DisableTermination
  BY <1>4 DEF DisableTermination
<1>5. CASE Settle
  BY <1>5 DEF Settle
<1>6. CASE StopTask
  BY <1>6 DEF StopTask
<1>7. CASE EnableTermination
  BY <1>7 DEF EnableTermination
<1>8. CASE MarkFilled
  BY <1>8 DEF MarkFilled
<1>9. CASE StartAgain
  BY <1>9 DEF StartAgain
<1>10. CASE SweepNext
  BY <1>10 DEF SweepNext
<1>11. CASE ContinuePass
  BY <1>11 DEF ContinuePass
<1>12. CASE FillPattern
  BY <1>12 DEF FillPattern
<1>13. CASE StartTeam
  BY <1>13 DEF StartTeam, ToDo
<1>14. CASE JoinTeam
  BY <1>14 DEF JoinTeam
<1>15. CASE Compare
  BY <1>15 DEF Compare
<1>16. CASE EndExec
  BY <1>16 DEF EndExec
<1>17. ASSUME NEW t \in DOMAIN io, NVMeIOTask(t)
       PROVE  CommandsInExec' /\ ExecProtected'
  <2>1. io # <<>>
    BY <1>17
  <2> QED  BY <1>17, <2>1 DEF NVMeIOTask
<1> QED
  BY <1>1, <1>2, <1>3, <1>4, <1>5, <1>6, <1>7, <1>8, <1>9, <1>10, <1>11, <1>12, <1>13,
     <1>14, <1>15, <1>16, <1>17 DEF Threaded, Run

(* Every step of the dialog and its task preserves the invariant.          *)
LEMMA DialogInvStep == DialogInv /\ [DialogNext]_allVars => DialogInv'
<1> SUFFICES ASSUME DialogInv, [DialogNext]_allVars PROVE DialogInv'
  OBVIOUS
<1> USE DEF DialogInv
<1>0. CommandsInExec /\ ExecProtected /\ WaitedFor
  OBVIOUS
<1>1. CASE Work
  <2>1. CommandsInExec' /\ ExecProtected'
    BY <1>0, <1>1, WorkKeepsTask DEF Work
  <2>2. WaitedFor'
    BY <1>0, <1>1 DEF Work, guiVars, WaitedFor, Deleting
  <2> QED  BY <2>1, <2>2
<1>2. CASE Terminated
  <2>1. io = <<>>
    BY <1>0, <1>2 DEF Terminated, CommandsInExec, ExecProtected
  <2> QED
    BY <1>2, <2>1 DEF Terminated, CommandsInExec, ExecProtected, WaitedFor, Alive
<1>3. CASE Fetch
  <2>1. CommandsInExec' /\ ExecProtected'
    BY <1>0, <1>3 DEF Fetch, CommandsInExec, ExecProtected
  <2>2. WaitedFor'
    BY <1>0, <1>3 DEF Fetch, FetchTest, FetchLock, FetchRelease, GuiStep, WaitedFor, Deleting, Alive
  <2> QED  BY <2>1, <2>2
<1>4. CASE Tick \/ NotYet \/ Over \/ Cancel \/ Terminate \/ Wait
  <2>1. UNCHANGED taskVars
    BY <1>4 DEF Tick, NotYet, Over, Cancel, Terminate, Wait
  <2>2. CommandsInExec' /\ ExecProtected'
    BY <1>0, <2>1 DEF taskVars, CommandsInExec, ExecProtected
  <2>3. Alive' = Alive
    BY <2>1 DEF taskVars, Alive
  <2>4. WaitedFor'
    BY <1>0, <1>4, <2>3
       DEF Tick, NotYet, Over, Cancel, Terminate, Wait, GuiStep, WaitedFor, Deleting
  <2> QED  BY <2>2, <2>4
<1>5. CASE Delete
  <2>1. io = <<>>
    BY <1>0, <1>5 DEF Delete, GuiStep, WaitedFor, Deleting, Alive, CommandsInExec
  <2> QED
    BY <1>5, <2>1 DEF Delete, CommandsInExec, ExecProtected, WaitedFor, Alive
<1>6. CASE Start
  <2>1. io' = <<>> /\ worker' = "loop" /\ gui' = "idle"
    BY <1>6 DEF Start, Construct
  <2> QED  BY <2>1 DEF CommandsInExec, ExecProtected, WaitedFor, Deleting
<1>7. CASE UNCHANGED allVars
  BY <1>0, <1>7
     DEF allVars, taskVars, guiVars, CommandsInExec, ExecProtected, WaitedFor, Deleting, Alive
<1> QED  BY <1>1, <1>2, <1>3, <1>4, <1>5, <1>6, <1>7 DEF DialogNext, Gui

(* Theorem: no command of a step outlives the thread and the task that     *)
(* started it, whenever the user cancels and whatever the test: the        *)
(* threads of a step use the task's buffers, which exec() frees.           *)
THEOREM NoOrphanedCommand == DialogSpec => []NoCommandOutlivesTask
BY DialogInvInit, DialogInvStep, DialogInvProtects, PTL DEF DialogSpec
-----------------------------------------------------------------------------
(* What is left of TestInv when a worker is killed: the blocks it has gone *)
(* past still hold the pattern of a w1r1c1 test.  (A march test can be     *)
(* killed between the two assignments that begin its second pass.)         *)
OneRound == asked.tt = "w1r1c1" /\ ~skip /\ ~testFail
KilledInv ==
  worker = "killed" /\ OneRound => \A l \in slba .. (cur - 1) : disk[l] = "test"

(* A task exists from its start to its deletion, and the dialog goes on    *)
(* where it meant to after fetching a report.                              *)
TaskThere ==
  /\ fetched \in {"idle", "decide", "delete"}
  /\ gui \in {"fetch", "fetchLock", "fetchLog", "decide", "close", "wait", "delete"} =>
       worker # "none"
  /\ gui = "restart" => worker = "none"

(* The progress the dialog has read, and the decision it has made from it, *)
(* stay true of the worker's progress while the worker goes on.            *)
Fetching == gui \in {"fetch", "fetchLock", "fetchLog"}
AtEnd    == OneRound => cur = elba
ProgressTrue ==
  gui = "decide" \/ (Fetching /\ fetched = "decide") => (progress >= 100 => AtEnd)
DecisionTrue ==
  gui \in {"close", "wait"} \/ Deleting => (keepGo => AtEnd)

RestartInv ==
  /\ TaskInv /\ TestInv /\ KilledInv /\ TaskThere
  /\ ProgressTrue /\ DecisionTrue /\ RestartMeansTested

(* The steps of the dialog that leave the task alone.                      *)
LEMMA DialogInvAlone ==
  ASSUME RestartInv, DialogInv, UNCHANGED taskVars
  PROVE  TaskInv' /\ TestInv' /\ KilledInv' /\ (AtEnd' <=> AtEnd)
<1>1. TaskInv' /\ TestInv'
  BY TaskInvStep, TestInvStep DEF RestartInv
<1>2. KilledInv' /\ (AtEnd' <=> AtEnd)
  BY DEF RestartInv, KilledInv, OneRound, AtEnd, taskVars, configVars, resultVars, bufferVars
<1> QED  BY <1>1, <1>2

(* A progress of 100 percent is the end of the range.                      *)
LEMMA ProgressMeansEnd ==
  ASSUME TaskInv, TestInv, worker # "none", Progress >= 100
  PROVE  AtEnd
<1> SUFFICES ASSUME asked.tt = "w1r1c1", ~testFail PROVE cur = elba
  BY DEF AtEnd, OneRound
<1>1. slba \in Nat /\ cur \in Nat /\ elba \in Nat /\ slba <= cur /\ cur <= elba
  BY DEF TaskInv, TaskTypeOK, TestInv, RangeInv, Ranged
<1> DEFINE a == cur - slba + 1
           b == elba - slba + 1
           m == a * 100
           q == m \div b
           r == m % b
<1>2. a \in Nat /\ b \in Nat \ {0} /\ a <= b /\ (a >= b => cur = elba)
  BY <1>1
<1>3. q >= 100
  BY DEF Progress
<1> HIDE DEF a, b
<1>4. m \in Nat
  BY <1>2
<1> HIDE DEF m
<1>5. q \in Nat /\ r \in Nat /\ m = b * q + r
  BY <1>2, <1>4, QuotientRemainder
<1> HIDE DEF q, r
<1>6. 100 * b <= q * b
  BY <1>2, <1>3, <1>5, ProductGrows
<1>7. q * b = b * q /\ q * b \in Nat
  BY <1>2, <1>5
<1>8. 100 * b <= m
  BY <1>2, <1>4, <1>5, <1>6, <1>7
<1>9. a >= b
  BY <1>2, <1>8 DEF m
<1> QED  BY <1>2, <1>9

(* At the end of its range a w1r1c1 test stays there, or fails.            *)
LEMMA EndIsKept ==
  ASSUME TaskInv, TestInv, worker # "none", Threaded, AtEnd
  PROVE  AtEnd'
<1> USE DEF configVars, resultVars, bufferVars
<1>1. asked' = asked /\ skip' = skip
  BY ThreadedKeeps
<1>2. testFail => testFail'
  BY DEF Threaded, Run, StartStep, LeaveLoop, Report, TestLock, SetLock, AppendLog, WorkerIn,
         DisableTermination, Settle, StopTask, EnableTermination, MarkFilled, StartAgain,
         SweepNext, ContinuePass, FillPattern, StartTeam, JoinTeam, Compare, EndExec, NVMeIOTask
<1> SUFFICES ASSUME OneRound PROVE cur = elba => cur' = elba'
  BY <1>1, <1>2 DEF AtEnd, OneRound
<1>3. /\ cur \in Nat /\ nlba \in Nat /\ elba \in Nat
  BY WrcAssumption DEF TaskInv, TaskTypeOK
<1>4. asked.tt = "w1r1c1" /\ ~filled /\ Ranged
  BY DEF OneRound, TestInv, PassInv, Ranged
<1>5. CASE Settle
  BY <1>3, <1>4, <1>5 DEF Settle, TestInv, RangeInv, InStep
<1>6. CASE StartAgain \/ SweepNext
  BY <1>4, <1>6 DEF StartAgain, SweepNext, TestInv, PassInv
<1> QED
  BY <1>5, <1>6
  DEF Threaded, Run, StartStep, LeaveLoop, Report, TestLock, SetLock, AppendLog, WorkerIn,
      DisableTermination, StopTask, EnableTermination, MarkFilled,
      ContinuePass, FillPattern, StartTeam, JoinTeam, Compare, EndExec, NVMeIOTask

(* The worker goes on.                                                     *)
LEMMA RestartWork ==
  ASSUME RestartInv, Work
  PROVE  RestartInv'
<1> USE DEF RestartInv
<1>1. /\ Threaded /\ worker \notin {"none", "finished", "killed"}
      /\ UNCHANGED <<gui, progress, keepGo, fetched, pending>>
  BY DEF Work, Alive, guiVars
<1>2. TaskInv' /\ TestInv'
  BY <1>1, TaskInvStep, TestInvStep DEF TaskNext
<1>3. worker' \notin {"none", "killed"}
  BY <1>1 DEF Threaded, Run, StartStep, LeaveLoop, Report, TestLock, SetLock, AppendLog, WorkerIn,
         DisableTermination, Settle, StopTask, EnableTermination, MarkFilled, StartAgain,
         SweepNext, ContinuePass, FillPattern, StartTeam, JoinTeam, Compare, EndExec, NVMeIOTask,
         TaskInv, TaskTypeOK
<1>4. gui # "restart"
  BY <1>1 DEF TaskThere
<1>5. KilledInv' /\ TaskThere' /\ RestartMeansTested'
  BY <1>1, <1>3, <1>4 DEF KilledInv, TaskThere, RestartMeansTested
<1>6. AtEnd => AtEnd'
  BY <1>1, EndIsKept
<1>7. ProgressTrue' /\ DecisionTrue'
  BY <1>1, <1>6 DEF ProgressTrue, DecisionTrue, Fetching, Deleting
<1> QED  BY <1>2, <1>5, <1>7

(* The worker is killed, outside exec() and stop_task().                   *)
LEMMA RestartTerminated ==
  ASSUME RestartInv, DialogInv, Terminated
  PROVE  RestartInv'
<1> USE DEF RestartInv, configVars, resultVars, bufferVars, guiVars
<1>1. /\ worker' = "killed" /\ worker \notin {"none", "stop", "finished", "killed"} /\ io = <<>>
      /\ UNCHANGED <<asked, slba, elba, step, sweepEnd, cur, filled, testFail, nlba, todo, ret,
                     wbuf, rbuf, disk, io, locked, after, enabled, skip,
                     gui, progress, keepGo, fetched, pending>>
  BY DEF Terminated, Alive, DialogInv, CommandsInExec, ExecProtected
<1>2. TaskInv'
  BY <1>1 DEF TaskInv, TaskTypeOK, TeamAtWork
<1>3. TestInv'
  BY <1>1 DEF TestInv, RangeInv, PassInv, ExecInv, TestedInv, Ranged, InStep, Executing
<1>4. KilledInv'
  <2> SUFFICES ASSUME OneRound PROVE \A l \in slba .. (cur - 1) : disk[l] = "test"
    BY <1>1 DEF KilledInv, OneRound
  <2>1. Ranged /\ worker # "again"
    BY <1>1 DEF OneRound, Ranged, TestInv, PassInv
  <2> QED  BY <1>1, <2>1 DEF OneRound, TestInv, TestedInv, Tests
<1>5. AtEnd' <=> AtEnd
  BY <1>1 DEF AtEnd, OneRound
<1>6. TaskThere' /\ ProgressTrue' /\ DecisionTrue' /\ RestartMeansTested'
  BY <1>1, <1>5
  DEF TaskThere, ProgressTrue, DecisionTrue, Fetching, Deleting, RestartMeansTested
<1> QED  BY <1>2, <1>3, <1>4, <1>6

(* The report is fetched: only the channel's lock changes.                 *)
LEMMA RestartFetch ==
  ASSUME RestartInv, Fetch
  PROVE  RestartInv'
<1> USE DEF RestartInv, configVars, resultVars, bufferVars
<1>1. /\ UNCHANGED <<asked, slba, elba, step, sweepEnd, cur, filled, testFail, worker, nlba, todo,
                     ret, wbuf, rbuf, disk, io, after, enabled, skip,
                     progress, keepGo, fetched, pending>>
      /\ locked' \in BOOLEAN /\ Fetching
      /\ gui' \in {"fetchLock", "fetchLog"} \/ gui' = fetched
      /\ worker # "none"
  BY DEF Fetch, FetchTest, FetchLock, FetchRelease, GuiStep, Fetching, TaskThere, TaskInv, TaskTypeOK
<1>2. Team' = Team /\ (Tests' <=> Tests) /\ Step' = Step
  BY <1>1 DEF Team, Threads, ThreadConfig, Tests, Step
<1>3. TaskInv'
  BY <1>1, <1>2 DEF TaskInv, TaskTypeOK, TeamAtWork
<1>4. TestInv'
  BY <1>1, <1>2
  DEF TestInv, RangeInv, PassInv, ExecInv, TestedInv, Ranged, InStep, Executing
<1>5. KilledInv' /\ (AtEnd' <=> AtEnd)
  BY <1>1 DEF KilledInv, AtEnd, OneRound
<1>6. TaskThere' /\ ProgressTrue' /\ DecisionTrue' /\ RestartMeansTested'
  BY <1>1, <1>5
  DEF TaskThere, ProgressTrue, DecisionTrue, Fetching, Deleting, RestartMeansTested
<1> QED  BY <1>3, <1>4, <1>5, <1>6

(* The steps of the dialog between fetching reports.                       *)
LEMMA RestartDecides ==
  ASSUME RestartInv, DialogInv, Tick \/ NotYet \/ Over \/ Cancel \/ Terminate \/ Wait
  PROVE  RestartInv'
<1>1. UNCHANGED taskVars
  BY DEF Tick, NotYet, Over, Cancel, Terminate, Wait
<1>2. TaskInv' /\ TestInv' /\ KilledInv' /\ (AtEnd' <=> AtEnd)
  BY <1>1, DialogInvAlone
<1>3. worker' = worker
  BY <1>1 DEF taskVars
<1>4. TaskThere' /\ RestartMeansTested'
  BY <1>3 DEF RestartInv, TaskThere, RestartMeansTested, Tick, NotYet, Over, Cancel, Terminate, Wait,
              GuiStep, NoTask
<1>5. CASE Tick
  <2>1. Progress >= 100 => AtEnd
    BY <1>5, ProgressMeansEnd DEF Tick, NoTask, RestartInv
  <2> QED
    BY <1>2, <1>4, <1>5, <2>1
    DEF Tick, GuiStep, RestartInv, ProgressTrue, DecisionTrue, Fetching, Deleting
<1>6. CASE NotYet \/ Over \/ Cancel \/ Terminate \/ Wait
  <2>1. ProgressTrue'
    BY <1>2, <1>6
    DEF NotYet, Over, Cancel, Terminate, Wait, GuiStep, RestartInv, ProgressTrue, Fetching
  <2>2. DecisionTrue'
    BY <1>2, <1>6
    DEF NotYet, Over, Cancel, Terminate, Wait, GuiStep, RestartInv, ProgressTrue, DecisionTrue,
        Fetching, Deleting
  <2> QED  BY <1>2, <1>4, <2>1, <2>2 DEF RestartInv
<1> QED  BY <1>5, <1>6

(* The task is deleted, its range tested if it is to be repeated.          *)
LEMMA RestartDelete ==
  ASSUME RestartInv, DialogInv, Delete
  PROVE  RestartInv'
<1> USE DEF RestartInv, configVars, resultVars, bufferVars
<1>1. /\ gui = "delete" /\ worker' = "none" /\ gui' = (IF keepGo THEN "restart" ELSE "idle")
      /\ UNCHANGED <<asked, slba, elba, step, sweepEnd, cur, filled, testFail, nlba, todo, ret,
                     wbuf, rbuf, disk, io, locked, after, enabled, skip,
                     progress, keepGo, fetched>>
  BY DEF Delete, GuiStep
<1>2. worker \in {"finished", "killed"} /\ io = <<>>
  BY <1>1 DEF TaskThere, DialogInv, WaitedFor, Deleting, Alive, CommandsInExec
<1>3. TaskInv'
  BY <1>1, <1>2 DEF TaskInv, TaskTypeOK, TeamAtWork
<1>4. TestInv' /\ KilledInv'
  BY <1>1 DEF TestInv, RangeInv, PassInv, ExecInv, TestedInv, Ranged, KilledInv
<1>5. TaskThere' /\ ProgressTrue' /\ DecisionTrue'
  BY <1>1 DEF TaskThere, ProgressTrue, DecisionTrue, Fetching, Deleting
<1>6. RestartMeansTested'
  <2> SUFFICES ASSUME keepGo, OneRound PROVE \A l \in AskedBlocks : disk[l] = "test"
    BY <1>1 DEF RestartMeansTested, OneRound, AskedBlocks
  <2>1. Ranged /\ Tests
    BY <1>2 DEF OneRound, Ranged, Tests
  <2>2. \A l \in slba .. (cur - 1) : disk[l] = "test"
    BY <1>2, <2>1 DEF KilledInv, OneRound, TestInv, TestedInv
  <2>3. cur = elba
    BY <1>1 DEF DecisionTrue, Deleting, AtEnd
  <2>4. slba = asked.slba /\ elba = asked.elba + 1
    BY <2>1 DEF OneRound, TestInv, RangeInv
  <2>5. asked.elba \in Nat
    BY WrcAssumption DEF TaskInv, TaskTypeOK, ConfigRec
  <2> QED  BY <2>2, <2>3, <2>4, <2>5 DEF AskedBlocks
<1> QED  BY <1>3, <1>4, <1>5, <1>6

(* A task is started.                                                      *)
LEMMA RestartStart ==
  ASSUME RestartInv, Start
  PROVE  RestartInv'
<1>1. PICK c \in Configs : Construct(c)
  BY DEF Start, RestartInv, TaskInv, TaskTypeOK
<1>2. TaskInv' /\ TestInv'
  BY <1>1, TestConstruct, ConstructKeepsInv DEF RestartInv
<1>3. gui' = "idle" /\ worker' = "loop" /\ fetched' = fetched
  BY <1>1 DEF Start, Construct
<1> QED
  BY <1>2, <1>3
  DEF RestartInv, KilledInv, TaskThere, ProgressTrue, DecisionTrue, Fetching, Deleting,
      RestartMeansTested

(* Every step of the dialog and its task preserves the invariant.          *)
LEMMA RestartInvStep == DialogInv /\ RestartInv /\ [DialogNext]_allVars => RestartInv'
<1> SUFFICES ASSUME DialogInv, RestartInv, [DialogNext]_allVars PROVE RestartInv'
  OBVIOUS
<1>1. CASE UNCHANGED allVars
  <2>1. UNCHANGED taskVars /\ UNCHANGED <<gui, progress, keepGo, fetched, pending>>
    BY <1>1 DEF allVars, guiVars
  <2>2. TaskInv' /\ TestInv' /\ KilledInv' /\ (AtEnd' <=> AtEnd)
    BY <2>1, DialogInvAlone
  <2>3. worker' = worker
    BY <2>1 DEF taskVars
  <2>4. RestartMeansTested'
    BY <2>1 DEF RestartInv, RestartMeansTested, AskedBlocks, taskVars, configVars, resultVars,
                bufferVars
  <2> QED
    BY <2>1, <2>2, <2>3, <2>4
    DEF RestartInv, TaskThere, ProgressTrue, DecisionTrue, Fetching, Deleting
<1> QED
  BY <1>1, RestartWork, RestartTerminated, RestartFetch, RestartDecides, RestartDelete,
     RestartStart DEF DialogNext, Gui

(* It holds at first.                                                      *)
LEMMA RestartInvInit == DialogInit => RestartInv
<1> SUFFICES ASSUME DialogInit PROVE RestartInv
  OBVIOUS
<1>1. TaskInv /\ TestInv
  BY TaskInvInit, TestInit DEF DialogInit
<1>2. gui = "idle" /\ fetched = "idle" /\ worker = "none"
  BY DEF DialogInit, TaskInit
<1> QED
  BY <1>1, <1>2
  DEF RestartInv, KilledInv, TaskThere, ProgressTrue, DecisionTrue, Fetching, Deleting,
      RestartMeansTested

(* Theorem: whenever the dialog repeats a w1r1c1 test, and whatever        *)
(* happened between its look at the progress and the deletion of the       *)
(* task -- the worker went on, failed, was cancelled or was killed -- the  *)
(* round before has either failed or tested every block asked for.         *)
THEOREM RestartTested == DialogSpec => []RestartMeansTested
<1>1. DialogInit => DialogInv /\ RestartInv
  BY DialogInvInit, RestartInvInit
<1>2. (DialogInv /\ RestartInv) /\ [DialogNext]_allVars => (DialogInv /\ RestartInv)'
  BY DialogInvStep, RestartInvStep
<1>3. DialogInv /\ RestartInv => RestartMeansTested
  BY DEF RestartInv
<1> QED  BY <1>1, <1>2, <1>3, PTL DEF DialogSpec
-----------------------------------------------------------------------------
(* What the task promises by itself it keeps under the dialog: being       *)
(* killed, deleted and made anew does not write a block.                   *)
LEMMA DialogWrites ==
  ASSUME RestartInv, [DialogNext]_allVars, asked.tt # "sweepNLB",
         NEW l \in Disk, disk'[l] # disk[l]
  PROVE  l \in AskedBlocks
<1> USE DEF configVars, resultVars, bufferVars
<1>1. CASE Work
  BY <1>1, WritesInRange DEF Work, TaskNext, RestartInv
<1>2. CASE disk' = disk
  BY <1>2
<1> QED
  BY <1>1, <1>2
  DEF DialogNext, Gui, Terminated, Fetch, Tick, NotYet, Over, Cancel, Terminate, Wait, Delete,
      Start, Construct, allVars, taskVars

(* Theorem: under the dialog too, with its cancels and restarts, a task's  *)
(* state keeps its types, the commands in flight share the step's blocks   *)
(* out exactly, and a test writes no block it was not asked to test.       *)
THEOREM DialogKeepsTask == DialogSpec => [](TaskTypeOK /\ TeamSharesStep) /\ WritesOnlyAsked
<1>1. DialogInit => DialogInv /\ RestartInv
  BY DialogInvInit, RestartInvInit
<1>2. (DialogInv /\ RestartInv) /\ [DialogNext]_allVars => (DialogInv /\ RestartInv)'
  BY DialogInvStep, RestartInvStep
<1>3. DialogInv /\ RestartInv => TaskTypeOK /\ TeamSharesStep
  BY TaskInvShares DEF RestartInv, TaskInv
<1>4. (DialogInv /\ RestartInv) /\ [DialogNext]_allVars =>
        [asked.tt # "sweepNLB" => \A l \in Disk : disk'[l] # disk[l] => l \in AskedBlocks]_taskVars
  BY DialogWrites
<1> QED  BY <1>1, <1>2, <1>3, <1>4, PTL DEF DialogSpec, WritesOnlyAsked
=============================================================================
