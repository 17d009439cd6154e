-------------------------- MODULE RetentionProofs --------------------------
(***************************************************************************)
(* Theorems about Retention for any set of runs and rows, any batch limit, *)
(* and any number of requests, jobs, holds, purges and crashes.            *)
(***************************************************************************)
EXTENDS Retention, FiniteSetTheorems, TLAPS

-----------------------------------------------------------------------------
(* Finite sets of numbers.                                                 *)

LEMMA Lesser ==
    ASSUME NEW m \in Nat, NEW n \in Nat
    PROVE  \E k \in Nat : (k = m \/ k = n) /\ k <= m /\ k <= n
  OBVIOUS

LEMMA Greater ==
    ASSUME NEW m \in Nat, NEW n \in Nat
    PROVE  \E k \in Nat : (k = m \/ k = n) /\ m <= k /\ n <= k
  OBVIOUS

\* A finite set of numbers that is not empty has a smallest and a largest member.
LEMMA Extremes ==
    ASSUME NEW S \in SUBSET Nat, IsFiniteSet(S), S # {}
    PROVE  \E lo, hi \in S : \A x \in S : lo <= x /\ x <= hi
  <1> DEFINE Bounded(T) == \E lo, hi \in T : \A x \in T : lo <= x /\ x <= hi
             Bad == {T \in SUBSET S : T # {} /\ ~Bounded(T)}
  <1>1. SUFFICES ASSUME Bad # {} PROVE FALSE
    BY Zenon
  <1>2. /\ IsWellFoundedOn(StrictSubsetOrdering(S), FiniteSubsetsOf(S))
        /\ Bad \subseteq FiniteSubsetsOf(S)
    BY FS_StrictSubsetOrderingWellFounded, FS_FiniteSubsetsOfFinite
  <1>3. PICK T \in Bad : \A U \in Bad : <<U, T>> \notin StrictSubsetOrdering(S)
    <2> HIDE DEF Bad
    <2> QED BY <1>1, <1>2, WFMin
  <1>4. PICK e \in T : TRUE
    OBVIOUS
  <1> DEFINE U == T \ {e}
  <1>5. U \in SUBSET S /\ U \notin Bad
    BY <1>3, <1>4 DEF StrictSubsetOrdering
  <1>6. CASE U = {}
    <2>1. T = {e} /\ e \in Nat
      BY <1>4, <1>6
    <2>2. Bounded(T)
      BY <2>1
    <2> QED BY <2>2
  <1>7. CASE U # {}
    <2>1. PICK lo, hi \in U : \A x \in U : lo <= x /\ x <= hi
      BY <1>5, <1>7
    <2>2. lo \in T /\ hi \in T /\ e \in Nat /\ lo \in Nat /\ hi \in Nat
      BY <1>4, <2>1
    <2>3. PICK a \in Nat : (a = lo \/ a = e) /\ a <= lo /\ a <= e
      BY <2>2, Lesser
    <2>4. PICK b \in Nat : (b = hi \/ b = e) /\ hi <= b /\ e <= b
      BY <2>2, Greater
    <2>5. ASSUME NEW x \in T PROVE a <= x /\ x <= b
      <3>1. CASE x = e
        BY <2>3, <2>4, <3>1
      <3>2. CASE x \in U
        <4>1. lo <= x /\ x <= hi /\ x \in Nat
          BY <2>1, <3>2
        <4>2. \A m, n, k \in Nat : m <= n /\ n <= k => m <= k
          OBVIOUS
        <4>3. a <= lo /\ hi <= b
          BY <2>3, <2>4
        <4> QED BY <2>2, <4>1, <4>2, <4>3
      <3>3. QED
        BY <3>1, <3>2
    <2>6. Bounded(T)
      BY <2>2, <2>3, <2>4, <2>5
    <2> QED BY <2>6
  <1>8. QED
    BY <1>6, <1>7

\* Max is the largest member of such a set.
LEMMA MaxIsLargest ==
    ASSUME NEW S \in SUBSET Nat, IsFiniteSet(S), S # {}
    PROVE  Max(S) \in S /\ Max(S) \in Nat /\ \A x \in S : x <= Max(S)
  <1>1. \E h \in S : \A x \in S : h >= x
    BY Extremes
  <1>2. QED
    BY <1>1 DEF Max

-----------------------------------------------------------------------------
(* The rows the seals attest.                                              *)

\* A run has finitely many rows, and the last one is its terminal cursor.
LEMMA RunRows ==
    ASSUME NEW r \in Runs
    PROVE  /\ RowsOf[r] \in SUBSET Nat /\ IsFiniteSet(RowsOf[r]) /\ RowsOf[r] # {}
           /\ TerminalCursor(r) \in RowsOf[r] /\ TerminalCursor(r) \in Nat
           /\ \A x \in RowsOf[r] : x <= TerminalCursor(r) /\ x \in Nat
  <1>1. RowsOf[r] \in SUBSET Nat /\ IsFiniteSet(RowsOf[r]) /\ RowsOf[r] # {}
    BY ConstantsAssumption DEF ConstantsAssumption
  <1>2. QED
    BY <1>1, MaxIsLargest DEF TerminalCursor

\* A row belongs to one run.
LEMMA RowsAreDisjoint ==
    ASSUME NEW r \in Runs, NEW s \in Runs, NEW x \in RowsOf[r], x \in RowsOf[s]
    PROVE  r = s
  BY ConstantsAssumption DEF ConstantsAssumption

\* All runs together have finitely many rows.
LEMMA AllRowsFinite == IsFiniteSet(UNION {RowsOf[r] : r \in Runs})
  <1> DEFINE T == {RowsOf[r] : r \in Runs}
             f == [r \in Runs |-> RowsOf[r]]
  <1>1. f \in Surjection(Runs, T)
    BY DEF Surjection
  <1>2. IsFiniteSet(T)
    BY <1>1, FS_Surjection, ConstantsAssumption DEF ConstantsAssumption, ExistsSurjection
  <1>3. \A t \in T : IsFiniteSet(t)
    BY RunRows
  <1>4. QED
    BY <1>2, <1>3, FS_UNION

\* The high water of a set of runs is the last row of one of them.
LEMMA HighWaterIsARow ==
    ASSUME NEW candidates \in SUBSET Runs
    PROVE  /\ HighWater(candidates) \in Nat
           /\ \A r \in candidates : TerminalCursor(r) <= HighWater(candidates)
           /\ candidates # {} => \E r \in candidates : TerminalCursor(r) = HighWater(candidates)
  <1>1. CASE candidates = {}
    BY <1>1 DEF HighWater
  <1>2. CASE candidates # {}
    <2> DEFINE T == {TerminalCursor(r) : r \in candidates}
    <2>1. T \in SUBSET Nat /\ T # {} /\ T \subseteq UNION {RowsOf[r] : r \in Runs}
      BY <1>2, RunRows
    <2>2. IsFiniteSet(T)
      BY <2>1, AllRowsFinite, FS_Subset
    <2>3. Max(T) \in T /\ Max(T) \in Nat /\ \A x \in T : x <= Max(T)
      BY <2>1, <2>2, MaxIsLargest
    <2>4. QED
      BY <1>2, <2>3 DEF HighWater
  <1>3. QED
    BY <1>1, <1>2

-----------------------------------------------------------------------------
(* Types.                                                                  *)

BindingType == [id: Nat, cursor: Nat, batches: Nat]

\* TypeOK, with the shape of the records, and rows that are attested ones.
Types ==
    /\ present \in SUBSET Runs
    /\ rows \in [Runs -> SUBSET Nat]
    /\ \A r \in Runs : rows[r] \subseteq RowsOf[r]
    /\ attested \in [Runs -> Nat]
    /\ holds \in [Runs -> SUBSET HoldTypes]
    /\ slots \in SUBSET Runs
    /\ job # None => job \in [id: Nat, candidates: SUBSET Runs, verified: SUBSET Runs,
                             cursor: Nat, batches: Nat]
    /\ applier \in [Appliers -> [pc: {"idle", "prove", "commit"}, window: SUBSET Nat,
                                 binding: BindingType \cup {None}, proofs: SUBSET Runs]]
    /\ purge \in [pc: {"idle", "lock"}, linked: SUBSET Runs]
    /\ report \in [Reports -> [pc: {"none", "read", "committed", "deleted"},
                               sources: SUBSET Runs]]
    /\ count \in [holds: Nat, jobs: Nat, faults: Nat]

LEMMA CountTypes ==
    ASSUME count \in [holds: Nat, jobs: Nat, faults: Nat],
           NEW kind \in {"holds", "jobs", "faults"}, NEW bound, Counted(kind, bound)
    PROVE  /\ count' \in [holds: Nat, jobs: Nat, faults: Nat]
           /\ count'.jobs = count.jobs + (IF kind = "jobs" THEN 1 ELSE 0)
  BY DEF Counted

\* What is left to examine is a finite set of rows of the candidates.
LEMMA AheadRows ==
    ASSUME Types, job # None
    PROVE  /\ Ahead \in SUBSET Nat /\ IsFiniteSet(Ahead)
           /\ Window \subseteq Ahead /\ IsFiniteSet(Window)
           /\ \A x \in Ahead : x > job.cursor /\ \E r \in job.candidates : x \in rows[r]
           /\ \A r \in job.candidates : \A x \in rows[r] : x > job.cursor => x \in Ahead
  <1>1. job.candidates \subseteq Runs
    BY DEF Types
  <1>2. Ahead \in SUBSET Nat /\ Ahead \subseteq UNION {RowsOf[r] : r \in Runs}
    BY <1>1 DEF Ahead, Types
  <1>3. IsFiniteSet(Ahead)
    BY <1>2, AllRowsFinite, FS_Subset
  <1>4. Window \subseteq Ahead
    BY DEF Window
  <1>5. IsFiniteSet(Window)
    BY <1>3, <1>4, FS_Subset
  <1>6. /\ \A x \in Ahead : x > job.cursor /\ \E r \in job.candidates : x \in rows[r]
        /\ \A r \in job.candidates : \A x \in rows[r] : x > job.cursor => x \in Ahead
    BY DEF Ahead
  <1>7. QED
    BY <1>2, <1>3, <1>4, <1>5, <1>6

\* The window is the beginning of what is ahead, and empty only when nothing is.
LEMMA WindowIsFirst ==
    ASSUME Types, job # None
    PROVE  /\ \A w \in Window : \A x \in Ahead \ Window : w < x
           /\ Ahead # {} => Window # {}
  <1> DEFINE Below(x) == {y \in Ahead : y < x}
  <1>0. /\ Ahead \in SUBSET Nat /\ IsFiniteSet(Ahead) /\ BatchLimit \in Nat \ {0}
        /\ \A x \in Ahead : x \in Window <=> Cardinality(Below(x)) < BatchLimit
    BY AheadRows, ConstantsAssumption DEF Window, ConstantsAssumption
  <1>1. \A x : IsFiniteSet(Below(x)) /\ Cardinality(Below(x)) \in Nat
    BY <1>0, FS_Subset, FS_CardinalityType
  <1>2. ASSUME NEW w \in Window, NEW x \in Ahead \ Window PROVE w < x
    <2>1. w \in Ahead /\ w \in Nat /\ x \in Nat
      BY <1>0, AheadRows
    <2>2. SUFFICES ASSUME ~(w < x) PROVE FALSE
      OBVIOUS
    <2>3. ASSUME NEW y \in Below(x) PROVE y \in Below(w)
      <3>1. y \in Ahead /\ y \in Nat /\ y < x
        BY <1>0
      <3>2. y < w
        BY <2>1, <2>2, <3>1
      <3>3. QED
        BY <3>1, <3>2
    <2>4. Cardinality(Below(x)) <= Cardinality(Below(w))
      <3> HIDE DEF Below
      <3>1. Below(x) \in SUBSET Below(w)
        BY <2>3
      <3>2. QED
        BY <1>1, <3>1, FS_Subset
    <2>5. Cardinality(Below(w)) < BatchLimit /\ ~(Cardinality(Below(x)) < BatchLimit)
      BY <1>0, <2>1
    <2> HIDE DEF Below
    <2>6. QED
      BY <1>0, <1>1, <2>4, <2>5
  <1>3. ASSUME Ahead # {} PROVE Window # {}
    <2>1. PICK lo \in Ahead : \A x \in Ahead : lo <= x
      BY <1>0, <1>3, Extremes
    <2>2. Below(lo) = {}
      <3>1. ASSUME NEW y \in Ahead, y < lo PROVE FALSE
        <4>1. y \in Nat /\ lo \in Nat /\ lo <= y
          BY <1>0, <2>1
        <4>2. QED
          BY <3>1, <4>1
      <3>2. QED
        BY <3>1
    <2>3. Cardinality(Below(lo)) < BatchLimit
      BY <1>0, <2>2, FS_EmptySet
    <2>4. QED
      BY <1>0, <2>3
  <1>4. QED
    BY <1>2, <1>3

\* The runs of a window of the job are candidates that still have rows in it.
LEMMA WindowRunsAreCandidates ==
    ASSUME Types, job # None, NEW r \in WindowRuns(Window)
    PROVE  r \in job.candidates /\ \E x \in Window : x \in rows[r]
  <1>1. r \in Runs /\ \E x \in Window : x \in RowsOf[r]
    BY DEF WindowRuns
  <1>2. PICK x \in Window : x \in RowsOf[r]
    BY <1>1
  <1>3. PICK s \in job.candidates : x \in rows[s]
    BY <1>2, AheadRows
  <1>4. s \in Runs /\ x \in RowsOf[s]
    BY <1>3 DEF Types
  <1>5. r = s
    BY <1>1, <1>2, <1>4, RowsAreDisjoint
  <1>6. QED
    BY <1>2, <1>3, <1>5

-----------------------------------------------------------------------------
(* The inductive invariant.                                                *)

\* The terminal row of a frozen run is there, or the cursor has passed it, or it
\* went before the job began: then no batch has touched the run, and none will.
Untouched(r) ==
    /\ rows[r] # {}
    /\ r \notin job.verified
    /\ \A x \in rows[r] : job.cursor < x

JobInv ==
    job # None =>
        /\ job.id = count.jobs
        /\ job.verified \subseteq job.candidates
        /\ job.candidates # {} => job.cursor < HighWater(job.candidates)
        /\ \A r \in job.candidates :
             TerminalCursor(r) \in rows[r] \/ TerminalCursor(r) <= job.cursor \/ Untouched(r)

\* A request's binding is not of the future, and while the job has not moved its
\* window and its proofs are what they would be now.
PlanInv(a) ==
    applier[a].pc # "idle" =>
        /\ applier[a].binding \in BindingType
        /\ applier[a].binding.id <= count.jobs
        /\ job # None /\ applier[a].binding.id = job.id => applier[a].binding.batches <= job.batches
        /\ Fresh(a) => applier[a].window = Window
        /\ Fresh(a) /\ applier[a].pc = "commit" =>
             /\ applier[a].proofs = WindowRuns(applier[a].window) \ job.verified
             /\ \A r \in applier[a].proofs : Foldable(r)

RetentionInv ==
    /\ Types
    /\ AuditConserved
    /\ CandidatesExist
    /\ JobInv
    /\ \A a \in Appliers : PlanInv(a)

LEMMA InitRetentionInv == Init => RetentionInv
  <1> SUFFICES ASSUME Init PROVE RetentionInv
    OBVIOUS
  <1>0. /\ RowsOf \in [Runs -> SUBSET (Nat \ {0})]
        /\ \A r \in Runs : IsFiniteSet(RowsOf[r])
    BY ConstantsAssumption DEF ConstantsAssumption
  <1>1. Types
    BY <1>0 DEF Init, Types, Idle
  <1>2. AuditConserved
    <2>1. \A r \in Runs : Cardinality(RowsOf[r]) \in Nat
      BY <1>0, FS_CardinalityType
    <2>2. QED
      BY <2>1 DEF Init, AuditConserved
  <1>3. CandidatesExist /\ JobInv /\ \A a \in Appliers : PlanInv(a)
    BY DEF Init, CandidatesExist, Candidates, JobInv, PlanInv, Idle
  <1>4. QED
    BY <1>1, <1>2, <1>3 DEF RetentionInv

\* A step that leaves the job, the candidates and their rows alone keeps the job's
\* invariant and everything a fresh plan was made from.
LEMMA CandidatesUndisturbed ==
    ASSUME RetentionInv, UNCHANGED job, count'.jobs = count.jobs,
           \A r \in Candidates : /\ rows'[r] = rows[r] /\ attested'[r] = attested[r]
                                 /\ r \in present'
    PROVE  /\ CandidatesExist' /\ JobInv'
           /\ job # None => Window' = Window
           /\ \A r \in Candidates : Foldable(r)' <=> Foldable(r)
  <1>1. CASE job = None
    BY <1>1 DEF CandidatesExist, Candidates, JobInv
  <1>2. CASE job # None
    <2>1. /\ Candidates = job.candidates /\ job' # None /\ Candidates' = job.candidates
          /\ \A r \in job.candidates : rows'[r] = rows[r] /\ r \in present'
      BY <1>2 DEF Candidates
    <2>2. CandidatesExist'
      BY <2>1 DEF CandidatesExist
    <2>3. JobInv'
      BY <1>2, <2>1 DEF JobInv, RetentionInv, Untouched, HighWater, TerminalCursor
    <2>4. Ahead' = Ahead
      BY <2>1 DEF Ahead
    <2>5. Window' = Window
      BY <2>4 DEF Window
    <2>6. \A r \in Candidates : r \in present
      BY DEF RetentionInv, CandidatesExist
    <2>7. \A r \in Candidates : Foldable(r)' <=> Foldable(r)
      BY <2>6 DEF Foldable, TerminalCursor
    <2>8. QED
      BY <2>2, <2>3, <2>5, <2>7
  <1>3. QED
    BY <1>1, <1>2

\* ... and with it the plans of the requests that do not move.
LEMMA PlansUndisturbed ==
    ASSUME RetentionInv, UNCHANGED job, count'.jobs = count.jobs,
           \A r \in Candidates : /\ rows'[r] = rows[r] /\ attested'[r] = attested[r]
                                 /\ r \in present',
           NEW a \in Appliers, applier'[a] = applier[a]
    PROVE  PlanInv(a)'
  <1>1. PlanInv(a) /\ Types
    BY DEF RetentionInv
  <1>2. /\ Binding' = Binding /\ Fresh(a)' = Fresh(a)
        /\ WindowRuns(applier[a].window)' = WindowRuns(applier[a].window)
    BY DEF Binding, Fresh, WindowRuns
  <1>3. CASE Fresh(a) /\ applier[a].pc # "idle"
    <2>1. job # None /\ Window' = Window
      BY <1>3, CandidatesUndisturbed DEF Fresh
    <2>2. applier[a].pc = "commit" => applier[a].proofs \subseteq Candidates
      BY <1>1, <1>3, <2>1, WindowRunsAreCandidates DEF PlanInv, Candidates
    <2>3. applier[a].pc = "commit" => \A r \in applier[a].proofs : Foldable(r)'
      BY <1>1, <1>3, <2>2, CandidatesUndisturbed DEF PlanInv
    <2>4. QED
      BY <1>1, <1>2, <1>3, <2>1, <2>3 DEF PlanInv
  <1>4. CASE ~Fresh(a) \/ applier[a].pc = "idle"
    BY <1>1, <1>2, <1>4 DEF PlanInv
  <1>5. QED
    BY <1>3, <1>4

-----------------------------------------------------------------------------
(* One lemma for each kind of step.                                        *)

\* Holds, slots, reports and the first statement of a purge.
LEMMA ClientKeepsInv ==
    ASSUME RetentionInv,
           \/ \E r \in Runs : PlaceHold(r) \/ ReleaseHold(r) \/ SlotReleased(r)
           \/ \E q \in Reports : ReportReadsSources(q) \/ ReportCommits(q) \/ ReportDeleted(q)
           \/ PurgeReadsEvidence
    PROVE  RetentionInv'
  <1>1. Types
    BY DEF RetentionInv
  <1>2. UNCHANGED <<present, rows, attested, job, applier>>
    BY DEF PlaceHold, ReleaseHold, SlotReleased, ReportReadsSources, ReportCommits, ReportDeleted,
           PurgeReadsEvidence, jobVars
  <1>3. count' \in [holds: Nat, jobs: Nat, faults: Nat] /\ count'.jobs = count.jobs
    BY <1>1, CountTypes
    DEF Types, PlaceHold, ReleaseHold, SlotReleased, ReportReadsSources, ReportCommits,
        ReportDeleted, PurgeReadsEvidence
  <1>4. holds' \in [Runs -> SUBSET HoldTypes] /\ slots' \in SUBSET Runs
    <2>1. CASE \E r \in Runs : PlaceHold(r) \/ ReleaseHold(r) \/ SlotReleased(r)
      BY <1>1, <2>1 DEF Types, PlaceHold, ReleaseHold, SlotReleased
    <2>2. CASE UNCHANGED <<holds, slots>>
      BY <1>1, <2>2 DEF Types
    <2>3. QED
      BY <2>1, <2>2 DEF ReportReadsSources, ReportCommits, ReportDeleted, PurgeReadsEvidence
  <1>5. report' \in [Reports -> [pc: {"none", "read", "committed", "deleted"},
                                sources: SUBSET Runs]]
    <2>1. CASE \E q \in Reports : ReportReadsSources(q) \/ ReportCommits(q) \/ ReportDeleted(q)
      BY <1>1, <2>1 DEF Types, ReportReadsSources, ReportCommits, ReportDeleted
    <2>2. CASE UNCHANGED report
      BY <1>1, <2>2 DEF Types
    <2>3. QED
      BY <2>1, <2>2 DEF PlaceHold, ReleaseHold, SlotReleased, PurgeReadsEvidence
  <1>6. purge' \in [pc: {"idle", "lock"}, linked: SUBSET Runs]
    <2>1. CASE PurgeReadsEvidence
      BY <1>1, <2>1 DEF Types, PurgeReadsEvidence, Linked, Committed
    <2>2. CASE UNCHANGED purge
      BY <1>1, <2>2 DEF Types
    <2>3. QED
      BY <2>1, <2>2
      DEF PlaceHold, ReleaseHold, SlotReleased, ReportReadsSources, ReportCommits, ReportDeleted
  <1>7. Types'
    BY <1>1, <1>2, <1>3, <1>4, <1>5, <1>6 DEF Types
  <1>8. AuditConserved'
    BY <1>2 DEF RetentionInv, AuditConserved
  <1>9. \A r \in Candidates : r \in present'
    BY <1>2 DEF RetentionInv, CandidatesExist
  <1>10. CandidatesExist' /\ JobInv'
    BY <1>2, <1>3, <1>9, CandidatesUndisturbed
  <1>11. \A a \in Appliers : PlanInv(a)'
    BY <1>2, <1>3, <1>9, PlansUndisturbed
  <1>12. QED
    BY <1>7, <1>8, <1>10, <1>11 DEF RetentionInv

\* A purge takes no run of the active job, so a plan made before it still holds.
LEMMA PurgeKeepsInv ==
    ASSUME RetentionInv, PurgeDeletes
    PROVE  RetentionInv'
  <1> DEFINE gone == Purgeable(purge.linked)
  <1>1. Types
    BY DEF RetentionInv
  <1>2. /\ present' = present \ gone
        /\ rows' = [r \in Runs |-> IF r \in gone THEN {} ELSE rows[r]]
        /\ slots' = slots \ gone
        /\ purge' = [pc |-> "idle", linked |-> {}]
        /\ UNCHANGED <<attested, holds, job, applier, report, count>>
    BY DEF PurgeDeletes
  <1>3. \A r \in gone : r \notin Candidates
    BY DEF Purgeable
  <1> HIDE DEF gone
  <1>4. Types'
    BY <1>1, <1>2 DEF Types
  <1>5. AuditConserved'
    BY <1>1, <1>2 DEF RetentionInv, AuditConserved, Types
  <1>6. \A r \in Candidates : rows'[r] = rows[r] /\ attested'[r] = attested[r] /\ r \in present'
    BY <1>1, <1>2, <1>3 DEF RetentionInv, CandidatesExist, Types
  <1>7. count'.jobs = count.jobs
    BY <1>2
  <1>8. CandidatesExist' /\ JobInv'
    BY <1>2, <1>6, <1>7, CandidatesUndisturbed
  <1>9. \A a \in Appliers : PlanInv(a)'
    BY <1>2, <1>6, <1>7, PlansUndisturbed
  <1>10. QED
    BY <1>4, <1>5, <1>8, <1>9 DEF RetentionInv

\* A new job starts before the first row of runs that still have some.
LEMMA PreviewKeepsInv ==
    ASSUME RetentionInv, Preview
    PROVE  RetentionInv'
  <1>1. Types /\ AuditConserved
    BY DEF RetentionInv
  <1>2. /\ job = None
        /\ job' = [id |-> count.jobs + 1, candidates |-> Eligible, verified |-> {},
                   cursor |-> 0, batches |-> 0]
        /\ UNCHANGED <<present, rows, attested, holds, slots, applier, purge, report>>
        /\ Counted("jobs", MaxJobs)
    BY DEF Preview
  <1>3. count' \in [holds: Nat, jobs: Nat, faults: Nat] /\ count'.jobs = count.jobs + 1
    BY <1>1, <1>2, CountTypes DEF Types
  <1>4. Eligible \in SUBSET Runs /\ Eligible \subseteq present
    BY <1>1 DEF Eligible, Types
  <1>5. count.jobs \in Nat /\ count.jobs + 1 \in Nat
    BY <1>1 DEF Types
  <1>6. Types'
    BY <1>1, <1>2, <1>3, <1>4, <1>5 DEF Types
  <1>7. AuditConserved' /\ CandidatesExist'
    BY <1>1, <1>2, <1>4 DEF AuditConserved, CandidatesExist, Candidates
  <1>8. JobInv'
    <2>1. ASSUME NEW r \in Eligible
          PROVE  rows[r] # {} /\ (\A x \in rows[r] : 0 < x) /\ 0 < TerminalCursor(r)
      <3>1. /\ r \in Runs /\ r \in present /\ attested[r] < Cardinality(RowsOf[r])
            /\ attested[r] \in Nat /\ rows[r] \subseteq RowsOf[r]
        BY <1>1, <1>4 DEF Eligible, Types
      <3>2. Cardinality(rows[r]) + attested[r] = Cardinality(RowsOf[r])
        BY <1>1, <3>1 DEF AuditConserved
      <3>3. rows[r] # {}
        BY <3>1, <3>2, FS_EmptySet
      <3>4. RowsOf[r] \in SUBSET (Nat \ {0})
        BY <3>1, ConstantsAssumption DEF ConstantsAssumption
      <3>5. TerminalCursor(r) \in RowsOf[r]
        BY <3>1, RunRows
      <3>6. \A x \in RowsOf[r] : 0 < x
        BY <3>4
      <3>7. QED
        BY <3>1, <3>3, <3>5, <3>6
    <2>2. Eligible # {} => 0 < HighWater(Eligible)
      BY <1>4, <2>1, HighWaterIsARow
    <2>3. \A r \in Eligible : rows'[r] # {} /\ \A x \in rows'[r] : 0 < x
      BY <1>2, <2>1
    <2>4. /\ job'.candidates = Eligible /\ job'.verified = {} /\ job'.cursor = 0
          /\ job'.id = count'.jobs
      BY <1>2, <1>3
    <2>6. \A r \in Eligible : Untouched(r)'
      BY <2>3, <2>4 DEF Untouched
    <2>7. HighWater(job'.candidates) = HighWater(Eligible)
      BY <2>4
    <2>8. QED
      BY <2>2, <2>4, <2>6, <2>7 DEF JobInv, HighWater, TerminalCursor
  <1>9. \A a \in Appliers : PlanInv(a)'
    <2>1. SUFFICES ASSUME NEW a \in Appliers, applier[a].pc # "idle" PROVE PlanInv(a)'
      BY <1>2 DEF PlanInv
    <2>2. applier[a].binding \in BindingType /\ applier[a].binding.id <= count.jobs
      BY <2>1 DEF RetentionInv, PlanInv
    <2>3. applier[a].binding.id # job'.id /\ applier[a].binding.id <= count'.jobs
      BY <1>2, <1>3, <1>5, <2>2 DEF BindingType
    <2>4. ~Fresh(a)'
      BY <1>2, <2>3 DEF Fresh, Binding
    <2>5. QED
      BY <1>2, <2>2, <2>3, <2>4 DEF PlanInv
  <1>10. QED
    BY <1>6, <1>7, <1>8, <1>9 DEF RetentionInv

\* Planning, proving and giving up concern one request.
LEMMA ApplierKeepsInv ==
    ASSUME RetentionInv, NEW a \in Appliers, Prepare(a) \/ Prove(a) \/ Conflict(a) \/ Crash(a)
    PROVE  RetentionInv'
  <1>1. Types
    BY DEF RetentionInv
  <1>2. UNCHANGED <<present, rows, attested, holds, slots, job, purge, report>>
    BY DEF Prepare, Prove, Conflict, Crash, jobVars
  <1>3. count' \in [holds: Nat, jobs: Nat, faults: Nat] /\ count'.jobs = count.jobs
    BY <1>1, CountTypes DEF Types, Prepare, Prove, Conflict, Crash
  <1>4. \A r \in Candidates : r \in present'
    BY <1>2 DEF RetentionInv, CandidatesExist
  <1>5. AuditConserved' /\ CandidatesExist' /\ JobInv'
    BY <1>2, <1>3, <1>4, CandidatesUndisturbed DEF RetentionInv, AuditConserved
  <1>6. \A b \in Appliers : b # a => applier'[b] = applier[b]
    BY <1>1 DEF Types, Prepare, Prove, Conflict, Crash, Fails
  <1>7. \A b \in Appliers : b # a => PlanInv(b)'
    BY <1>2, <1>3, <1>4, <1>6, PlansUndisturbed
  <1>8. Idle \in [pc: {"idle", "prove", "commit"}, window: SUBSET Nat,
                  binding: BindingType \cup {None}, proofs: SUBSET Runs]
    BY DEF Idle
  <1>9. job # None => Window' = Window /\ Binding' = Binding
    BY <1>2 DEF Window, Ahead, Binding
  <1>10. CASE Prepare(a)
    <2>1. job # None /\ applier' = [applier EXCEPT ![a] =
             [pc |-> "prove", window |-> Window, binding |-> Binding, proofs |-> {}]]
      BY <1>10 DEF Prepare
    <2>2. Window \in SUBSET Nat
      BY <1>1, <2>1, AheadRows
    <2>3. Binding \in BindingType /\ Binding.id = job.id /\ Binding.batches = job.batches
      BY <1>1, <2>1 DEF Types, Binding, BindingType
    <2>4. Types'
      BY <1>1, <1>2, <1>3, <2>1, <2>2, <2>3 DEF Types
    <2>5. applier'[a] = [pc |-> "prove", window |-> Window, binding |-> Binding, proofs |-> {}]
      BY <1>1, <2>1 DEF Types
    <2>6. job.id = count.jobs /\ job.batches \in Nat /\ count.jobs \in Nat
      BY <1>1, <2>1 DEF RetentionInv, JobInv, Types
    <2>7. PlanInv(a)'
      BY <1>2, <1>3, <1>9, <2>1, <2>3, <2>5, <2>6 DEF PlanInv
    <2>8. QED
      BY <1>5, <1>7, <2>4, <2>7 DEF RetentionInv
  <1>11. CASE Prove(a) /\ ~Fails(a)
    <2> DEFINE unverified == IF job = None THEN {}
                             ELSE WindowRuns(applier[a].window) \ job.verified
    <2>1. /\ applier[a].pc = "prove"
          /\ \A r \in unverified : Foldable(r)
          /\ applier' = [applier EXCEPT ![a].pc = "commit", ![a].proofs = unverified]
      BY <1>11 DEF Prove
    <2>2. unverified \in SUBSET Runs
      BY DEF WindowRuns
    <2> HIDE DEF unverified
    <2>11. applier' \in [Appliers -> [pc: {"idle", "prove", "commit"}, window: SUBSET Nat,
                                     binding: BindingType \cup {None}, proofs: SUBSET Runs]]
      <3>1. applier[a] \in [pc: {"idle", "prove", "commit"}, window: SUBSET Nat,
                            binding: BindingType \cup {None}, proofs: SUBSET Runs]
        BY <1>1 DEF Types
      <3>2. applier' = [applier EXCEPT ![a] =
                          [applier[a] EXCEPT !.pc = "commit", !.proofs = unverified]]
        BY <1>1, <2>1 DEF Types
      <3>3. [applier[a] EXCEPT !.pc = "commit", !.proofs = unverified]
              \in [pc: {"idle", "prove", "commit"}, window: SUBSET Nat,
                   binding: BindingType \cup {None}, proofs: SUBSET Runs]
        BY <2>2, <3>1
      <3>4. QED
        BY <1>1, <3>2, <3>3 DEF Types
    <2>3. Types'
      BY <1>1, <1>2, <1>3, <2>11 DEF Types
    <2>4. /\ applier'[a].pc = "commit" /\ applier'[a].proofs = unverified
          /\ applier'[a].window = applier[a].window /\ applier'[a].binding = applier[a].binding
      BY <1>1, <2>1 DEF Types
    <2>5. PlanInv(a)
      BY DEF RetentionInv
    <2>6. /\ Fresh(a)' = Fresh(a)
          /\ \A r \in unverified : Foldable(r)'
          /\ WindowRuns(applier[a].window)' = WindowRuns(applier[a].window)
      <3>1. Fresh(a)' = Fresh(a)
        BY <1>2, <2>4 DEF Fresh, Binding
      <3>2. \A r \in unverified : Foldable(r)'
        <4>1. \A r : Foldable(r)' <=> Foldable(r)
          BY <1>2 DEF Foldable, TerminalCursor
        <4>2. QED
          BY <2>1, <4>1
      <3>3. WindowRuns(applier[a].window)' = WindowRuns(applier[a].window)
        BY <2>4 DEF WindowRuns
      <3>4. QED
        BY <3>1, <3>2, <3>3
    <2>7. Fresh(a) => unverified = WindowRuns(applier[a].window) \ job.verified
      BY DEF Fresh, unverified
    <2>8. Fresh(a) => Window' = Window
      BY <1>9 DEF Fresh
    <2>9. PlanInv(a)'
      BY <1>2, <1>3, <2>1, <2>4, <2>5, <2>6, <2>7, <2>8 DEF PlanInv
    <2>10. QED
      BY <1>5, <1>7, <2>3, <2>9 DEF RetentionInv
  <1>12. CASE Fails(a)
    <2>1. Types' /\ applier'[a] = Idle
      BY <1>1, <1>2, <1>3, <1>8, <1>12 DEF Fails, Types
    <2>2. PlanInv(a)'
      BY <2>1 DEF PlanInv, Idle
    <2>3. QED
      BY <1>5, <1>7, <2>1, <2>2 DEF RetentionInv
  <1>13. QED
    BY <1>10, <1>11, <1>12 DEF Conflict, Crash

\* A batch removes rows of the job's runs, accounts for them, and moves the cursor
\* past what it examined.
LEMMA CommitKeepsInv ==
    ASSUME RetentionInv, NEW a \in Appliers, Commit(a)
    PROVE  RetentionInv'
  <1> DEFINE W == applier[a].window
             proofs == applier[a].proofs
             gone == Deletable(W)
  <1>1. /\ Types /\ AuditConserved /\ CandidatesExist /\ JobInv
        /\ \A b \in Appliers : PlanInv(b)
    BY DEF RetentionInv
  <1>2. /\ job # None /\ W = Window /\ proofs = WindowRuns(W) \ job.verified
        /\ \A r \in proofs : Foldable(r)
    BY DEF Commit, PlanHolds
  <1>3. /\ rows' = [r \in Runs |-> rows[r] \ gone]
        /\ attested' = [r \in Runs |-> attested[r] + Cardinality(rows[r] \cap gone)]
        /\ applier' = [applier EXCEPT ![a] = Idle]
        /\ UNCHANGED <<present, holds, slots, purge, report, count>>
    BY DEF Commit, DeleteRows
  <1>4. /\ W = {} => job' = None
        /\ W # {} => job' = None \/ /\ Max(W) < HighWater(job.candidates)
                                    /\ job' = [job EXCEPT !.verified = @ \cup proofs,
                                                          !.cursor = Max(W), !.batches = @ + 1]
    <2>1. W \in SUBSET Nat /\ IsFiniteSet(W)
      BY <1>1, <1>2, AheadRows
    <2>2. W # {} => Max(W) \in Nat
      BY <2>1, MaxIsLargest
    <2>3. HighWater(job.candidates) \in Nat
      BY <1>1, <1>2, HighWaterIsARow DEF Types
    <2>4. \A m, n \in Nat : m >= n \/ m < n
      OBVIOUS
    <2>5. W # {} => Max(W) >= HighWater(job.candidates) \/ Max(W) < HighWater(job.candidates)
      BY <2>2, <2>3, <2>4
    <2> HIDE DEF W, proofs
    <2>6. Advance(W, proofs)
      BY DEF Commit, W, proofs
    <2>7. QED
      BY <2>5, <2>6 DEF Advance
  <1>5. gone \subseteq W
    BY DEF Deletable
  <1>6. proofs \subseteq job.candidates
    BY <1>1, <1>2, WindowRunsAreCandidates
  <1>7. W \in SUBSET Nat /\ IsFiniteSet(W) /\ W \subseteq Ahead
    BY <1>1, <1>2, AheadRows
  <1>8. W # {} => /\ Max(W) \in Nat /\ Max(W) \in W /\ \A x \in W : x <= Max(W)
                  /\ job.cursor < Max(W)
    BY <1>1, <1>2, <1>7, MaxIsLargest, AheadRows DEF Types
  <1>9. /\ job.cursor \in Nat /\ job.batches \in Nat /\ job.id \in Nat
        /\ job.candidates \in SUBSET Runs /\ job.verified \in SUBSET Runs
    BY <1>1, <1>2 DEF Types
  <1>10. job' # None =>
          /\ W # {} /\ job'.id = job.id /\ job'.candidates = job.candidates
          /\ job'.verified = job.verified \cup proofs
          /\ job'.cursor = Max(W) /\ job'.batches = job.batches + 1
          /\ Max(W) < HighWater(job.candidates)
          /\ job' \in [id: Nat, candidates: SUBSET Runs, verified: SUBSET Runs,
                       cursor: Nat, batches: Nat]
    <2> HIDE DEF W, proofs
    <2>1. job \in [id: Nat, candidates: SUBSET Runs, verified: SUBSET Runs,
                   cursor: Nat, batches: Nat]
      BY <1>1, <1>2 DEF Types
    <2>2. job.verified \cup proofs \in SUBSET Runs
      BY <1>6, <1>9
    <2>3. job' # None => /\ W # {} /\ Max(W) < HighWater(job.candidates) /\ Max(W) \in Nat
                         /\ job' = [job EXCEPT !.verified = @ \cup proofs,
                                               !.cursor = Max(W), !.batches = @ + 1]
      BY <1>4, <1>8
    <2>4. job.batches + 1 \in Nat
      BY <1>9
    <2>5. job' # None =>
            job' = [id |-> job.id, candidates |-> job.candidates,
                    verified |-> job.verified \cup proofs, cursor |-> Max(W),
                    batches |-> job.batches + 1]
      BY <2>1, <2>3
    <2>6. QED
      BY <1>9, <2>2, <2>3, <2>4, <2>5
  <1>11. /\ \A r \in Runs : rows'[r] = rows[r] \ gone
         /\ \A r \in Runs : attested'[r] = attested[r] + Cardinality(rows[r] \cap gone)
         /\ \A r \in Runs : /\ IsFiniteSet(rows[r]) /\ Cardinality(rows[r] \cap gone) \in Nat
                            /\ Cardinality(rows[r] \ gone)
                                 = Cardinality(rows[r]) - Cardinality(rows[r] \cap gone)
    <2> HIDE DEF gone
    <2>1. \A r \in Runs : IsFiniteSet(rows[r])
      <3>1. \A r \in Runs : rows[r] \in SUBSET RowsOf[r]
        BY <1>1 DEF Types
      <3>2. QED
        BY <3>1, RunRows, FS_Subset
    <2>2. \A r \in Runs : Cardinality(rows[r] \cap gone) \in Nat
      BY <2>1, FS_Subset, FS_CardinalityType
    <2>3. \A r \in Runs : Cardinality(rows[r] \ gone)
                            = Cardinality(rows[r]) - Cardinality(rows[r] \cap gone)
      BY <2>1, FS_Difference
    <2>4. QED
      BY <1>3, <2>1, <2>2, <2>3
  <1> HIDE DEF W, proofs, gone
  <1>12. Types'
    <2>1. rows' \in [Runs -> SUBSET Nat] /\ \A r \in Runs : rows'[r] \subseteq RowsOf[r]
      BY <1>1, <1>3 DEF Types
    <2>2. attested' \in [Runs -> Nat]
      <3>1. \A r \in Runs : attested[r] \in Nat /\ Cardinality(rows[r] \cap gone) \in Nat
        BY <1>1, <1>11 DEF Types
      <3>2. \A m, n \in Nat : m + n \in Nat
        OBVIOUS
      <3>3. \A r \in Runs : attested[r] + Cardinality(rows[r] \cap gone) \in Nat
        BY <3>1, <3>2
      <3>4. QED
        BY <1>3, <3>3
    <2>3. applier' \in [Appliers -> [pc: {"idle", "prove", "commit"}, window: SUBSET Nat,
                                     binding: BindingType \cup {None}, proofs: SUBSET Runs]]
      BY <1>1, <1>3 DEF Types, Idle
    <2>4. QED
      BY <1>1, <1>3, <1>10, <2>1, <2>2, <2>3 DEF Types
  <1>13. AuditConserved'
    <2>1. ASSUME NEW r \in present
          PROVE  Cardinality(rows'[r]) + attested'[r] = Cardinality(RowsOf[r])
      <3>1. r \in Runs /\ attested[r] \in Nat
        BY <1>1 DEF Types
      <3>2. Cardinality(rows[r]) + attested[r] = Cardinality(RowsOf[r])
        BY <1>1 DEF AuditConserved
      <3>3. Cardinality(rows[r]) \in Nat
        BY <1>11, <3>1, FS_CardinalityType
      <3>4. /\ Cardinality(rows'[r]) = Cardinality(rows[r]) - Cardinality(rows[r] \cap gone)
            /\ attested'[r] = attested[r] + Cardinality(rows[r] \cap gone)
            /\ Cardinality(rows[r] \cap gone) \in Nat
        BY <1>11, <3>1
      <3>5. QED
        BY <3>1, <3>2, <3>3, <3>4
    <2>2. QED
      BY <1>3, <2>1 DEF AuditConserved
  <1>14. CandidatesExist'
    BY <1>1, <1>2, <1>3, <1>10 DEF CandidatesExist, Candidates
  <1>15. JobInv'
    <2>1. SUFFICES ASSUME job' # None PROVE JobInv'
      BY DEF JobInv
    <2>2. /\ job.id = count.jobs /\ job.verified \subseteq job.candidates
          /\ \A r \in job.candidates :
               TerminalCursor(r) \in rows[r] \/ TerminalCursor(r) <= job.cursor \/ Untouched(r)
      BY <1>1, <1>2 DEF JobInv
    <2>3. ASSUME NEW r \in job.candidates
          PROVE  TerminalCursor(r) \in rows'[r] \/ TerminalCursor(r) <= job'.cursor
                 \/ Untouched(r)'
      <3>1. r \in Runs /\ TerminalCursor(r) \in Nat /\ rows[r] \subseteq RowsOf[r]
        BY <1>1, <1>9, RunRows DEF Types
      <3>2. CASE TerminalCursor(r) <= job.cursor
        BY <1>8, <1>9, <1>10, <2>1, <3>1, <3>2
      <3>3. CASE TerminalCursor(r) \in rows[r]
        <4>1. CASE TerminalCursor(r) \in W
          BY <1>8, <1>10, <2>1, <4>1
        <4>2. CASE TerminalCursor(r) \notin W
          BY <1>5, <1>11, <3>1, <3>3, <4>2
        <4>3. QED
          BY <4>1, <4>2
      <3>4. CASE Untouched(r) /\ r \in WindowRuns(W)
        <4>1. r \in proofs
          BY <1>2, <3>4 DEF Untouched
        <4>2. TerminalCursor(r) \in rows[r]
          BY <1>2, <4>1 DEF Foldable
        <4>3. QED
          BY <3>3, <4>2
      <3>5. CASE Untouched(r) /\ r \notin WindowRuns(W)
        <4>1. RowsOf[r] \cap W = {} /\ rows'[r] = rows[r]
          BY <1>5, <1>11, <3>1, <3>5 DEF WindowRuns
        <4>2. r \notin job'.verified
          BY <1>2, <1>10, <2>1, <3>5 DEF Untouched
        <4>3. ASSUME NEW x \in rows[r] PROVE Max(W) < x
          <5>1. x \in Ahead \ Window
            <6>1. job.cursor < x /\ x \in Nat
              BY <1>1, <3>1, <3>5 DEF Untouched, Types
            <6>2. x > job.cursor
              BY <6>1, <1>9
            <6>3. QED
              BY <1>1, <1>2, <3>1, <4>1, <6>2, AheadRows
          <5>2. QED
            BY <1>1, <1>2, <1>8, <1>10, <2>1, <5>1, WindowIsFirst
        <4>4. QED
          BY <1>10, <2>1, <3>5, <4>1, <4>2, <4>3 DEF Untouched
      <3>6. QED
        BY <2>2, <3>2, <3>3, <3>4, <3>5
    <2>4. HighWater(job.candidates)' = HighWater(job.candidates)
      BY <1>10, <2>1 DEF HighWater, TerminalCursor
    <2>5. /\ job'.id = count'.jobs /\ job'.verified \subseteq job'.candidates
          /\ job'.cursor < HighWater(job'.candidates)
      BY <1>3, <1>6, <1>10, <2>1, <2>2
    <2>6. QED
      BY <1>10, <2>1, <2>3, <2>5 DEF JobInv, HighWater, TerminalCursor
  <1>16. ASSUME NEW b \in Appliers PROVE PlanInv(b)'
    <2>1. CASE b = a
      <3>1. applier'[b].pc = "idle"
        BY <1>1, <1>3, <2>1 DEF Types, Idle
      <3>2. QED
        BY <3>1 DEF PlanInv
    <2>2. CASE b # a
      <3>1. applier'[b] = applier[b]
        BY <1>1, <1>3, <2>2 DEF Types
      <3>2. SUFFICES ASSUME applier[b].pc # "idle" PROVE PlanInv(b)'
        BY <3>1 DEF PlanInv
      <3>3. /\ applier[b].binding \in BindingType /\ applier[b].binding.id <= count.jobs
            /\ applier[b].binding.id = job.id => applier[b].binding.batches <= job.batches
        BY <1>1, <1>2, <3>2 DEF PlanInv
      <3>4. applier[b].binding.batches \in Nat
        BY <3>3 DEF BindingType
      <3>5. job' # None /\ applier'[b].binding.id = job'.id
              => applier'[b].binding.batches < job'.batches
        BY <1>9, <1>10, <3>1, <3>3, <3>4
      <3>6. ~Fresh(b)'
        <4>1. SUFFICES ASSUME job' # None, applier'[b].binding = Binding' PROVE FALSE
          BY DEF Fresh
        <4>2. applier'[b].binding.id = job'.id /\ applier'[b].binding.batches = job'.batches
          BY <4>1 DEF Binding
        <4>3. QED
          BY <1>9, <1>10, <3>5, <4>1, <4>2
      <3>7. job' # None /\ applier'[b].binding.id = job'.id
              => applier'[b].binding.batches <= job'.batches
        BY <1>9, <1>10, <3>1, <3>4, <3>5
      <3>8. QED
        BY <1>3, <3>1, <3>3, <3>6, <3>7 DEF PlanInv
    <2>3. QED
      BY <2>1, <2>2
  <1>17. QED
    BY <1>12, <1>13, <1>14, <1>15, <1>16 DEF RetentionInv

-----------------------------------------------------------------------------
(* The invariant and what follows from it.                                 *)

LEMMA NextKeepsInv == RetentionInv /\ [Next]_vars => RetentionInv'
  <1> SUFFICES ASSUME RetentionInv, [Next]_vars PROVE RetentionInv'
    OBVIOUS
  <1>1. CASE \/ \E r \in Runs : PlaceHold(r) \/ ReleaseHold(r) \/ SlotReleased(r)
             \/ \E q \in Reports : ReportReadsSources(q) \/ ReportCommits(q) \/ ReportDeleted(q)
             \/ PurgeReadsEvidence
    BY <1>1, ClientKeepsInv
  <1>2. CASE PurgeDeletes
    BY <1>2, PurgeKeepsInv
  <1>3. CASE Preview
    BY <1>3, PreviewKeepsInv
  <1>4. CASE \E a \in Appliers : Apply(a) \/ Crash(a)
    BY <1>4, ApplierKeepsInv, CommitKeepsInv DEF Apply
  <1>5. CASE UNCHANGED vars
    <2>1. UNCHANGED <<present, rows, attested, holds, slots, job, applier, purge, report, count>>
      BY <1>5 DEF vars, jobVars
    <2>2. \A r \in Candidates : r \in present'
      BY <2>1 DEF RetentionInv, CandidatesExist
    <2>3. Types' /\ AuditConserved'
      BY <2>1 DEF RetentionInv, Types, AuditConserved
    <2>4. CandidatesExist' /\ JobInv'
      BY <2>1, <2>2, CandidatesUndisturbed
    <2>5. \A a \in Appliers : PlanInv(a)'
      BY <2>1, <2>2, PlansUndisturbed
    <2>6. QED
      BY <2>3, <2>4, <2>5 DEF RetentionInv
  <1>6. QED
    BY <1>1, <1>2, <1>3, <1>4, <1>5 DEF Next

LEMMA RetentionInvariant == Spec => []RetentionInv
  BY InitRetentionInv, NextKeepsInv, PTL DEF Spec

\* Every variable of the retention services has its type in every reachable state.
THEOREM TypeCorrect == Spec => []TypeOK
  <1>1. RetentionInv => TypeOK
    BY DEF RetentionInv, Types, TypeOK
  <1>2. QED
    BY <1>1, RetentionInvariant, PTL

\* ObservationRetentionService.apply: whatever holds, crashes, competing requests and
\* later jobs do, the rows left of a run and the deletions its verified candidates
\* account for are together the rows its seal attests.
THEOREM AuditsConserve == Spec => []AuditConserved
  <1>1. RetentionInv => AuditConserved
    BY DEF RetentionInv
  <1>2. QED
    BY <1>1, RetentionInvariant, PTL

\* RetentionService.apply reads the reports before it locks the runs, and the active
\* job after it: no run an active job froze is ever purged.
THEOREM CandidatesStay == Spec => []CandidatesExist
  <1>1. RetentionInv => CandidatesExist
    BY DEF RetentionInv
  <1>2. QED
    BY <1>1, RetentionInvariant, PTL

\* When nothing is ahead of the cursor the job is at its high water: a run that has
\* its last row, or that no batch touched, still has rows ahead.
LEMMA NothingAheadIsTheEnd ==
    ASSUME RetentionInv, job # None, Window = {}
    PROVE  job.cursor >= HighWater(job.candidates)
  <1>1. /\ Types /\ JobInv /\ job.candidates \in SUBSET Runs /\ job.cursor \in Nat
    BY DEF RetentionInv, Types
  <1>2. Ahead = {}
    BY <1>1, WindowIsFirst
  <1>3. CASE job.candidates = {}
    BY <1>1, <1>3 DEF HighWater
  <1>4. CASE job.candidates # {}
    <2>1. PICK r \in job.candidates : TerminalCursor(r) = HighWater(job.candidates)
      BY <1>1, <1>4, HighWaterIsARow
    <2>2. HighWater(job.candidates) \in Nat /\ job.cursor < HighWater(job.candidates)
      BY <1>1, <1>4, HighWaterIsARow DEF JobInv
    <2>3. CASE TerminalCursor(r) \in rows[r]
      <3>1. TerminalCursor(r) > job.cursor
        BY <1>1, <2>1, <2>2
      <3>2. TerminalCursor(r) \in Ahead
        BY <1>1, <2>3, <3>1, AheadRows
      <3>3. QED
        BY <1>2, <3>2
    <2>4. CASE TerminalCursor(r) <= job.cursor
      BY <1>1, <2>1, <2>2, <2>4
    <2>5. CASE Untouched(r)
      <3>1. PICK x \in rows[r] : job.cursor < x
        BY <2>5 DEF Untouched
      <3>2. x > job.cursor
        BY <3>1
      <3>3. x \in Ahead
        BY <1>1, <3>2, AheadRows
      <3>4. QED
        BY <1>2, <3>3
    <2>6. QED
      BY <1>1, <2>1, <2>3, <2>4, <2>5 DEF JobInv
  <1>5. QED
    BY <1>3, <1>4

\* Between the two transactions of a batch no hold, slot, purge or report can stop it:
\* while the job has not moved, its commit succeeds and its proofs fail only for a
\* run whose last row went before an earlier one.
THEOREM FreshPlansAlwaysHold == Spec => []FreshPlansHold
  <1>1. ASSUME RetentionInv, NEW a \in Appliers, Fresh(a), applier[a].pc # "idle"
        PROVE  /\ applier[a].pc = "commit" => PlanHolds(a)
               /\ applier[a].pc = "prove" =>
                    \/ \A r \in WindowRuns(applier[a].window) \ job.verified : Foldable(r)
                    \/ \E r \in Candidates : Stranded(r)
    <2>1. /\ Types /\ AuditConserved /\ CandidatesExist /\ PlanInv(a) /\ job # None
          /\ Candidates = job.candidates /\ applier[a].binding = Binding
      BY <1>1 DEF RetentionInv, Fresh, Candidates
    <2>2. applier[a].window = Window
      BY <1>1, <2>1 DEF PlanInv
    <2>3. /\ WindowRuns(applier[a].window) \subseteq job.candidates
          /\ job.candidates \subseteq present
      BY <2>1, <2>2, WindowRunsAreCandidates DEF CandidatesExist
    <2>4. ASSUME applier[a].pc = "commit" PROVE PlanHolds(a)
      <3>1. /\ applier[a].proofs = WindowRuns(applier[a].window) \ job.verified
            /\ \A r \in applier[a].proofs : Foldable(r)
        BY <1>1, <2>1, <2>4 DEF PlanInv
      <3>2. applier[a].window # {} \/ job.cursor >= HighWater(job.candidates)
        BY <1>1, <2>1, <2>2, NothingAheadIsTheEnd
      <3>3. QED
        BY <2>1, <2>2, <2>3, <3>1, <3>2 DEF PlanHolds
    <2>5. ASSUME NEW r \in WindowRuns(applier[a].window) \ job.verified, ~Foldable(r)
          PROVE  Stranded(r) /\ r \in Candidates
      <3>1. r \in job.candidates /\ r \in present /\ r \in Runs /\ rows[r] # {}
        BY <2>1, <2>2, <2>3, WindowRunsAreCandidates DEF Types
      <3>2. rows[r] \in SUBSET RowsOf[r] /\ attested[r] \in Nat
        BY <2>1, <3>1 DEF Types
      <3>3. IsFiniteSet(rows[r]) /\ IsFiniteSet(RowsOf[r])
        BY <3>1, <3>2, RunRows, FS_Subset
      <3>4. Cardinality(rows[r]) \in Nat /\ Cardinality(RowsOf[r]) \in Nat
        BY <3>3, FS_CardinalityType
      <3>5. Cardinality(rows[r]) + attested[r] = Cardinality(RowsOf[r])
        BY <2>1, <3>1 DEF AuditConserved
      <3>6. Cardinality(rows[r]) = Cardinality(RowsOf[r]) - attested[r]
        BY <3>2, <3>4, <3>5
      <3>7. QED
        BY <2>1, <2>5, <3>1, <3>6 DEF Foldable, Stranded
    <2>6. QED
      BY <2>4, <2>5
  <1>2. RetentionInv => FreshPlansHold
    BY <1>1 DEF FreshPlansHold
  <1>3. QED
    BY <1>2, RetentionInvariant, PTL

-----------------------------------------------------------------------------
(* What a step may never do.                                               *)

\* What every step does to the rows, the runs and the job.
LEMMA StepKinds ==
    ASSUME [Next]_vars
    PROVE  \/ UNCHANGED <<present, rows, job>>
           \/ UNCHANGED <<present, rows>> /\ job = None
           \/ PurgeDeletes
           \/ \E a \in Appliers : Commit(a)
  BY DEF Next, vars, jobVars, PlaceHold, ReleaseHold, SlotReleased, ReportReadsSources,
         ReportCommits, ReportDeleted, PurgeReadsEvidence, Preview, Apply, Prepare, Prove,
         Conflict, Crash

\* apply and the purge check the holds in the transaction that deletes, under the lock
\* of the run: nothing of a run is removed while it is held, however long ago the
\* batch was verified or the reports were read.
THEOREM HeldRunsAreKept == Spec => HeldIsKept
  <1>1. ASSUME RetentionInv, [Next]_vars, NEW r \in Runs, holds[r] # {}
        PROVE  rows'[r] = rows[r] /\ (r \in present => r \in present')
    <2>1. Types
      BY <1>1 DEF RetentionInv
    <2>2. CASE PurgeDeletes
      BY <1>1, <2>1, <2>2 DEF PurgeDeletes, Purgeable, Types
    <2>3. CASE \E a \in Appliers : Commit(a)
      <3>1. PICK a \in Appliers : Commit(a)
        BY <2>3
      <3>2. /\ rows' = [s \in Runs |-> rows[s] \ Deletable(applier[a].window)]
            /\ present' = present
        BY <3>1 DEF Commit, DeleteRows
      <3>3. ASSUME NEW x \in rows[r] PROVE x \notin Deletable(applier[a].window)
        <4>1. x \in RowsOf[r]
          BY <2>1, <3>3 DEF Types
        <4>2. r \in WindowRuns({x}) /\ r \in Blocked
          BY <1>1, <4>1 DEF WindowRuns, Blocked
        <4>3. QED
          BY <4>2 DEF Deletable
      <3>4. QED
        BY <3>2, <3>3
    <2>4. QED
      BY <1>1, <2>2, <2>3, StepKinds
  <1>2. RetentionInv /\ [Next]_vars
          => [\A r \in Runs : holds[r] # {} =>
                rows'[r] = rows[r] /\ (r \in present => r \in present')]_vars
    BY <1>1
  <1>3. QED
    BY <1>2, RetentionInvariant, PTL DEF Spec, HeldIsKept

\* A job that stays active is the same job, further on and short of its high water:
\* a batch that another request planned earlier never takes the cursor back.
THEOREM JobsMoveForward == Spec => JobMovesForward
  <1>1. ASSUME RetentionInv, [Next]_vars, job # None, job' # job
        PROVE  \/ job' = None
               \/ /\ job'.id = job.id /\ job'.candidates = job.candidates
                  /\ job.verified \subseteq job'.verified
                  /\ job.cursor < job'.cursor /\ job'.cursor < HighWater(job.candidates)
    <2>1. PICK a \in Appliers : Commit(a)
      BY <1>1, StepKinds DEF PurgeDeletes
    <2>2. Types /\ JobInv /\ RetentionInv'
      BY <1>1, NextKeepsInv DEF RetentionInv
    <2> DEFINE W == applier[a].window
    <2>3. W = Window /\ W \in SUBSET Nat /\ IsFiniteSet(W) /\ \A x \in W : x > job.cursor
      BY <1>1, <2>1, <2>2, AheadRows DEF Commit, PlanHolds
    <2>4. W # {} => Max(W) \in Nat /\ Max(W) > job.cursor
      BY <2>3, MaxIsLargest
    <2>5. \/ job' = None
          \/ /\ W # {}
             /\ ~(Max(W) >= HighWater(job.candidates))
             /\ job' = [job EXCEPT !.verified = @ \cup applier[a].proofs, !.cursor = Max(W),
                                   !.batches = @ + 1]
      BY <2>1 DEF Commit, Advance
    <2>6. /\ job \in [id: Nat, candidates: SUBSET Runs, verified: SUBSET Runs,
                      cursor: Nat, batches: Nat]
          /\ HighWater(job.candidates) \in Nat
      BY <1>1, <2>2, HighWaterIsARow DEF Types
    <2> HIDE DEF W
    <2>7. W # {} /\ ~(Max(W) >= HighWater(job.candidates))
            => job.cursor < Max(W) /\ Max(W) < HighWater(job.candidates)
      BY <2>4, <2>6
    <2>8. job' # None =>
            job' = [id |-> job.id, candidates |-> job.candidates,
                    verified |-> job.verified \cup applier[a].proofs, cursor |-> Max(W),
                    batches |-> job.batches + 1]
      BY <2>5, <2>6
    <2>9. QED
      BY <2>5, <2>7, <2>8
  <1>2. RetentionInv /\ [Next]_vars
          => [job # None /\ job' # job =>
                \/ job' = None
                \/ /\ job'.id = job.id /\ job'.candidates = job.candidates
                   /\ job.verified \subseteq job'.verified
                   /\ job.cursor < job'.cursor /\ job'.cursor < HighWater(job.candidates)]_vars
    BY <1>1
  <1>3. QED
    BY <1>2, RetentionInvariant, PTL DEF Spec, JobMovesForward

\* A run that still exists loses rows only to the job that froze it, and only rows
\* after the cursor the batch found: no row is deleted, and counted, twice.
THEOREM OnlyCandidatesLoseRows == Spec => OnlyCandidatesShrink
  <1>1. ASSUME RetentionInv, [Next]_vars, NEW r \in present'
        PROVE  /\ rows'[r] \subseteq rows[r]
               /\ rows'[r] # rows[r] =>
                    /\ r \in Candidates
                    /\ \A x \in rows[r] \ rows'[r] : job.cursor < x
    <2>1. Types
      BY <1>1 DEF RetentionInv
    <2>2. CASE PurgeDeletes
      BY <1>1, <2>1, <2>2 DEF PurgeDeletes, Types
    <2>3. CASE \E a \in Appliers : Commit(a)
      <3>1. PICK a \in Appliers : Commit(a)
        BY <2>3
      <3>2. /\ rows' = [s \in Runs |-> rows[s] \ Deletable(applier[a].window)]
            /\ present' = present /\ job # None /\ applier[a].window = Window
        BY <3>1 DEF Commit, DeleteRows, PlanHolds
      <3>3. r \in Runs /\ rows'[r] = rows[r] \ Deletable(applier[a].window)
        BY <1>1, <2>1, <3>2 DEF Types
      <3>4. ASSUME NEW x \in rows[r] \ rows'[r] PROVE r \in Candidates /\ job.cursor < x
        <4>1. x \in Window
          BY <3>2, <3>3, <3>4 DEF Deletable
        <4>2. x \in Ahead /\ x > job.cursor
          BY <2>1, <3>2, <4>1, AheadRows
        <4>3. PICK s \in job.candidates : x \in rows[s]
          BY <2>1, <3>2, <4>2, AheadRows
        <4>4. s \in Runs /\ x \in RowsOf[s] /\ x \in RowsOf[r]
          BY <2>1, <3>2, <3>3, <3>4, <4>3 DEF Types
        <4>5. r = s
          BY <3>3, <4>4, RowsAreDisjoint
        <4>6. QED
          BY <3>2, <4>2, <4>3, <4>5 DEF Candidates
      <3>5. QED
        BY <3>3, <3>4
    <2>4. QED
      BY <1>1, <2>2, <2>3, StepKinds
  <1>2. RetentionInv /\ [Next]_vars
          => [\A r \in present' :
                /\ rows'[r] \subseteq rows[r]
                /\ rows'[r] # rows[r] =>
                     /\ r \in Candidates
                     /\ \A x \in rows[r] \ rows'[r] : job.cursor < x]_vars
    BY <1>1
  <1>3. QED
    BY <1>2, RetentionInvariant, PTL DEF Spec, OnlyCandidatesShrink

=============================================================================
