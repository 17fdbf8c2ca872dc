--------------------------- MODULE Engines_proofs ---------------------------
(***************************************************************************)
(* Proofs about the two engines that keep a record of their progress over   *)
(* runs and deaths: HyP3 in the cloud and ISCE2 topsStack.  They share no   *)
(* variable; the last theorem carries the others over to the specification  *)
(* of MCEngines, which runs one of the two.                                 *)
(***************************************************************************)
EXTENDS MCEngines, FiniteSetTheorems, WellFoundedInduction, TLAPS

-----------------------------------------------------------------------------
(* Hyp3, for any finite set of pairs, any batch size, account and number of *)
(* runs: no pair is paid for twice, no job and no pair is lost.             *)
(*                                                                         *)
(* Jobs are numbered as they are submitted (Numbered), so a submission      *)
(* never touches an earlier one.  What the engine and jobs.json say of a    *)
(* pair is true of the service (StateTrue), jobs.json never names a live    *)
(* job that the engine has dropped (Kept), and what is still to be          *)
(* submitted has no usable job (Unusable).  The live jobs that jobs.json    *)
(* does not name are those of the answers that were lost (Remembered).      *)

\* What jobs.json says of the pairs.
Saved == IF jobs \in {Absent, Corrupt} THEN NewState ELSE jobs

Numbered ==
    /\ Known = 1 .. Cardinality(Known)
    /\ \A j \in Known : cloud[j].status # "none" /\ cloud[j].pair \in Pairs

PairTrue(p, ps) ==
    /\ ps.job # 0 =>
         /\ ps.job \in Known /\ cloud[ps.job].pair = p
         /\ ps.status \in {Active, "SUCCEEDED", "FAILED"}
         /\ ps.status = "FAILED" => cloud[ps.job].status = "FAILED"
    /\ ps.job = 0 => ps.status \in {"NEW", "EXPIRED"}
    /\ ps.dir # 0 => ps.dir \in Known /\ cloud[ps.dir].pair = p

StateTrue(st) == \A p \in Pairs : PairTrue(p, st[p])

Busy == phase \in {"credits", "submit", "record", "poll", "download"}

Submitting == phase \in {"credits", "submit", "record"}

Kept ==
    Busy => /\ jobs # Corrupt
            /\ \A p \in Pairs : Saved[p].job # 0 /\ Live(Saved[p].job) =>
                                    mem[p].job = Saved[p].job

Unusable ==
    Submitting => \A p \in todo : ~Resumable(mem[p]) /\ Saved[p].job = mem[p].job

\* The batch whose answer is on its way.
OnTheWay ==
    IF phase = "record"
    THEN /\ \A p \in DOMAIN sent : cloud[sent[p]].pair = p
         /\ IsFiniteSet(Range1(sent)) /\ Cardinality(Range1(sent)) <= Batch
    ELSE sent = Nothing

Affordable ==
    /\ phase = "submit" => Cardinality(todo) <= credits
    /\ phase = "record" => Cardinality(todo \ DOMAIN sent) <= credits

\* A product that the stage may return.
Complete(p) == p \in DOMAIN got /\ folder[got[p]] = "whole" /\ cloud[got[p]].pair = p

\* Every pair is on its way to a product.
Underway ==
    /\ phase # "download" => ~failed /\ bad = {}
    /\ Submitting => \A p \in Pairs \ todo : HasProduct(mem[p]) \/ Resumable(mem[p])
    /\ phase = "poll" => \A p \in Pairs : HasProduct(mem[p]) \/ mem[p].job # 0
    /\ phase = "download" /\ ~failed =>
         /\ bad = {}
         /\ \A p \in left : HasProduct(mem[p]) \/ mem[p].status \in {"SUCCEEDED", "FAILED"}
         /\ \A p \in Pairs \ left : p \in warned \/ Complete(p)
    /\ phase = "idle" /\ result = "ok" => \A p \in Pairs \ warned : Complete(p)

\* Live jobs that jobs.json does not name, but for those on their way.
Orphans ==
    { j \in Known : Live(j) } \ ({ Saved[p].job : p \in Pairs } \union Range1(sent))

Remembered ==
    caller = "engine" /\ jobs # Corrupt => Cardinality(Orphans) <= Batch * lost

Hyp3Inv ==
    /\ Hyp3TypeOK /\ lost \in Nat /\ runs \in Nat
    /\ Numbered
    /\ StateTrue(mem) /\ StateTrue(Saved)
    /\ Kept /\ Unusable /\ OnTheWay /\ Affordable /\ Underway /\ Remembered

\* Numbering a finite set of numbers by rank: facts used by Submit.

LEMMA LowerIsFewer ==
    ASSUME NEW S \in SUBSET Nat, IsFiniteSet(S), NEW p \in S, NEW r \in S, p < r
    PROVE  /\ Cardinality({ q \in S : q < p }) < Cardinality({ q \in S : q < r })
           /\ Cardinality({ q \in S : q <= p }) < Cardinality({ q \in S : q <= r })
<1> DEFINE Below(x) == { q \in S : q < x }
           UpTo(x) == { q \in S : q <= x }
<1>1. \A x \in S : IsFiniteSet(Below(x)) /\ Cardinality(Below(x)) \in Nat
  BY FS_Subset, FS_CardinalityType
<1>2. \A x \in S : IsFiniteSet(UpTo(x)) /\ Cardinality(UpTo(x)) \in Nat
  BY FS_Subset, FS_CardinalityType
<1>0. \A q \in S : q \in Nat
  OBVIOUS
<1>t. \A q \in S : (q < p => q < r) /\ (q <= p => q <= r)
  BY <1>0
<1>u. p \in Nat /\ r \in Nat /\ ~(p < p) /\ r <= r /\ ~(r <= p)
  BY <1>0
<1>3. Below(p) \subseteq Below(r) /\ p \in Below(r) /\ p \notin Below(p)
  BY <1>t, <1>u
<1>4. UpTo(p) \subseteq UpTo(r) /\ r \in UpTo(r) /\ r \notin UpTo(p)
  BY <1>t, <1>u
<1>5. Cardinality(Below(p)) <= Cardinality(Below(r))
      /\ Cardinality(Below(p)) # Cardinality(Below(r))
  BY <1>1, <1>3, FS_Subset
<1>6. Cardinality(UpTo(p)) <= Cardinality(UpTo(r))
      /\ Cardinality(UpTo(p)) # Cardinality(UpTo(r))
  BY <1>2, <1>4, FS_Subset
<1> QED
  BY <1>1, <1>2, <1>5, <1>6

LEMMA RankIsNumbering ==
    ASSUME NEW S \in SUBSET Nat, IsFiniteSet(S)
    PROVE  LET rank == [p \in S |-> Cardinality({ q \in S : q <= p })] IN
           /\ rank \in [S -> 1 .. Cardinality(S)]
           /\ \A p, r \in S : rank[p] = rank[r] => p = r
           /\ \A n \in 1 .. Cardinality(S) : \E p \in S : rank[p] = n
<1> DEFINE rank == [p \in S |-> Cardinality({ q \in S : q <= p })]
<1>1. Cardinality(S) \in Nat
  BY FS_CardinalityType
<1>2. ASSUME NEW p \in S PROVE rank[p] \in 1 .. Cardinality(S)
  <2> DEFINE T == { q \in S : q <= p }
  <2>1. IsFiniteSet(T) /\ Cardinality(T) <= Cardinality(S) /\ Cardinality(T) \in Nat
    BY FS_Subset, FS_CardinalityType
  <2>2. Cardinality(T) # 0
    <3>1. p \in T
      OBVIOUS
    <3> QED
      BY <2>1, <3>1, FS_EmptySet
  <2>3. rank[p] = Cardinality(T)
    OBVIOUS
  <2> HIDE DEF rank, T
  <2> QED
    BY <1>1, <2>1, <2>2, <2>3
<1>3. ASSUME NEW p \in S, NEW r \in S, rank[p] = rank[r] PROVE p = r
  <2> SUFFICES ASSUME p # r PROVE FALSE
    OBVIOUS
  <2>1. p < r \/ r < p
    OBVIOUS
  <2>2. rank[p] \in Nat /\ rank[r] \in Nat
    BY <1>2
  <2>3. rank[p] < rank[r] \/ rank[r] < rank[p]
    BY <2>1, LowerIsFewer
  <2> HIDE DEF rank
  <2> QED
    BY <1>3, <2>2, <2>3
<1>4. rank \in [S -> 1 .. Cardinality(S)]
  <2>1. rank = [p \in S |-> rank[p]]
    OBVIOUS
  <2> HIDE DEF rank
  <2> QED
    BY <1>2, <2>1
<1> HIDE DEF rank
<1>5. rank \in Injection(S, 1 .. Cardinality(S))
  BY <1>3, <1>4 DEF Injection, IsInjective
<1>6. IsFiniteSet(1 .. Cardinality(S)) /\ Cardinality(1 .. Cardinality(S)) = Cardinality(S)
  BY <1>1, FS_Interval
<1>7. rank \in Surjection(S, 1 .. Cardinality(S))
  BY <1>5, <1>6, FS_Injection
<1>8. \A n \in 1 .. Cardinality(S) : \E p \in S : rank[p] = n
  BY <1>7 DEF Surjection
<1> QED
  BY <1>3, <1>4, <1>8 DEF rank

\* A batch has at most Batch pairs.
LEMMA ChunkIsShort ==
    ASSUME todo \in SUBSET Pairs
    PROVE  /\ Chunk \subseteq todo /\ Chunk \in SUBSET Nat
           /\ IsFiniteSet(todo) /\ IsFiniteSet(Chunk)
           /\ Cardinality(todo) \in Nat /\ Cardinality(Chunk) \in Nat
           /\ Cardinality(Chunk) <= Batch
<1>1. todo \in SUBSET Nat /\ IsFiniteSet(todo)
  BY PairAssumption, FS_Subset
<1>2. Chunk \in SUBSET todo
  BY DEF Chunk
<1>3. IsFiniteSet(Chunk) /\ Cardinality(todo) \in Nat /\ Cardinality(Chunk) \in Nat
  BY <1>1, <1>2, FS_Subset, FS_CardinalityType
<1> DEFINE before == [p \in Chunk |-> Cardinality({ q \in todo : q < p })]
<1>4. \A p \in todo : Cardinality({ q \in todo : q < p }) \in Nat
  BY <1>1, FS_Subset, FS_CardinalityType
<1>5. before \in [Chunk -> 0 .. Batch - 1]
  BY <1>2, <1>4, BatchAssumption DEF Chunk
<1>6. ASSUME NEW p \in Chunk, NEW r \in Chunk, before[p] = before[r] PROVE p = r
  <2> SUFFICES ASSUME p # r PROVE FALSE
    OBVIOUS
  <2>1. p \in todo /\ r \in todo /\ (p < r \/ r < p)
    BY <1>1, <1>2
  <2>2. before[p] \in Nat /\ before[r] \in Nat
    BY <1>4, <2>1
  <2>3. before[p] < before[r] \/ before[r] < before[p]
    BY <1>1, <2>1, LowerIsFewer
  <2> HIDE DEF before
  <2> QED
    BY <1>6, <2>2, <2>3
<1> HIDE DEF before
<1>7. before \in Injection(Chunk, 0 .. Batch - 1)
  BY <1>5, <1>6 DEF Injection, IsInjective
<1>8. IsFiniteSet(0 .. Batch - 1) /\ Cardinality(0 .. Batch - 1) = Batch
  BY BatchAssumption, FS_Interval
<1>9. Cardinality(Chunk) <= Batch
  BY <1>7, <1>8, FS_Injection
<1> QED
  BY <1>1, <1>2, <1>3, <1>9

LEMMA KnownIsFinite ==
    /\ IsFiniteSet(Known) /\ Cardinality(Known) \in Nat
    /\ \A K \in SUBSET Known : IsFiniteSet(K) /\ Cardinality(K) \in Nat
<1>1. IsFiniteSet(Jobs)
  BY BoundAssumption, FS_Interval DEF Jobs
<1>2. Known \in SUBSET Jobs
  BY DEF Known
<1>3. IsFiniteSet(Known) /\ Cardinality(Known) \in Nat
  BY <1>1, <1>2, FS_Subset, FS_CardinalityType
<1> QED
  BY <1>3, FS_Subset, FS_CardinalityType

LEMMA FileStates ==
    /\ NewState \in [Pairs -> PairState]
    /\ \A st \in [Pairs -> PairState] : st # Absent /\ st # Corrupt
    /\ Absent # Corrupt
BY FileAssumption DEF NewState, NewPair, PairState

LEMMA SavedIsTyped == Hyp3TypeOK => Saved \in [Pairs -> PairState]
BY FileStates DEF Hyp3TypeOK, Saved

\* Only these steps change what the service knows.
LEMMA WhoTouchesTheCloud ==
    [Next]_vars => UNCHANGED cloud \/ Submit \/ JobEnds \/ JobExpires
BY DEF Next, Step, vars, service, Begin, CacheHit, Load, LoadCorrupt, CheckCredits,
       CreditsShort, Record, SubmitDone, PollAgain, PollTimeout, PollDone, Reuse,
       ReuseInvalid, JobFailed, NotReady, Expired, DownloadValid, DownloadInvalid, Finish,
       FinishDisjoint, BreakOff, DieWriting, UserDeletes

\* The numbers that Submit gives to the jobs of a batch.
LEMMA SubmitNumbers ==
    ASSUME Hyp3TypeOK, Numbered, Submit
    PROVE  /\ DOMAIN sent' = Chunk /\ Chunk \subseteq todo
           /\ Range1(sent') \subseteq Jobs /\ Range1(sent') \cap Known = {}
           /\ IsFiniteSet(Range1(sent')) /\ Cardinality(Range1(sent')) <= Batch
           /\ Known' = Known \union Range1(sent')
           /\ Known' = 1 .. Cardinality(Known')
           /\ \A j \in Known : cloud'[j] = cloud[j]
           /\ \A p \in Chunk : cloud'[sent'[p]] =
                                   [pair |-> p, status |-> Active, expired |-> FALSE]
           /\ cloud' \in [Jobs -> [pair : Pairs \union {NoPair},
                                   status : {"none", Active, "SUCCEEDED", "FAILED"},
                                   expired : BOOLEAN]]
<1> DEFINE k == Cardinality(Known)
           n == Cardinality(Chunk)
           rank == [p \in Chunk |-> Cardinality({ q \in Chunk : q <= p })]
<1>c. /\ Chunk \subseteq todo /\ Chunk \in SUBSET Nat /\ IsFiniteSet(Chunk)
      /\ n \in Nat /\ n <= Batch
  BY ChunkIsShort DEF Hyp3TypeOK
<1>k. k \in Nat /\ Known = 1 .. k /\ k + n <= MaxJobs /\ MaxJobs \in Nat
  BY KnownIsFinite, BoundAssumption DEF Numbered, Submit
<1>r. /\ rank \in [Chunk -> 1 .. n]
      /\ \A p, r \in Chunk : rank[p] = rank[r] => p = r
      /\ \A m \in 1 .. n : \E p \in Chunk : rank[p] = m
  BY <1>c, RankIsNumbering
<1>s. DOMAIN sent' = Chunk /\ \A p \in Chunk : sent'[p] = k + rank[p]
  BY DEF Submit
<1> HIDE DEF rank, k, n
<1>1. Range1(sent') = k + 1 .. k + n
  <2>1. ASSUME NEW j \in Range1(sent') PROVE j \in k + 1 .. k + n
    <3>1. PICK p \in Chunk : j = k + rank[p]
      BY <1>s, <2>1 DEF Range1
    <3>2. rank[p] \in 1 .. n
      BY <1>r
    <3> QED
      BY <3>1, <3>2, <1>k, <1>c
  <2>2. ASSUME NEW j \in k + 1 .. k + n PROVE j \in Range1(sent')
    <3>1. j - k \in 1 .. n
      BY <1>k, <1>c
    <3>2. PICK p \in Chunk : rank[p] = j - k
      BY <1>r, <3>1
    <3> QED
      BY <3>2, <1>s, <1>k DEF Range1
  <2> QED
    BY <2>1, <2>2
<1>2. Range1(sent') \subseteq Jobs /\ Range1(sent') \cap Known = {}
  BY <1>1, <1>k, <1>c DEF Jobs
<1>3. IsFiniteSet(Range1(sent')) /\ Cardinality(Range1(sent')) = n
  <2> DEFINE a == k + 1
             b == k + n
  <2>1. a \in Int /\ b \in Int /\ (a > b => n = 0) /\ b - a + 1 = n
    BY <1>k, <1>c
  <2>2. Range1(sent') = a .. b
    BY <1>1
  <2> HIDE DEF a, b
  <2>3. IsFiniteSet(a .. b) /\ Cardinality(a .. b) = IF a > b THEN 0 ELSE b - a + 1
    BY <2>1, FS_Interval
  <2> QED
    BY <2>1, <2>2, <2>3
<1>4. \A j \in Known : cloud'[j] = cloud[j]
  BY <1>2 DEF Submit, Known
<1>5. ASSUME NEW p \in Chunk
      PROVE  cloud'[sent'[p]] = [pair |-> p, status |-> Active, expired |-> FALSE]
  <2>1. sent'[p] \in Range1(sent') /\ sent'[p] \in Jobs
    BY <1>s, <1>2 DEF Range1
  <2>2. (CHOOSE q \in Chunk : sent'[q] = sent'[p]) = p
    <3>1. \A q \in Chunk : sent'[q] = sent'[p] => q = p
      <4>1. \A q \in Chunk : rank[q] \in Nat
        BY <1>r, <1>c
      <4> QED
        BY <1>s, <1>r, <1>k, <4>1
    <3> QED
      BY <3>1
  <2>3. cloud'[sent'[p]] = [pair |-> CHOOSE q \in Chunk : sent'[q] = sent'[p],
                            status |-> Active, expired |-> FALSE]
    BY <2>1 DEF Submit
  <2> QED
    BY <2>2, <2>3
<1>6. Known' = Known \union Range1(sent')
  <2>1. ASSUME NEW j \in Range1(sent') PROVE j \in Known'
    <3>1. PICK p \in Chunk : j = sent'[p]
      BY <1>s, <2>1 DEF Range1
    <3>a. cloud'[j] = [pair |-> p, status |-> Active, expired |-> FALSE]
      BY <3>1, <1>5
    <3>2. cloud'[j].status = Active /\ NoJob.status # Active
      BY <3>a DEF NoJob, Active
    <3> QED
      BY <3>2, <1>2, <2>1 DEF Known
  <2>2. ASSUME NEW j \in Jobs, j \notin Range1(sent') PROVE cloud'[j] = cloud[j]
    BY <2>2 DEF Submit
  <2> QED
    BY <1>2, <1>4, <2>1, <2>2 DEF Known
<1>7. Known' = 1 .. Cardinality(Known')
  <2>1. Known' = 1 .. k + n
    BY <1>1, <1>6, <1>k, <1>c
  <2>2. Cardinality(1 .. k + n) = k + n
    BY <1>k, <1>c, FS_Interval
  <2> QED
    BY <2>1, <2>2
<1>8. cloud' \in [Jobs -> [pair : Pairs \union {NoPair},
                           status : {"none", Active, "SUCCEEDED", "FAILED"},
                           expired : BOOLEAN]]
  <2>1. ASSUME NEW j \in Jobs
        PROVE  cloud'[j] \in [pair : Pairs \union {NoPair},
                              status : {"none", Active, "SUCCEEDED", "FAILED"},
                              expired : BOOLEAN]
    <3>1. CASE j \in Range1(sent')
      <4>1. PICK p \in Chunk : j = sent'[p]
        BY <1>s, <3>1 DEF Range1
      <4>2. p \in Pairs /\ cloud'[j] = [pair |-> p, status |-> Active, expired |-> FALSE]
        BY <4>1, <1>5, <1>c DEF Hyp3TypeOK
      <4> QED
        BY <4>2
    <3>2. CASE j \notin Range1(sent')
      BY <3>2 DEF Submit, Hyp3TypeOK
    <3> QED
      BY <3>1, <3>2
  <2>2. cloud' = [j \in Jobs |-> cloud'[j]]
    BY DEF Submit
  <2> QED
    BY <2>1, <2>2
<1> QED
  BY <1>2, <1>3, <1>4, <1>5, <1>6, <1>7, <1>8, <1>s, <1>c

\* What the service knows only grows, and a job that is lost stays lost.
Grows ==
    \A j \in Known : /\ j \in Known' /\ cloud'[j].pair = cloud[j].pair
                     /\ cloud[j].status = "FAILED" => cloud'[j].status = "FAILED"
                     /\ Live(j)' => Live(j)

LEMMA CloudStep ==
    ASSUME Hyp3Inv, [Next]_vars
    PROVE  /\ Numbered' /\ Grows
           /\ Submit \/ Known' = Known
           /\ cloud' \in [Jobs -> [pair : Pairs \union {NoPair},
                                   status : {"none", Active, "SUCCEEDED", "FAILED"},
                                   expired : BOOLEAN]]
<1> USE DEF Hyp3Inv
<1>1. CASE UNCHANGED cloud
  BY <1>1 DEF Numbered, Grows, Known, Live, Hyp3TypeOK
<1>2. CASE Submit
  <2>1. ASSUME NEW j \in Known' PROVE cloud'[j].status # "none" /\ cloud'[j].pair \in Pairs
    <3>1. CASE j \in Known
      BY <1>2, <3>1, SubmitNumbers DEF Numbered
    <3>2. CASE j \in Range1(sent')
      <4>1. PICK p \in Chunk : j = sent'[p]
        BY <1>2, <3>2, SubmitNumbers DEF Range1
      <4>2. p \in Pairs /\ cloud'[j] = [pair |-> p, status |-> Active, expired |-> FALSE]
        BY <1>2, <4>1, SubmitNumbers DEF Hyp3TypeOK
      <4> QED
        BY <4>2 DEF Active
    <3> QED
      BY <1>2, <3>1, <3>2, <2>1, SubmitNumbers
  <2>2. Grows
    BY <1>2, SubmitNumbers DEF Grows, Live
  <2> QED
    BY <1>2, <2>1, <2>2, SubmitNumbers DEF Numbered
<1>3. CASE JobEnds
  <2>1. PICK j \in Known, s \in {"SUCCEEDED", "FAILED"} :
            cloud[j].status = Active /\ cloud' = [cloud EXCEPT ![j].status = s]
    BY <1>3 DEF JobEnds
  <2>2. j \in Jobs
    BY DEF Known
  <2>3. cloud'[j].status = s /\ cloud'[j].pair = cloud[j].pair
        /\ cloud'[j].expired = cloud[j].expired
    BY <2>1, <2>2 DEF Hyp3TypeOK
  <2>4. \A i \in Jobs \ {j} : cloud'[i] = cloud[i]
    BY <2>1, <2>2 DEF Hyp3TypeOK
  <2>5. Known' = Known
    BY <2>2, <2>3, <2>4 DEF Known, NoJob
  <2>6. cloud' \in [Jobs -> [pair : Pairs \union {NoPair},
                                   status : {"none", Active, "SUCCEEDED", "FAILED"},
                                   expired : BOOLEAN]]
    BY <2>1, <2>2 DEF Hyp3TypeOK
  <2>7. Grows
    BY <2>1, <2>2, <2>3, <2>4, <2>5 DEF Grows, Live, Active, Known
  <2>8. Numbered'
    BY <2>2, <2>3, <2>4, <2>5 DEF Numbered, Known
  <2> QED
    BY <2>5, <2>6, <2>7, <2>8
<1>4. CASE JobExpires
  <2>1. PICK j \in Known : /\ cloud[j].status = "SUCCEEDED" /\ ~cloud[j].expired
                           /\ cloud' = [cloud EXCEPT ![j].expired = TRUE]
    BY <1>4 DEF JobExpires
  <2>2. j \in Jobs
    BY DEF Known
  <2>3. cloud'[j].status = "SUCCEEDED" /\ cloud'[j].pair = cloud[j].pair
        /\ cloud'[j].expired
    BY <2>1, <2>2 DEF Hyp3TypeOK
  <2>4. \A i \in Jobs \ {j} : cloud'[i] = cloud[i]
    BY <2>1, <2>2 DEF Hyp3TypeOK
  <2>5. Known' = Known
    BY <2>2, <2>3, <2>4 DEF Known, NoJob
  <2>6. cloud' \in [Jobs -> [pair : Pairs \union {NoPair},
                                   status : {"none", Active, "SUCCEEDED", "FAILED"},
                                   expired : BOOLEAN]]
    BY <2>1, <2>2 DEF Hyp3TypeOK
  <2>7. Grows
    BY <2>1, <2>2, <2>3, <2>4, <2>5 DEF Grows, Live, Active, Known
  <2>8. Numbered'
    BY <2>2, <2>3, <2>4, <2>5 DEF Numbered, Known
  <2> QED
    BY <2>5, <2>6, <2>7, <2>8
<1> QED
  BY <1>1, <1>2, <1>3, <1>4, WhoTouchesTheCloud

\* What a run works with.
RunTyped ==
    /\ phase \in {"idle", "load", "credits", "submit", "record", "poll", "download"}
    /\ mem \in [Pairs -> PairState]
    /\ todo \subseteq Pairs /\ left \subseteq Pairs /\ bad \subseteq Pairs
    /\ DOMAIN sent \subseteq todo /\ Range1(sent) \subseteq Known
    /\ waits \in 0 .. MaxWaits /\ failed \in BOOLEAN

\* What outlives it.
RestTyped ==
    /\ caller \in Callers
    /\ result \in {"none", "ok", "cached", "failed"}
    /\ credits \in 0 .. Credits
    /\ jobs \in [Pairs -> PairState] \union {Absent, Corrupt}
    /\ folder \in [Jobs -> {"none", "part", "whole"}]
    /\ DOMAIN got \subseteq Pairs /\ Range1(got) \subseteq Known
    /\ warned \subseteq Pairs /\ told \subseteq Known

LEMMA NothingIsEmpty == DOMAIN Nothing = {} /\ Range1(Nothing) = {}
BY DEF Nothing, Range1

LEMMA LeaveType == ASSUME NEW how, Leave(how) PROVE RunTyped'
<1>1. Range1(sent)' = {} /\ DOMAIN sent' = {}
  BY NothingIsEmpty DEF Leave, Range1
<1>2. 0 \in 0 .. MaxWaits
  BY BoundAssumption
<1> QED
  BY <1>1, <1>2, FileStates DEF Leave, RunTyped

\* The state after a poll, and the state with what has just been submitted.
LEMMA RefreshedState ==
    ASSUME Hyp3TypeOK, Numbered, StateTrue(mem)
    PROVE  /\ Refreshed \in [Pairs -> PairState]
           /\ \A p \in Pairs : PairTrue(p, Refreshed[p])
           /\ \A p \in Pairs : Refreshed[p].job = mem[p].job /\ Refreshed[p].dir = mem[p].dir
<1> SUFFICES ASSUME NEW p \in Pairs
             PROVE  /\ Refreshed[p] \in PairState /\ PairTrue(p, Refreshed[p])
                    /\ Refreshed[p].job = mem[p].job /\ Refreshed[p].dir = mem[p].dir
  BY DEF Refreshed
<1>m. mem[p] \in PairState /\ PairTrue(p, mem[p])
  BY DEF Hyp3TypeOK, StateTrue
<1>1. CASE p \in Pending(mem)
  <2>1. mem[p].job # 0 /\ mem[p].job \in Known /\ cloud[mem[p].job].pair = p
    BY <1>1, <1>m DEF Pending, PairTrue
  <2>2. cloud[mem[p].job].status \in {Active, "SUCCEEDED", "FAILED"}
    BY <2>1 DEF Numbered, Hyp3TypeOK, Known
  <2>3. Refreshed[p] = [mem[p] EXCEPT !.status = cloud[mem[p].job].status]
    BY <1>1 DEF Refreshed
  <2>4. /\ Refreshed[p].job = mem[p].job /\ Refreshed[p].dir = mem[p].dir
        /\ Refreshed[p].status = cloud[mem[p].job].status
    BY <2>3, <1>m DEF PairState
  <2>5. Refreshed[p] \in PairState
    BY <2>2, <2>3, <1>m DEF PairState
  <2> QED
    BY <1>m, <2>1, <2>2, <2>4, <2>5 DEF PairTrue
<1>2. CASE p \notin Pending(mem)
  BY <1>2, <1>m DEF Refreshed
<1> QED
  BY <1>1, <1>2

LEMMA RecordedState ==
    ASSUME Hyp3TypeOK, StateTrue(mem), OnTheWay, phase = "record"
    PROVE  /\ Recorded \in [Pairs -> PairState]
           /\ \A p \in Pairs : PairTrue(p, Recorded[p])
           /\ \A p \in DOMAIN sent : Recorded[p].job = sent[p] /\ Resumable(Recorded[p])
           /\ \A p \in Pairs \ DOMAIN sent : Recorded[p] = mem[p]
<1>1. ASSUME NEW p \in DOMAIN sent
      PROVE  /\ p \in Pairs /\ sent[p] \in Known /\ cloud[sent[p]].pair = p
             /\ Recorded[p] = [job |-> sent[p], status |-> Active, dir |-> mem[p].dir]
  <2>1. p \in Pairs /\ sent[p] \in Known
    BY DEF Hyp3TypeOK, Range1
  <2> QED
    BY <2>1 DEF OnTheWay, Recorded
<1>2. \A p \in Pairs \ DOMAIN sent : Recorded[p] = mem[p]
  BY DEF Recorded
<1>3. \A j \in Known : j \in Jobs /\ j # 0
  BY BoundAssumption DEF Known, Jobs
<1>4. ASSUME NEW p \in DOMAIN sent
      PROVE  /\ Recorded[p] \in PairState /\ PairTrue(p, Recorded[p])
             /\ Recorded[p].job = sent[p] /\ Resumable(Recorded[p])
  <2>1. mem[p] \in PairState /\ PairTrue(p, mem[p])
    BY <1>1 DEF Hyp3TypeOK, StateTrue
  <2>a. Recorded[p] = [job |-> sent[p], status |-> Active, dir |-> mem[p].dir]
    BY <1>1
  <2>2. /\ Recorded[p].job = sent[p] /\ Recorded[p].status = Active
        /\ Recorded[p].dir = mem[p].dir
    BY <2>a
  <2>3. Recorded[p] \in PairState
    BY <2>a, <1>1, <1>3, <2>1 DEF PairState
  <2>4. PairTrue(p, Recorded[p])
    BY <1>1, <1>3, <2>1, <2>2 DEF PairTrue, Active
  <2> QED
    BY <1>1, <1>3, <2>2, <2>3, <2>4 DEF Resumable
<1>5. \A p \in Pairs \ DOMAIN sent : Recorded[p] \in PairState /\ PairTrue(p, Recorded[p])
  BY <1>2 DEF Hyp3TypeOK, StateTrue
<1>6. Recorded = [p \in Pairs |-> Recorded[p]]
  BY DEF Recorded
<1> QED
  BY <1>1, <1>2, <1>4, <1>5, <1>6

\* The state that Load works with.
Loaded == [p \in Pairs |->
    IF HasProduct(Saved[p]) THEN Saved[p] ELSE [Saved[p] EXCEPT !.dir = 0]]

LEMMA LoadedState ==
    ASSUME Hyp3TypeOK, StateTrue(Saved), Load
    PROVE  /\ mem' = Loaded
           /\ todo' = { p \in Pairs : ~HasProduct(Saved[p]) /\ ~Resumable(Saved[p]) }
           /\ Loaded \in [Pairs -> PairState]
           /\ \A p \in Pairs : PairTrue(p, Loaded[p])
           /\ \A p \in Pairs : /\ Loaded[p].job = Saved[p].job
                               /\ Resumable(Loaded[p]) <=> Resumable(Saved[p])
                               /\ HasProduct(Saved[p]) => Loaded[p] = Saved[p]
<1>1. (IF jobs = Absent THEN NewState ELSE jobs) = Saved /\ jobs # Corrupt
  BY DEF Load, Saved
<1>2. mem' = Loaded
  BY <1>1 DEF Load, Loaded
<1>3. todo' = { p \in Pairs : ~HasProduct(Saved[p]) /\ ~Resumable(Saved[p]) }
  BY <1>1 DEF Load
<1>4. ASSUME NEW p \in Pairs
      PROVE  /\ Loaded[p] \in PairState /\ PairTrue(p, Loaded[p])
             /\ Loaded[p].job = Saved[p].job
             /\ Resumable(Loaded[p]) <=> Resumable(Saved[p])
             /\ HasProduct(Saved[p]) => Loaded[p] = Saved[p]
  <2>1. Saved[p] \in PairState /\ PairTrue(p, Saved[p])
    BY SavedIsTyped DEF StateTrue
  <2>2. CASE HasProduct(Saved[p])
    BY <2>1, <2>2 DEF Loaded
  <2>3. CASE ~HasProduct(Saved[p])
    <3>1. Loaded[p] = [Saved[p] EXCEPT !.dir = 0]
      BY <2>3 DEF Loaded
    <3>2. /\ Loaded[p].job = Saved[p].job /\ Loaded[p].status = Saved[p].status
          /\ Loaded[p].dir = 0 /\ Loaded[p] \in PairState
      BY <2>1, <3>1 DEF PairState
    <3> QED
      BY <2>1, <2>3, <3>2 DEF PairTrue, Resumable
  <2> QED
    BY <2>2, <2>3
<1>5. Loaded = [p \in Pairs |-> Loaded[p]]
  BY DEF Loaded
<1> QED
  BY <1>2, <1>3, <1>4, <1>5

\* What downloading the product of p changes.
LEMMA DownloadState ==
    ASSUME Hyp3TypeOK, StateTrue(mem), NEW p \in Pairs, DownloadValid(p)
    PROVE  \E d \in Known :
             /\ cloud[d].pair = p /\ folder'[d] = "whole" /\ d \in Jobs
             /\ mem[p].job \in Jobs /\ folder' = [folder EXCEPT ![mem[p].job] = "whole"]
             /\ mem' \in [Pairs -> PairState] /\ jobs' = mem'
             /\ mem'[p].dir = d /\ mem'[p].job = mem[p].job /\ mem'[p].status = mem[p].status
             /\ \A q \in Pairs \ {p} : mem'[q] = mem[q]
             /\ DOMAIN got' = DOMAIN got \union {p} /\ got'[p] = d
             /\ \A q \in DOMAIN got \ {p} : got'[q] = got[q]
<1>1. mem[p] \in PairState /\ PairTrue(p, mem[p]) /\ mem[p].status = "SUCCEEDED"
  BY DEF Hyp3TypeOK, StateTrue, DownloadValid, Downloadable
<1>2. mem[p].job \in Known
  BY <1>1 DEF PairTrue
<1>3. folder' = [folder EXCEPT ![mem[p].job] = "whole"]
  BY DEF DownloadValid, Unpack
<1>4. PICK d \in Found(p) :
            /\ folder'[d] = "whole"
            /\ mem' = [mem EXCEPT ![p].dir = d] /\ jobs' = mem'
            /\ got' = [q \in DOMAIN got \union {p} |-> IF q = p THEN d ELSE got[q]]
  BY DEF DownloadValid
<1>5. d \in Known /\ d \in Jobs /\ cloud[d].pair = p
  BY DEF Found, Known
<1>6. /\ mem' \in [Pairs -> PairState] /\ mem'[p].dir = d /\ mem'[p].job = mem[p].job
      /\ mem'[p].status = mem[p].status /\ \A q \in Pairs \ {p} : mem'[q] = mem[q]
  BY <1>1, <1>4, <1>5 DEF Hyp3TypeOK, PairState
<1> QED
  BY <1>2, <1>3, <1>4, <1>5, <1>6 DEF Known

LEMMA RunTypeStep == Hyp3Inv /\ [Next]_vars => RunTyped'
<1> SUFFICES ASSUME Hyp3Inv, [Next]_vars PROVE RunTyped'
  OBVIOUS
<1>t. Hyp3TypeOK /\ StateTrue(mem) /\ StateTrue(Saved) /\ Numbered /\ OnTheWay
  BY DEF Hyp3Inv
<1>k. \A j \in Known : j \in Known'
  BY CloudStep DEF Grows
<1> USE DEF Hyp3TypeOK, RunTyped
<1>s. UNCHANGED sent => Range1(sent)' \subseteq Known'
  BY <1>t, <1>k DEF Range1
<1>n. sent' = Nothing => DOMAIN sent' = {} /\ Range1(sent)' = {}
  BY NothingIsEmpty DEF Range1
<1>0. 0 \in 0 .. MaxWaits
  BY BoundAssumption
<1>1. CASE Begin \/ CacheHit \/ UserDeletes \/ JobEnds \/ JobExpires \/ UNCHANGED vars
  BY <1>1, <1>t, <1>s DEF Begin, CacheHit, UserDeletes, JobEnds, JobExpires, vars, run, account
<1>2. CASE LoadCorrupt \/ CreditsShort \/ Finish \/ FinishDisjoint \/ BreakOff \/ DieWriting
  BY <1>2, LeaveType DEF LoadCorrupt, CreditsShort, Finish, FinishDisjoint, BreakOff, DieWriting
<1>3. CASE Load
  <2>1. DOMAIN sent = {}
    BY <1>3, <1>t, NothingIsEmpty DEF OnTheWay, Load
  <2> QED
    BY <1>3, <1>t, <1>s, <2>1, LoadedState DEF Load
<1>4. CASE CheckCredits \/ SubmitDone
  BY <1>4, <1>t, <1>s, <1>0 DEF CheckCredits, SubmitDone, run
<1>5. CASE Submit
  <2>1. DOMAIN sent' \subseteq todo /\ Range1(sent') \subseteq Known'
    BY <1>5, <1>t, SubmitNumbers
  <2>2. Range1(sent)' = Range1(sent')
    BY DEF Range1
  <2> QED
    BY <1>5, <1>t, <2>1, <2>2 DEF Submit
<1>6. CASE Record
  BY <1>6, <1>t, <1>n, RecordedState DEF Record
<1>7. CASE PollAgain \/ PollTimeout \/ PollDone
  <2>1. Refreshed \in [Pairs -> PairState]
    BY <1>t, RefreshedState
  <2>2. mem' = Refreshed /\ waits' \in 0 .. MaxWaits
    BY <1>7, <1>t, BoundAssumption DEF PollAgain, PollTimeout, PollDone
  <2> QED
    BY <1>7, <1>t, <1>s, <2>1, <2>2 DEF PollAgain, PollTimeout, PollDone, Download
<1>8. ASSUME NEW p \in Pairs,
             Reuse(p) \/ ReuseInvalid(p) \/ JobFailed(p) \/ NotReady(p) \/ DownloadInvalid(p)
      PROVE  RunTyped'
  BY <1>8, <1>t, <1>s DEF Reuse, ReuseInvalid, JobFailed, NotReady, DownloadInvalid
<1>9. ASSUME NEW p \in Pairs, Expired(p) PROVE RunTyped'
  BY <1>9, <1>t, <1>s DEF Expired, PairState
<1>10. ASSUME NEW p \in Pairs, DownloadValid(p) PROVE RunTyped'
  <2>1. mem' \in [Pairs -> PairState]
    BY <1>10, <1>t, DownloadState
  <2> QED
    BY <1>10, <1>t, <1>s, <2>1 DEF DownloadValid
<1> QED
  BY <1>1, <1>2, <1>3, <1>4, <1>5, <1>6, <1>7, <1>8, <1>9, <1>10 DEF Next, Step

LEMMA RestTypeStep == Hyp3Inv /\ [Next]_vars => RestTyped'
<1> SUFFICES ASSUME Hyp3Inv, [Next]_vars PROVE RestTyped'
  OBVIOUS
<1>t. Hyp3TypeOK /\ StateTrue(mem) /\ StateTrue(Saved) /\ Numbered /\ OnTheWay
  BY DEF Hyp3Inv
<1>k. \A j \in Known : j \in Known'
  BY CloudStep DEF Grows
<1> USE DEF Hyp3TypeOK, RestTyped
<1>g. UNCHANGED got => Range1(got)' \subseteq Known'
  BY <1>t, <1>k DEF Range1
<1>n. got' = Nothing => DOMAIN got' = {} /\ Range1(got)' = {}
  BY NothingIsEmpty DEF Range1
<1>o. told \subseteq Known'
  BY <1>t, <1>k
<1>1. CASE Begin \/ CacheHit \/ JobEnds \/ JobExpires \/ UNCHANGED vars
  BY <1>1, <1>t, <1>g, <1>n, <1>o
  DEF Begin, CacheHit, JobEnds, JobExpires, vars, run, account, service
<1>2. CASE UserDeletes
  BY <1>2, <1>t, <1>g, <1>o DEF UserDeletes, run, account, service
<1>3. CASE LoadCorrupt \/ CreditsShort \/ Finish \/ FinishDisjoint \/ DieWriting
  BY <1>3, <1>t, <1>g, <1>o
  DEF LoadCorrupt, CreditsShort, Finish, FinishDisjoint, DieWriting, Leave, account, service
<1>4. CASE BreakOff
  <2>1. folder' \in [Jobs -> {"none", "part", "whole"}]
    BY <1>4, <1>t DEF BreakOff
  <2> QED
    BY <1>4, <1>t, <1>g, <1>o, <2>1 DEF BreakOff, Leave, service
<1>5. CASE Load \/ CheckCredits \/ SubmitDone
  BY <1>5, <1>t, <1>g, <1>o DEF Load, CheckCredits, SubmitDone, run, account, service
<1>6. CASE Submit
  <2>1. Cardinality(Chunk) <= Cardinality(todo) /\ Cardinality(Chunk) \in Nat
        /\ Cardinality(todo) \in Nat
    BY <1>t, ChunkIsShort, FS_Subset
  <2>2. Cardinality(todo) <= credits
    BY <1>6 DEF Hyp3Inv, Affordable, Submit
  <2>3. credits' \in 0 .. Credits
    BY <1>6, <1>t, <2>1, <2>2, CreditAssumption DEF Submit
  <2> QED
    BY <1>6, <1>t, <1>g, <1>o, <2>3 DEF Submit, account
<1>7. CASE Record
  BY <1>7, <1>t, <1>g, <1>o, RecordedState DEF Record, account, service
<1>8. CASE PollAgain \/ PollDone
  BY <1>8, <1>t, <1>g, <1>o, RefreshedState DEF PollAgain, PollDone, Download, account, service
<1>9. CASE PollTimeout
  <2>1. \A p \in Pending(mem') : mem'[p].job \in Known
    BY <1>9, <1>t, RefreshedState DEF PollTimeout, Pending, PairTrue
  <2>2. told' \subseteq Known'
    BY <1>9, <1>o, <1>k, <2>1 DEF PollTimeout, Pending
  <2> QED
    BY <1>9, <1>t, <1>g, <2>2, RefreshedState DEF PollTimeout, Download, service
<1>10. ASSUME NEW p \in Pairs,
             ReuseInvalid(p) \/ JobFailed(p) \/ NotReady(p) \/ Expired(p)
      PROVE  RestTyped'
  BY <1>10, <1>t, <1>g, <1>o DEF ReuseInvalid, JobFailed, NotReady, Expired, account, service
<1>11. ASSUME NEW p \in Pairs, DownloadInvalid(p) PROVE RestTyped'
  BY <1>11, <1>t, <1>g, <1>o DEF DownloadInvalid, Unpack, account, service
<1>12. ASSUME NEW p \in Pairs, Reuse(p) PROVE RestTyped'
  <2>1. mem[p].dir \in Known
    BY <1>12, <1>t DEF Reuse, HasProduct, StateTrue, PairTrue
  <2>2. DOMAIN got' \subseteq Pairs /\ Range1(got)' \subseteq Known'
    BY <1>12, <1>t, <1>k, <2>1 DEF Reuse, Range1
  <2> QED
    BY <1>12, <1>t, <1>o, <2>2 DEF Reuse, account, service
<1>13. ASSUME NEW p \in Pairs, DownloadValid(p) PROVE RestTyped'
  <2>1. PICK d \in Known :
             /\ mem[p].job \in Jobs /\ folder' = [folder EXCEPT ![mem[p].job] = "whole"]
             /\ mem' \in [Pairs -> PairState] /\ jobs' = mem'
             /\ DOMAIN got' = DOMAIN got \union {p} /\ got'[p] = d
             /\ \A q \in DOMAIN got \ {p} : got'[q] = got[q]
    BY <1>13, <1>t, DownloadState
  <2>2. DOMAIN got' \subseteq Pairs /\ Range1(got)' \subseteq Known'
    BY <1>t, <1>k, <2>1 DEF Range1
  <2> QED
    BY <1>13, <1>t, <1>o, <2>1, <2>2 DEF DownloadValid, account, service
<1> QED
  BY <1>1, <1>2, <1>3, <1>4, <1>5, <1>6, <1>7, <1>8, <1>9, <1>10, <1>11, <1>12, <1>13
  DEF Next, Step

LEMMA Hyp3TypeStep == Hyp3Inv /\ [Next]_vars => Hyp3TypeOK'
BY RunTypeStep, RestTypeStep, CloudStep DEF Hyp3TypeOK, RunTyped, RestTyped

\* What is true of a pair stays true.
LEMMA PairTrueStays ==
    ASSUME Grows, NEW p \in Pairs, NEW ps \in PairState, PairTrue(p, ps)
    PROVE  PairTrue(p, ps)'
<1>1. ps.job # 0 => /\ ps.job \in Known' /\ cloud'[ps.job].pair = p
                    /\ ps.status \in {Active, "SUCCEEDED", "FAILED"}
                    /\ ps.status = "FAILED" => cloud'[ps.job].status = "FAILED"
  BY DEF Grows, PairTrue
<1>2. ps.dir # 0 => ps.dir \in Known' /\ cloud'[ps.dir].pair = p
  BY DEF Grows, PairTrue
<1> QED
  BY <1>1, <1>2 DEF PairTrue

LEMMA MemTrueStep == Hyp3Inv /\ [Next]_vars => StateTrue(mem)'
<1> SUFFICES ASSUME Hyp3Inv, [Next]_vars, NEW p \in Pairs PROVE PairTrue(p, mem[p])'
  BY DEF StateTrue
<1>t. Hyp3TypeOK /\ StateTrue(mem) /\ StateTrue(Saved) /\ Numbered /\ OnTheWay
  BY DEF Hyp3Inv
<1>g. Grows
  BY CloudStep
<1>m. mem[p] \in PairState /\ PairTrue(p, mem[p])
  BY <1>t DEF Hyp3TypeOK, StateTrue
<1>s. ASSUME NEW ps \in PairState, PairTrue(p, ps), mem'[p] = ps PROVE PairTrue(p, mem[p])'
  <2>1. PairTrue(p, ps)'
    BY <1>s, <1>g, PairTrueStays
  <2> QED
    BY <1>s, <2>1 DEF PairTrue
<1>u. mem' = mem => PairTrue(p, mem[p])'
  BY <1>m, <1>s
<1>1. CASE mem' = mem
  BY <1>1, <1>u
<1>2. CASE mem' = NewState
  BY <1>2 DEF NewState, NewPair, PairTrue
<1>3. CASE Load
  BY <1>3, <1>t, <1>s, LoadedState
<1>4. CASE Record
  BY <1>4, <1>t, <1>s, RecordedState DEF Record
<1>5. CASE PollAgain \/ PollTimeout \/ PollDone
  BY <1>5, <1>t, <1>s, RefreshedState DEF PollAgain, PollTimeout, PollDone
<1>6. ASSUME NEW q \in Pairs, Expired(q) PROVE PairTrue(p, mem[p])'
  <2>1. CASE p # q
    <3>1. mem'[p] = mem[p]
      BY <1>6, <1>t, <2>1 DEF Expired, Hyp3TypeOK
    <3> QED
      BY <1>m, <1>s, <3>1
  <2>2. CASE p = q
    <3>1. mem'[p].job = 0 /\ mem'[p].status = "EXPIRED" /\ mem'[p].dir = mem[p].dir
      BY <1>6, <1>t, <1>m, <2>2 DEF Expired, Hyp3TypeOK, PairState
    <3>2. mem[p].dir # 0 => mem[p].dir \in Known' /\ cloud'[mem[p].dir].pair = p
      BY <1>m, <1>g DEF Grows, PairTrue
    <3> QED
      BY <3>1, <3>2 DEF PairTrue
  <2> QED
    BY <2>1, <2>2
<1>7. ASSUME NEW q \in Pairs, DownloadValid(q) PROVE PairTrue(p, mem[p])'
  <2>1. PICK d \in Known :
             /\ cloud[d].pair = q
             /\ mem' \in [Pairs -> PairState]
             /\ mem'[q].dir = d /\ mem'[q].job = mem[q].job /\ mem'[q].status = mem[q].status
             /\ \A r \in Pairs \ {q} : mem'[r] = mem[r]
    BY <1>7, <1>t, DownloadState
  <2>2. CASE p # q
    BY <1>m, <1>s, <2>1, <2>2
  <2>3. CASE p = q
    <3>1. PairTrue(p, mem'[p])
      BY <1>m, <2>1, <2>3 DEF PairTrue
    <3> QED
      BY <1>s, <2>1, <3>1
  <2> QED
    BY <2>2, <2>3
<1>8. \/ mem' = mem \/ mem' = NewState \/ Load \/ Record
      \/ PollAgain \/ PollTimeout \/ PollDone
      \/ \E q \in Pairs : Expired(q) \/ DownloadValid(q)
  BY DEF Next, Step, vars, run, Begin, CacheHit, LoadCorrupt, CheckCredits, CreditsShort, Submit,
         SubmitDone, Reuse, ReuseInvalid, JobFailed, NotReady, DownloadInvalid, Finish,
         FinishDisjoint, BreakOff, DieWriting, UserDeletes, JobEnds, JobExpires, Leave
<1> QED
  BY <1>1, <1>2, <1>3, <1>4, <1>5, <1>6, <1>7, <1>8

\* jobs.json is left alone, removed, torn, or written from what the run knows:
\* with the jobs that it has, but for those that have expired.
LEMMA FileStep ==
    ASSUME Hyp3Inv, [Next]_vars
    PROVE  \/ UNCHANGED jobs
           \/ jobs' = Absent /\ caller = "executor" /\ Begin
           \/ jobs' = Corrupt /\ DieWriting
           \/ jobs' = mem' /\ Busy /\ Busy' /\ (Record \/ phase # "record")
           \/ jobs' = mem /\ Busy /\ phase # "record" /\ phase' = "idle"
<1>1. CASE CreditsShort \/ Finish \/ FinishDisjoint
  BY <1>1 DEF CreditsShort, Finish, FinishDisjoint, Leave, Busy
<1>2. CASE Record \/ PollAgain \/ PollTimeout \/ PollDone
  BY <1>2 DEF Record, PollAgain, PollTimeout, PollDone, Busy, Download
<1>3. ASSUME NEW p \in Pairs, DownloadValid(p)
      PROVE  jobs' = mem' /\ Busy /\ Busy' /\ phase # "record"
  BY <1>3 DEF DownloadValid, Downloadable, Due, Busy
<1>4. CASE DieWriting
  BY <1>4 DEF DieWriting
<1>5. CASE Begin
  BY <1>5 DEF Begin
<1> QED
  BY <1>1, <1>2, <1>3, <1>4, <1>5
  DEF Next, Step, vars, CacheHit, Load, LoadCorrupt, CheckCredits, Submit, SubmitDone, Reuse,
      ReuseInvalid, JobFailed, NotReady, Expired, DownloadInvalid, BreakOff, UserDeletes,
      JobEnds, JobExpires

LEMMA SavedTrueStep == Hyp3Inv /\ [Next]_vars => StateTrue(Saved)'
<1> SUFFICES ASSUME Hyp3Inv, [Next]_vars, NEW p \in Pairs PROVE PairTrue(p, Saved[p])'
  BY DEF StateTrue
<1>t. Hyp3TypeOK /\ Hyp3TypeOK' /\ StateTrue(mem) /\ StateTrue(Saved)
  BY Hyp3TypeStep DEF Hyp3Inv
<1>g. Grows
  BY CloudStep
<1>s. ASSUME NEW ps \in PairState, PairTrue(p, ps), Saved'[p] = ps PROVE PairTrue(p, Saved[p])'
  <2>1. PairTrue(p, ps)'
    BY <1>s, <1>g, PairTrueStays
  <2> QED
    BY <1>s, <2>1 DEF PairTrue
<1>n. Saved' = NewState => PairTrue(p, Saved[p])'
  BY DEF NewState, NewPair, PairTrue
<1>1. CASE UNCHANGED jobs
  <2>1. Saved' = Saved /\ Saved[p] \in PairState /\ PairTrue(p, Saved[p])
    BY <1>1, <1>t, SavedIsTyped DEF Saved, StateTrue
  <2> QED
    BY <1>s, <2>1
<1>2. CASE jobs' = Absent \/ jobs' = Corrupt
  BY <1>2, <1>n DEF Saved
<1>3. CASE jobs' = mem
  <2>1. Saved' = mem /\ mem[p] \in PairState /\ PairTrue(p, mem[p])
    BY <1>3, <1>t, FileStates DEF Saved, Hyp3TypeOK, StateTrue
  <2> QED
    BY <1>s, <2>1
<1>4. CASE jobs' = mem'
  <2>1. Saved' = mem' /\ PairTrue(p, mem[p])'
    BY <1>4, <1>t, FileStates, MemTrueStep DEF Saved, Hyp3TypeOK, StateTrue
  <2> QED
    BY <2>1 DEF PairTrue
<1> QED
  BY <1>1, <1>2, <1>3, <1>4, FileStep

\* A run forgets a job only when it records a new one or finds it expired.
LEMMA JobsOfTheRun ==
    ASSUME Hyp3Inv, [Next]_vars, Busy', NEW p \in Pairs
    PROVE  \/ Load
           \/ Busy /\ mem'[p].job = mem[p].job
           \/ Record /\ p \in DOMAIN sent
           \/ Expired(p)
<1>t. Hyp3TypeOK /\ StateTrue(mem) /\ Numbered /\ OnTheWay
  BY DEF Hyp3Inv
<1>1. CASE PollAgain \/ PollTimeout \/ PollDone
  BY <1>1, <1>t, RefreshedState DEF PollAgain, PollTimeout, PollDone, Busy
<1>2. CASE Record
  BY <1>2, <1>t, RecordedState DEF Record, Busy
<1>3. ASSUME NEW q \in Pairs, Expired(q)
      PROVE  Expired(p) \/ (Busy /\ mem'[p].job = mem[p].job)
  <2>1. Busy /\ (p # q => mem'[p] = mem[p])
    BY <1>3, <1>t DEF Expired, Due, Busy, Hyp3TypeOK
  <2>2. CASE p = q
    BY <1>3, <2>2
  <2> QED
    BY <2>1, <2>2
<1>4. ASSUME NEW q \in Pairs, DownloadValid(q)
      PROVE  Busy /\ mem'[p].job = mem[p].job
  <2>1. PICK d \in Known :
             /\ mem'[q].job = mem[q].job /\ \A r \in Pairs \ {q} : mem'[r] = mem[r]
    BY <1>4, <1>t, DownloadState
  <2> QED
    BY <1>4, <2>1 DEF DownloadValid, Downloadable, Due, Busy
<1>5. CASE UNCHANGED mem
  <2>1. CASE ~Busy
    BY <1>5, <2>1 DEF Next, Step, vars, Begin, CacheHit, Load, LoadCorrupt, CheckCredits,
       CreditsShort, Submit, Record, SubmitDone, PollAgain, PollTimeout, PollDone, Reuse,
       ReuseInvalid, JobFailed, NotReady, Expired, DownloadValid, DownloadInvalid, Downloadable,
       Due, Finish, FinishDisjoint, BreakOff, DieWriting, UserDeletes, JobEnds, JobExpires,
       Busy, Leave
  <2> QED
    BY <1>5, <2>1
<1>6. \/ mem' = mem \/ phase' = "idle" \/ Load \/ Record
      \/ PollAgain \/ PollTimeout \/ PollDone
      \/ \E q \in Pairs : Expired(q) \/ DownloadValid(q)
  BY DEF Next, Step, vars, run, Begin, CacheHit, LoadCorrupt, CheckCredits, CreditsShort, Submit,
         SubmitDone, Reuse, ReuseInvalid, JobFailed, NotReady, DownloadInvalid, Finish,
         FinishDisjoint, BreakOff, DieWriting, UserDeletes, JobEnds, JobExpires, Leave
<1> QED
  BY <1>1, <1>2, <1>3, <1>4, <1>5, <1>6 DEF Busy

LEMMA KeptStep == Hyp3Inv /\ [Next]_vars => Kept'
<1> SUFFICES ASSUME Hyp3Inv, [Next]_vars, Busy'
             PROVE  /\ jobs' # Corrupt
                    /\ \A p \in Pairs : Saved'[p].job # 0 /\ Live(Saved[p].job)' =>
                                            mem'[p].job = Saved'[p].job
  BY DEF Kept
<1>t. Hyp3TypeOK /\ Hyp3TypeOK' /\ StateTrue(mem) /\ StateTrue(Saved) /\ Kept
  BY Hyp3TypeStep DEF Hyp3Inv
<1>b. Load \/ Busy
  BY JobsOfTheRun DEF Busy, Expired, Due, Record, Next, Step, vars, Begin, CacheHit,
     LoadCorrupt, CheckCredits,
       CreditsShort, Submit, SubmitDone, PollAgain, PollTimeout, PollDone, Reuse,
       ReuseInvalid, JobFailed, NotReady, DownloadValid, DownloadInvalid, Downloadable,
       Finish, FinishDisjoint, BreakOff, DieWriting, UserDeletes, JobEnds, JobExpires, Leave
<1>1. jobs' # Corrupt
  <2>1. jobs # Corrupt
    BY <1>b, <1>t DEF Kept, Load
  <2>2. ~DieWriting
    BY DEF DieWriting, Leave, Busy
  <2> QED
    BY <2>1, <2>2, <1>t, FileStep, FileStates DEF Hyp3TypeOK
<1>2. ASSUME NEW p \in Pairs, Saved'[p].job # 0, Live(Saved[p].job)'
      PROVE  mem'[p].job = Saved'[p].job
  <2>1. CASE UNCHANGED jobs
    <3>1. Saved' = Saved
      BY <2>1 DEF Saved
    <3>2. Saved[p].job # 0 /\ Live(Saved[p].job)
      <4>1. Saved[p].job # 0 /\ Saved[p].job \in Known
        BY <1>2, <1>t, <3>1 DEF StateTrue, PairTrue
      <4> QED
        BY <1>2, <3>1, <4>1, CloudStep DEF Grows, Live
    <3>3. CASE Load
      BY <3>1, <3>3, <1>t, LoadedState
    <3>4. CASE ~Load
      <4>1. mem[p].job = Saved[p].job
        BY <3>2, <3>4, <1>t, <1>b DEF Kept
      <4>2. ~Expired(p)
        BY <3>2, <4>1 DEF Expired, Live
      <4>3. CASE Record
        <5>1. Saved' = mem'
          BY <1>t, <4>3, FileStates DEF Record, Saved, Hyp3TypeOK
        <5> QED
          BY <5>1
      <4>4. CASE ~Record
        BY <3>1, <3>4, <4>1, <4>2, <4>4, JobsOfTheRun
      <4> QED
        BY <4>3, <4>4
    <3> QED
      BY <3>3, <3>4
  <2>2. CASE jobs' = mem'
    BY <2>2, <1>t, FileStates DEF Saved, Hyp3TypeOK
  <2>3. ~Begin /\ ~DieWriting /\ phase' # "idle"
    BY DEF Begin, DieWriting, Leave, Busy
  <2> QED
    BY <2>1, <2>2, <2>3, FileStep
<1> QED
  BY <1>1, <1>2

LEMMA UnusableStep == Hyp3Inv /\ [Next]_vars => Unusable'
<1> SUFFICES ASSUME Hyp3Inv, [Next]_vars, Submitting', NEW p \in todo'
             PROVE  ~Resumable(mem'[p]) /\ Saved'[p].job = mem'[p].job
  BY DEF Unusable, Resumable
<1>t. /\ Hyp3TypeOK /\ Hyp3TypeOK' /\ StateTrue(mem) /\ StateTrue(Saved) /\ OnTheWay
      /\ Unusable /\ p \in Pairs
  BY Hyp3TypeStep DEF Hyp3Inv, Hyp3TypeOK
<1>1. CASE Load
  <2>1. Saved' = Saved
    BY <1>1 DEF Load, Saved
  <2> QED
    BY <1>1, <1>t, <2>1, LoadedState
<1>2. CASE Record
  <2>1. mem' = Recorded /\ jobs' = mem' /\ p \in todo \ DOMAIN sent /\ phase = "record"
    BY <1>2 DEF Record
  <2>2. Saved' = mem'
    BY <1>t, <2>1, FileStates DEF Saved, Hyp3TypeOK
  <2>3. mem'[p] = mem[p]
    BY <1>t, <2>1, RecordedState
  <2> QED
    BY <1>t, <2>1, <2>2, <2>3 DEF Unusable, Submitting
<1>3. CASE ~Load /\ ~Record
  <2>1. UNCHANGED <<mem, jobs>> /\ Submitting /\ p \in todo
    BY <1>3 DEF Next, Step, vars, run, account, service, Begin, CacheHit, LoadCorrupt,
       CheckCredits, CreditsShort, Submit, SubmitDone, PollAgain, PollTimeout, PollDone,
       Download, Reuse, ReuseInvalid, JobFailed, NotReady, Expired, DownloadValid,
       DownloadInvalid, Downloadable, Due, Finish, FinishDisjoint, BreakOff, DieWriting,
       UserDeletes, JobEnds, JobExpires, Submitting, Leave
  <2>2. Saved' = Saved
    BY <2>1 DEF Saved
  <2> QED
    BY <1>t, <2>1, <2>2 DEF Unusable
<1> QED
  BY <1>1, <1>2, <1>3

LEMMA OnTheWayStep == Hyp3Inv /\ [Next]_vars => OnTheWay'
<1> SUFFICES ASSUME Hyp3Inv, [Next]_vars PROVE OnTheWay'
  OBVIOUS
<1>t. Hyp3TypeOK /\ Numbered /\ OnTheWay
  BY DEF Hyp3Inv
<1>1. CASE Submit
  <2>1. phase' = "record"
    BY <1>1 DEF Submit
  <2>2. \A p \in DOMAIN sent' : cloud'[sent'[p]].pair = p
    <3>1. ASSUME NEW p \in DOMAIN sent' PROVE cloud'[sent'[p]].pair = p
      <4>1. cloud'[sent'[p]] = [pair |-> p, status |-> Active, expired |-> FALSE]
        BY <1>1, <1>t, SubmitNumbers
      <4> QED
        BY <4>1
    <3> QED
      BY <3>1
  <2>3. IsFiniteSet(Range1(sent')) /\ Cardinality(Range1(sent')) <= Batch
    BY <1>1, <1>t, SubmitNumbers
  <2> QED
    BY <2>1, <2>2, <2>3 DEF OnTheWay, Range1
<1>2. CASE UNCHANGED <<phase, sent>>
  <2>1. \A p \in DOMAIN sent : sent[p] \in Known
    BY <1>t DEF Hyp3TypeOK, Range1
  <2> QED
    BY <1>2, <1>t, <2>1, CloudStep DEF OnTheWay, Grows, Range1
<1>3. CASE phase' # "record" /\ sent' = Nothing
  BY <1>3 DEF OnTheWay
<1>4. Submit \/ UNCHANGED <<phase, sent>> \/ (phase' # "record" /\ sent' = Nothing)
  BY <1>t DEF OnTheWay, Next, Step, vars, run, account, service, Begin, CacheHit, Load,
     LoadCorrupt, CheckCredits, CreditsShort, Record, SubmitDone, PollAgain, PollTimeout,
     PollDone, Download, Reuse, ReuseInvalid, JobFailed, NotReady, Expired, DownloadValid,
     DownloadInvalid, Finish, FinishDisjoint, BreakOff, DieWriting, UserDeletes, JobEnds,
     JobExpires, Leave
<1> QED
  BY <1>1, <1>2, <1>3, <1>4

LEMMA AffordableStep == Hyp3Inv /\ [Next]_vars => Affordable'
<1> SUFFICES ASSUME Hyp3Inv, [Next]_vars PROVE Affordable'
  OBVIOUS
<1>t. Hyp3TypeOK /\ Numbered /\ Affordable
  BY DEF Hyp3Inv
<1>1. CASE CheckCredits
  <2>1. Cardinality({}) = 0 /\ credits >= 0
    BY <1>t, FS_EmptySet DEF Hyp3TypeOK
  <2> QED
    BY <1>1, <2>1 DEF CheckCredits, EnoughCredits, Affordable, run, service
<1>2. CASE Submit
  <2>1. DOMAIN sent' = Chunk /\ Chunk \subseteq todo
    BY <1>2, <1>t, SubmitNumbers
  <2>2. IsFiniteSet(todo) /\ Cardinality(todo) \in Nat /\ Cardinality(Chunk) \in Nat
    BY <1>t, ChunkIsShort DEF Hyp3TypeOK
  <2>3. Cardinality(todo \ Chunk) = Cardinality(todo) - Cardinality(Chunk)
    <3>1. todo \cap Chunk = Chunk
      BY <2>1
    <3> QED
      BY <2>2, <3>1, FS_Difference
  <2>4. Cardinality(todo) <= credits
    BY <1>2, <1>t DEF Submit, Affordable
  <2>5. Cardinality(todo \ Chunk) <= credits - Cardinality(Chunk)
    BY <1>t, <2>2, <2>3, <2>4 DEF Hyp3TypeOK
  <2> QED
    BY <1>2, <2>1, <2>5 DEF Submit, Affordable
<1>3. CASE Record
  BY <1>3, <1>t DEF Record, Affordable, service
<1>4. CASE UNCHANGED <<phase, todo, sent, credits>>
  BY <1>4, <1>t DEF Affordable
<1>5. CASE phase' \notin {"submit", "record"}
  BY <1>5 DEF Affordable
<1>6. \/ CheckCredits \/ Submit \/ Record \/ UNCHANGED <<phase, todo, sent, credits>>
      \/ phase' \notin {"submit", "record"}
  BY DEF Next, Step, vars, run, account, service, Begin, CacheHit, Load,
     LoadCorrupt, CreditsShort, SubmitDone, PollAgain, PollTimeout,
     PollDone, Download, Reuse, ReuseInvalid, JobFailed, NotReady, Expired, DownloadValid,
     DownloadInvalid, Finish, FinishDisjoint, BreakOff, DieWriting, UserDeletes, JobEnds,
     JobExpires, Leave
<1> QED
  BY <1>1, <1>2, <1>3, <1>4, <1>5, <1>6

LEMMA FewerOrphans ==
    ASSUME Hyp3Inv, Orphans' \subseteq Orphans, UNCHANGED <<caller, lost>>, jobs # Corrupt
    PROVE  Remembered'
<1>1. Orphans \in SUBSET Known
  BY DEF Orphans
<1>2. IsFiniteSet(Orphans) /\ Cardinality(Orphans) \in Nat
  BY <1>1, KnownIsFinite
<1>3. Cardinality(Orphans') <= Cardinality(Orphans) /\ Cardinality(Orphans') \in Nat
  BY <1>2, FS_Subset, FS_CardinalityType
<1>4. Batch * lost \in Nat
  BY BatchAssumption DEF Hyp3Inv
<1>5. caller = "engine" => Cardinality(Orphans) <= Batch * lost
  BY DEF Hyp3Inv, Remembered
<1>6. caller' = "engine" => Cardinality(Orphans') <= Batch * lost'
  BY <1>2, <1>3, <1>4, <1>5
<1> QED
  BY <1>6 DEF Remembered

\* Writing what the run knows forgets no live job.
LEMMA WritingForgetsNothing ==
    ASSUME Hyp3Inv, [Next]_vars, jobs' = mem' \/ jobs' = mem, Record \/ jobs' # jobs,
           UNCHANGED lost
    PROVE  Remembered'
<1>t. /\ Hyp3TypeOK /\ Hyp3TypeOK' /\ StateTrue(mem) /\ StateTrue(Saved) /\ Numbered
      /\ OnTheWay /\ Kept /\ Unusable
  BY Hyp3TypeStep DEF Hyp3Inv
<1>f. mem \in [Pairs -> PairState] /\ mem' \in [Pairs -> PairState]
  BY <1>t DEF Hyp3TypeOK
<1>a. jobs' # Absent /\ jobs' # Corrupt
  BY <1>f, FileStates
<1>b. Busy /\ (Record \/ phase # "record") /\ jobs # Corrupt
      /\ (jobs' = mem \/ (jobs' = mem' /\ Busy'))
  <2>1. CASE Record
    BY <1>t, <2>1 DEF Record, Busy, Kept
  <2>2. CASE jobs' # jobs
    BY <1>a, <1>t, <2>2, FileStep DEF Kept
  <2> QED
    BY <2>1, <2>2
<1>c. ~Submit /\ Known' = Known
  BY CloudStep DEF Submit, Record
<1>l. UNCHANGED caller
  BY DEF Next, Step, vars, account, Begin, CacheHit, Load, LoadCorrupt, CheckCredits,
     CreditsShort, Submit, Record, SubmitDone, PollAgain, PollTimeout, PollDone, Reuse,
     ReuseInvalid, JobFailed, NotReady, Expired, DownloadValid, DownloadInvalid, Finish,
     FinishDisjoint, BreakOff, DieWriting, UserDeletes, JobEnds, JobExpires
<1>1. ASSUME NEW j \in Orphans' PROVE j \in Orphans
  <2>1. j \in Known /\ Live(j) /\ j \notin { Saved'[p].job : p \in Pairs } /\ j # 0
    BY <1>1, <1>c, CloudStep, BoundAssumption DEF Orphans, Grows, Known, Jobs
  <2>2. CASE Record
    <3>1. Saved' = mem' /\ mem' = Recorded /\ phase = "record"
      BY <1>f, <2>2, FileStates DEF Record, Saved
    <3>2. ASSUME NEW p \in Pairs, Saved[p].job = j PROVE FALSE
      <4>1. mem[p].job = j
        BY <1>t, <1>b, <2>1, <3>2 DEF Kept
      <4>2. CASE p \in DOMAIN sent
        <5>1. ~Resumable(mem[p]) /\ PairTrue(p, mem[p])
          BY <1>t, <3>1, <4>2 DEF Unusable, Submitting, Hyp3TypeOK, StateTrue
        <5> QED
          BY <2>1, <4>1, <5>1 DEF Resumable, PairTrue, Live, Active
      <4>3. CASE p \notin DOMAIN sent
        BY <1>t, <2>1, <3>1, <4>1, <4>3, RecordedState
      <4> QED
        BY <4>2, <4>3
    <3>3. ASSUME NEW p \in DOMAIN sent, sent[p] = j PROVE FALSE
      BY <1>t, <2>1, <3>1, <3>3, RecordedState DEF Hyp3TypeOK
    <3> QED
      BY <2>1, <3>2, <3>3 DEF Orphans, Range1
  <2>3. CASE ~Record
    <3>1. Range1(sent) = {}
      BY <1>t, <1>b, <2>3, NothingIsEmpty DEF OnTheWay
    <3>2. ASSUME NEW p \in Pairs, Saved[p].job = j PROVE FALSE
      <4>1. mem[p].job = j
        BY <1>t, <1>b, <2>1, <3>2 DEF Kept
      <4>2. ~Load
        BY <1>b DEF Load, Busy
      <4>3. ~Expired(p)
        BY <2>1, <4>1 DEF Expired, Live
      <4>4. CASE jobs' = mem
        <5>1. Saved' = mem
          BY <1>f, <4>4, FileStates DEF Saved
        <5> QED
          BY <2>1, <4>1, <5>1
      <4>5. CASE jobs' = mem' /\ Busy'
        <5>1. Saved' = mem'
          BY <1>f, <4>5, FileStates DEF Saved
        <5>2. mem'[p].job = mem[p].job
          BY <2>3, <4>2, <4>3, <4>5, JobsOfTheRun
        <5> QED
          BY <2>1, <4>1, <5>1, <5>2
      <4> QED
        BY <1>b, <4>4, <4>5
    <3> QED
      BY <2>1, <3>1, <3>2 DEF Orphans
  <2> QED
    BY <2>2, <2>3
<1> QED
  BY <1>1, <1>b, <1>l, FewerOrphans

\* An answer that is lost leaves at most its batch unknown to jobs.json.
LEMMA LostAnswer ==
    ASSUME Hyp3Inv, BreakOff
    PROVE  Remembered'
<1>t. Hyp3TypeOK /\ OnTheWay /\ lost \in Nat
  BY DEF Hyp3Inv
<1>1. UNCHANGED <<cloud, jobs, caller>> /\ sent' = Nothing
  BY DEF BreakOff, Leave, service
<1>2. Known' = Known /\ Saved' = Saved /\ Range1(sent') = {}
      /\ \A j \in Known : Live(j)' <=> Live(j)
  BY <1>1, NothingIsEmpty DEF Known, Saved, Live
<1>3. Orphans' \subseteq Orphans \union Range1(sent)
  BY <1>2, CloudStep DEF Orphans, Range1
<1>4. IsFiniteSet(Orphans) /\ Cardinality(Orphans) \in Nat
  <2>1. Orphans \in SUBSET Known
    BY DEF Orphans
  <2> QED
    BY <2>1, KnownIsFinite
<1>5. jobs # Corrupt /\ caller = "engine" => Cardinality(Orphans) <= Batch * lost
  BY DEF Hyp3Inv, Remembered
<1>6. Batch \in Nat /\ Batch * lost \in Nat /\ Batch * (lost + 1) = Batch * lost + Batch
  BY <1>t, BatchAssumption
<1>7. CASE phase = "record"
  <2> DEFINE R == Range1(sent)
             O == Orphans
  <2>1. IsFiniteSet(R) /\ Cardinality(R) <= Batch /\ Cardinality(R) \in Nat
    BY <1>7, <1>t, FS_CardinalityType DEF OnTheWay
  <2> HIDE DEF R, O
  <2>2. /\ IsFiniteSet(O \union R)
        /\ Cardinality(O \union R) = Cardinality(O) + Cardinality(R) - Cardinality(O \cap R)
    BY <1>4, <2>1, FS_Union DEF O
  <2>3. Cardinality(O \cap R) \in Nat /\ Cardinality(O \union R) \in Nat
    <3>1. IsFiniteSet(O \cap R)
      BY <2>1, FS_Intersection
    <3> QED
      BY <2>2, <3>1, FS_CardinalityType
  <2>4. Cardinality(Orphans') <= Cardinality(O \union R) /\ Cardinality(Orphans') \in Nat
    <3>1. Orphans' \in SUBSET (O \union R)
      BY <1>3 DEF O, R
    <3> QED
      BY <2>2, <3>1, FS_Subset, FS_CardinalityType
  <2>5. lost' = lost + 1
    BY <1>7 DEF BreakOff
  <2>6. jobs # Corrupt /\ caller = "engine" =>
            Cardinality(Orphans') <= Batch * lost + Batch
    BY <1>4, <1>5, <1>6, <2>1, <2>2, <2>3, <2>4 DEF O
  <2>7. Batch * lost' = Batch * lost + Batch
    BY <1>6, <2>5
  <2> QED
    BY <1>1, <2>6, <2>7 DEF Remembered
<1>8. CASE phase # "record"
  <2>1. Range1(sent) = {}
    BY <1>8, <1>t, NothingIsEmpty DEF OnTheWay
  <2>2. Orphans' \subseteq Orphans /\ UNCHANGED <<caller, lost>>
    BY <1>1, <1>3, <1>8, <2>1 DEF BreakOff
  <2>3. CASE jobs = Corrupt
    BY <1>1, <2>3 DEF Remembered
  <2>4. CASE jobs # Corrupt
    BY <2>2, <2>4, FewerOrphans
  <2> QED
    BY <2>3, <2>4
<1> QED
  BY <1>7, <1>8

LEMMA RememberedStep == Hyp3Inv /\ [Next]_vars => Remembered'
<1> SUFFICES ASSUME Hyp3Inv, [Next]_vars PROVE Remembered'
  OBVIOUS
<1>t. Hyp3TypeOK /\ StateTrue(Saved) /\ Numbered /\ OnTheWay
  BY DEF Hyp3Inv
<1>1. CASE BreakOff
  BY <1>1, LostAnswer
<1>2. CASE ~BreakOff /\ (jobs' = mem' \/ jobs' = mem) /\ (Record \/ jobs' # jobs)
  <2>1. UNCHANGED lost
    BY <1>2 DEF Next, Step, vars, account, Begin, CacheHit, Load, LoadCorrupt, CheckCredits,
       CreditsShort, Submit, Record, SubmitDone, PollAgain, PollTimeout, PollDone, Reuse,
       ReuseInvalid, JobFailed, NotReady, Expired, DownloadValid, DownloadInvalid, Finish,
       FinishDisjoint, DieWriting, UserDeletes, JobEnds, JobExpires
  <2> QED
    BY <1>2, <2>1, WritingForgetsNothing
<1>3. CASE jobs' = Corrupt
  BY <1>3 DEF Remembered
<1>4. CASE Begin /\ caller = "executor"
  BY <1>4 DEF Begin, Remembered
<1>5. CASE ~BreakOff /\ ~Record /\ UNCHANGED jobs /\ jobs # Corrupt
  <2>1. UNCHANGED <<caller, lost>> /\ Saved' = Saved
    BY <1>5 DEF Saved, Next, Step, vars, account, Begin, CacheHit, Load, LoadCorrupt,
       CheckCredits, CreditsShort, Submit, SubmitDone, PollAgain, PollTimeout, PollDone, Reuse,
       ReuseInvalid, JobFailed, NotReady, Expired, DownloadValid, DownloadInvalid, Finish,
       FinishDisjoint, DieWriting, UserDeletes, JobEnds, JobExpires
  <2>2. CASE Submit
    <3>1. Range1(sent) = {} /\ Known' = Known \union Range1(sent')
      BY <1>t, <2>2, SubmitNumbers, NothingIsEmpty DEF OnTheWay, Submit
    <3>2. Orphans' \subseteq Orphans
      BY <2>1, <3>1, CloudStep DEF Orphans, Grows, Range1
    <3> QED
      BY <1>5, <2>1, <3>2, FewerOrphans
  <2>3. CASE ~Submit
    <3>1. sent' = sent \/ phase # "record"
      BY <1>5, <2>3, <1>t, FileStates DEF Next, Step, vars, account, run, Begin, CacheHit, Load,
       LoadCorrupt, CheckCredits, CreditsShort, SubmitDone, PollAgain, PollTimeout, PollDone,
       Reuse, ReuseInvalid, JobFailed, NotReady, Expired, DownloadValid, DownloadInvalid,
       Downloadable, Due, Finish, FinishDisjoint, DieWriting, UserDeletes, JobEnds, JobExpires
    <3>2. Range1(sent) \subseteq Range1(sent')
      BY <1>t, <3>1, NothingIsEmpty DEF OnTheWay
    <3>3. Known' = Known
      BY <2>3, CloudStep
    <3>4. Orphans' \subseteq Orphans
      BY <2>1, <3>2, <3>3, CloudStep DEF Orphans, Grows, Range1
    <3> QED
      BY <1>5, <2>1, <3>4, FewerOrphans
  <2> QED
    BY <2>2, <2>3
<1> QED
  BY <1>1, <1>2, <1>3, <1>4, <1>5, FileStep DEF Record

\* A product that is complete stays so while its folder does.
LEMMA CompleteStays ==
    ASSUME Hyp3Inv, [Next]_vars, NEW p \in Pairs, Complete(p),
           p \in DOMAIN got', got'[p] = got[p],
           folder'[got[p]] = folder[got[p]]
    PROVE  Complete(p)'
<1>1. got[p] \in Known
  BY DEF Complete, Hyp3Inv, Hyp3TypeOK, Range1
<1>2. cloud'[got[p]].pair = cloud[got[p]].pair
  BY <1>1, CloudStep DEF Grows
<1> QED
  BY <1>2 DEF Complete

\* Leaving the engine leaves nothing half done.
LEMMA LeaveUnderway ==
    ASSUME NEW how, Leave(how), how # "ok" PROVE Underway'
BY DEF Leave, Underway, Submitting

LEMMA BeforeDownload ==
    ASSUME Hyp3Inv, [Next]_vars, phase # "download", phase # "idle"
    PROVE  Underway'
<1>t. /\ Hyp3TypeOK /\ StateTrue(mem) /\ StateTrue(Saved) /\ Numbered /\ OnTheWay
      /\ Underway /\ ~failed /\ bad = {}
  BY DEF Hyp3Inv, Underway
<1>1. CASE Load
  <2>1. UNCHANGED <<folder, failed, bad>> /\ phase' = "credits"
    BY <1>1 DEF Load
  <2>2. ASSUME NEW p \in Pairs \ todo' PROVE HasProduct(mem[p])' \/ Resumable(mem'[p])
    BY <1>1, <1>t, <2>1, <2>2, LoadedState DEF HasProduct
  <2> QED
    BY <1>t, <2>1, <2>2 DEF Underway, Submitting, Resumable
<1>2. CASE LoadCorrupt \/ CreditsShort \/ BreakOff \/ DieWriting
  BY <1>2, LeaveUnderway DEF LoadCorrupt, CreditsShort, BreakOff, DieWriting
<1>3. CASE CheckCredits \/ Submit
  <2>1. UNCHANGED <<folder, failed, bad, mem, todo>> /\ phase \in {"credits", "submit"}
        /\ phase' \in {"submit", "record"}
    BY <1>3 DEF CheckCredits, Submit, run
  <2> QED
    BY <1>t, <2>1 DEF Underway, Submitting, HasProduct, Resumable
<1>4. CASE Record
  <2>1. /\ UNCHANGED <<folder, failed, bad>> /\ phase = "record" /\ phase' = "submit"
        /\ mem' = Recorded /\ todo' = todo \ DOMAIN sent
    BY <1>4 DEF Record
  <2>2. ASSUME NEW p \in Pairs \ todo' PROVE HasProduct(mem[p])' \/ Resumable(mem'[p])
    <3>1. CASE p \in DOMAIN sent
      BY <1>t, <2>1, <3>1, RecordedState
    <3>2. CASE p \notin DOMAIN sent
      <4>1. mem'[p] = mem[p] /\ p \notin todo
        BY <1>t, <2>1, <2>2, <3>2, RecordedState
      <4> QED
        BY <1>t, <2>1, <4>1 DEF Underway, Submitting, HasProduct
    <3> QED
      BY <3>1, <3>2
  <2> QED
    BY <1>t, <2>1, <2>2 DEF Underway, Submitting, Resumable
<1>5. CASE SubmitDone
  <2>1. /\ UNCHANGED <<folder, failed, bad, mem>> /\ phase = "submit" /\ phase' = "poll"
        /\ todo = {}
    BY <1>5 DEF SubmitDone
  <2> QED
    BY <1>t, <2>1 DEF Underway, Submitting, HasProduct, Resumable
<1>6. CASE PollAgain
  <2>1. /\ UNCHANGED <<folder, failed, bad>> /\ phase = "poll" /\ phase' = "poll"
        /\ mem' = Refreshed
    BY <1>6 DEF PollAgain
  <2> QED
    BY <1>t, <2>1, RefreshedState DEF Underway, Submitting, HasProduct
<1>7. CASE PollTimeout
  BY <1>7, <1>t DEF PollTimeout, Download, Underway, Submitting
<1>8. CASE PollDone
  <2>1. /\ UNCHANGED <<folder, failed, bad>> /\ phase = "poll" /\ phase' = "download"
        /\ mem' = Refreshed /\ left' = Pairs /\ Pending(Refreshed) = {}
    BY <1>8 DEF PollDone, Download
  <2>2. ASSUME NEW p \in Pairs
        PROVE  HasProduct(mem[p])' \/ mem'[p].status \in {"SUCCEEDED", "FAILED"}
    <3>1. CASE HasProduct(mem[p])
      BY <1>t, <2>1, <3>1, RefreshedState DEF HasProduct
    <3>2. CASE ~HasProduct(mem[p])
      <4>1. Refreshed[p].job # 0 /\ PairTrue(p, Refreshed[p])
        BY <1>t, <2>1, <3>2, RefreshedState DEF Underway
      <4>2. Refreshed[p].status # Active
        BY <2>1, <4>1 DEF Pending
      <4> QED
        BY <2>1, <4>1, <4>2 DEF PairTrue
    <3> QED
      BY <3>1, <3>2
  <2> QED
    BY <1>t, <2>1, <2>2 DEF Underway, Submitting
<1>9. CASE JobEnds \/ JobExpires \/ UNCHANGED vars
  BY <1>9, <1>t DEF JobEnds, JobExpires, vars, run, account, Underway, Submitting, HasProduct,
     Resumable
<1> QED
  BY <1>1, <1>2, <1>3, <1>4, <1>5, <1>6, <1>7, <1>8, <1>9
  DEF Next, Step, Begin, CacheHit, Reuse, ReuseInvalid, JobFailed, NotReady, Expired,
      DownloadValid, DownloadInvalid, Downloadable, Due, Finish, FinishDisjoint, UserDeletes

LEMMA BetweenRuns ==
    ASSUME Hyp3Inv, [Next]_vars, phase = "idle"
    PROVE  Underway'
<1>t. Hyp3TypeOK /\ Underway /\ ~failed /\ bad = {}
  BY DEF Hyp3Inv, Underway
<1>1. CASE Begin \/ UserDeletes \/ CacheHit
  BY <1>1, <1>t DEF Begin, UserDeletes, CacheHit, Underway, Submitting, run
<1>2. CASE JobEnds \/ JobExpires \/ UNCHANGED vars
  <2>1. UNCHANGED <<result, phase, failed, bad, got, folder, warned>>
    BY <1>2 DEF JobEnds, JobExpires, vars, run
  <2>2. \A p \in Pairs : Complete(p) => Complete(p)'
    <3>1. \A p \in Pairs : p \in DOMAIN got => got[p] \in Known
      BY <1>t DEF Hyp3TypeOK, Range1
    <3> QED
      BY <2>1, <3>1, CloudStep DEF Complete, Grows
  <2> QED
    BY <1>t, <2>1, <2>2 DEF Underway, Submitting
<1> QED
  BY <1>1, <1>2 DEF Next, Step, Load, LoadCorrupt, CheckCredits, CreditsShort, Submit, Record,
     SubmitDone, PollAgain, PollTimeout, PollDone, Reuse, ReuseInvalid, JobFailed, NotReady,
     Expired, DownloadValid, DownloadInvalid, Downloadable, Due, Finish, FinishDisjoint,
     BreakOff, DieWriting

\* What the download loop has looked at is a product or was warned about.
LEMMA WhileDownloading ==
    ASSUME Hyp3Inv, [Next]_vars, phase = "download"
    PROVE  Underway'
<1>t. Hyp3TypeOK /\ StateTrue(mem) /\ Underway
  BY DEF Hyp3Inv
<1>u. ~failed => /\ bad = {}
                 /\ \A p \in left : HasProduct(mem[p]) \/ mem[p].status \in {"SUCCEEDED", "FAILED"}
                 /\ \A p \in Pairs \ left : p \in warned \/ Complete(p)
  BY <1>t DEF Underway
<1>w. ASSUME phase' = "download", failed'
      PROVE  Underway'
  BY <1>w DEF Underway, Submitting
<1>v. ASSUME phase' = "download", ~failed', bad' = {},
             \A p \in left' : HasProduct(mem[p])' \/ mem'[p].status \in {"SUCCEEDED", "FAILED"},
             \A p \in Pairs \ left' : p \in warned' \/ Complete(p)'
      PROVE  Underway'
  BY <1>v DEF Underway, Submitting
<1>1. CASE BreakOff \/ DieWriting \/ FinishDisjoint
  BY <1>1, LeaveUnderway DEF BreakOff, DieWriting, FinishDisjoint
<1>2. CASE Finish
  <2>1. CASE failed
    BY <1>2, <2>1, LeaveUnderway DEF Finish
  <2>2. CASE ~failed
    <3>1. \A p \in Pairs : p \in warned \/ Complete(p)
      BY <1>2, <1>u, <2>2 DEF Finish
    <3>2. UNCHANGED <<cloud, folder, got, warned>> /\ ~failed' /\ bad' = {}
          /\ phase' = "idle"
      BY <1>2 DEF Finish, Leave, service
    <3>3. \A p \in Pairs : p \in warned' \/ Complete(p)'
      BY <3>1, <3>2 DEF Complete
    <3> QED
      BY <3>2, <3>3 DEF Underway, Submitting
  <2> QED
    BY <2>1, <2>2
<1>3. ASSUME NEW p \in Pairs, ReuseInvalid(p) \/ JobFailed(p) \/ DownloadInvalid(p)
      PROVE  Underway'
  BY <1>3, <1>w DEF ReuseInvalid, JobFailed, DownloadInvalid, Downloadable, Due
<1>4. ASSUME NEW p \in Pairs,
             Reuse(p) \/ NotReady(p) \/ Expired(p) \/ DownloadValid(p)
      PROVE  Underway'
  <2>0. phase' = "download" /\ UNCHANGED <<failed, bad, cloud>> /\ left' = left \ {p}
        /\ p \in left
    BY <1>4 DEF Reuse, NotReady, Expired, DownloadValid, Downloadable, Due, service
  <2>1. CASE failed
    BY <1>w, <2>0, <2>1
  <2> SUFFICES ASSUME ~failed PROVE Underway'
    BY <2>1
  <2>2. CASE Reuse(p)
    <3>1. UNCHANGED <<mem, folder, warned>> /\ mem[p].dir # 0 /\ folder[mem[p].dir] = "whole"
          /\ DOMAIN got' = DOMAIN got \union {p} /\ got'[p] = mem[p].dir
          /\ \A q \in DOMAIN got \ {p} : got'[q] = got[q]
      BY <2>2 DEF Reuse, HasProduct
    <3>2. cloud[mem[p].dir].pair = p
      BY <1>t, <3>1 DEF StateTrue, PairTrue
    <3>3. Complete(p)'
      BY <2>0, <3>1, <3>2 DEF Complete
    <3>4. \A q \in Pairs \ {p} : Complete(q) => Complete(q)'
      BY <2>0, <3>1 DEF Complete
    <3>5. \A q \in left' : HasProduct(mem[q])' \/ mem'[q].status \in {"SUCCEEDED", "FAILED"}
      BY <1>u, <2>0, <3>1 DEF HasProduct
    <3> QED
      BY <1>u, <1>v, <2>0, <3>1, <3>3, <3>4, <3>5
  <2>3. CASE NotReady(p)
    BY <1>u, <2>0, <2>3 DEF NotReady, Due
  <2>4. CASE Expired(p)
    <3>1. UNCHANGED <<folder, got>> /\ warned' = warned \union {p}
      BY <2>4 DEF Expired
    <3>2. \A q \in Pairs \ {p} : mem'[q] = mem[q]
      BY <1>t, <2>4 DEF Expired, Hyp3TypeOK
    <3>3. \A q \in Pairs : Complete(q) => Complete(q)'
      BY <2>0, <3>1 DEF Complete
    <3>4. \A q \in left' : HasProduct(mem[q])' \/ mem'[q].status \in {"SUCCEEDED", "FAILED"}
      BY <1>t, <1>u, <2>0, <3>1, <3>2 DEF HasProduct, Hyp3TypeOK
    <3> QED
      BY <1>u, <1>v, <2>0, <3>1, <3>3, <3>4
  <2>5. CASE DownloadValid(p)
    <3>1. PICK d \in Known :
             /\ cloud[d].pair = p /\ folder'[d] = "whole" /\ d \in Jobs
             /\ mem[p].job \in Jobs /\ folder' = [folder EXCEPT ![mem[p].job] = "whole"]
             /\ \A q \in Pairs \ {p} : mem'[q] = mem[q]
             /\ DOMAIN got' = DOMAIN got \union {p} /\ got'[p] = d
             /\ \A q \in DOMAIN got \ {p} : got'[q] = got[q]
      BY <1>t, <2>5, DownloadState
    <3>2. UNCHANGED warned
      BY <2>5 DEF DownloadValid
    <3>3. \A j \in Jobs : folder[j] # "none" => folder'[j] # "none"
      BY <1>t, <3>1 DEF Hyp3TypeOK
    <3>4. \A j \in Jobs : folder[j] = "whole" => folder'[j] = "whole"
      BY <1>t, <3>1 DEF Hyp3TypeOK
    <3>5. Complete(p)'
      BY <2>0, <3>1 DEF Complete
    <3>6. \A q \in Pairs \ {p} : Complete(q) => Complete(q)'
      <4>1. \A q \in DOMAIN got : got[q] \in Jobs
        BY <1>t DEF Hyp3TypeOK, Range1, Known
      <4> QED
        BY <2>0, <3>1, <3>4, <4>1 DEF Complete
    <3>7. \A q \in left' : HasProduct(mem[q])' \/ mem'[q].status \in {"SUCCEEDED", "FAILED"}
      <4>1. \A q \in Pairs : mem[q].dir # 0 => mem[q].dir \in Jobs
        BY <1>t DEF StateTrue, PairTrue, Known
      <4>2. left' \subseteq Pairs \ {p}
        BY <1>t, <2>0 DEF Hyp3TypeOK
      <4> QED
        BY <1>u, <2>0, <3>1, <3>3, <4>1, <4>2 DEF HasProduct
    <3> QED
      BY <1>u, <1>v, <2>0, <3>2, <3>5, <3>6, <3>7
  <2> QED
    BY <1>4, <2>2, <2>3, <2>4, <2>5
<1>5. CASE JobEnds \/ JobExpires \/ UNCHANGED vars
  <2>1. UNCHANGED <<phase, failed, bad, got, folder, warned, mem, left>>
    BY <1>5 DEF JobEnds, JobExpires, vars, run
  <2>2. \A p \in Pairs : Complete(p) => Complete(p)'
    <3>1. \A p \in Pairs : p \in DOMAIN got => got[p] \in Known
      BY <1>t DEF Hyp3TypeOK, Range1
    <3> QED
      BY <2>1, <3>1, CloudStep DEF Complete, Grows
  <2>3. CASE failed
    BY <1>w, <2>1, <2>3
  <2>4. CASE ~failed
    BY <1>u, <1>v, <2>1, <2>2, <2>4 DEF HasProduct
  <2> QED
    BY <2>3, <2>4
<1> QED
  BY <1>1, <1>2, <1>3, <1>4, <1>5 DEF Next, Step, Begin, CacheHit, Load, LoadCorrupt,
     CheckCredits, CreditsShort, Submit, Record, SubmitDone, PollAgain, PollTimeout, PollDone,
     UserDeletes

LEMMA Hyp3InvInit == Init => Hyp3Inv
<1> SUFFICES ASSUME Init PROVE Hyp3Inv
  OBVIOUS
<1>1. Known = {} /\ Cardinality(Known) = 0 /\ Range1(sent) = {} /\ Range1(got) = {}
  BY NothingIsEmpty, FS_EmptySet DEF Init, Known
<1>2. Saved = NewState /\ mem = NewState /\ phase = "idle" /\ sent = Nothing
  BY DEF Init, Saved
<1>3. StateTrue(mem) /\ StateTrue(Saved)
  BY <1>2 DEF StateTrue, NewState, NewPair, PairTrue
<1>4. Hyp3TypeOK
  <2>1. 0 \in 0 .. MaxWaits /\ Credits \in 0 .. Credits
    BY BoundAssumption, CreditAssumption
  <2> QED
    BY <1>1, <1>2, <2>1, NothingIsEmpty, FileStates DEF Init, Hyp3TypeOK, NoJob
<1>5. Remembered
  <2>1. Orphans = {}
    BY <1>1 DEF Orphans
  <2> QED
    BY <2>1, FS_EmptySet, BatchAssumption DEF Remembered, Init
<1>6. Numbered
  BY <1>1 DEF Numbered
<1> QED
  BY <1>2, <1>3, <1>4, <1>5, <1>6
  DEF Hyp3Inv, Init, Kept, Busy, Unusable, Submitting, OnTheWay, Affordable, Underway

LEMMA Hyp3InvStep == Hyp3Inv /\ [Next]_vars => Hyp3Inv'
<1> SUFFICES ASSUME Hyp3Inv, [Next]_vars PROVE Hyp3Inv'
  OBVIOUS
<1>1. Underway'
  BY BeforeDownload, BetweenRuns, WhileDownloading
<1>2. (lost' = lost \/ lost' = lost + 1) /\ (runs' = runs \/ runs' = runs + 1)
  <2>1. CASE Begin \/ BreakOff
    BY <2>1 DEF Begin, BreakOff
  <2>2. CASE ~Begin /\ ~BreakOff
    BY <2>2 DEF Next, Step, vars, account, CacheHit, Load, LoadCorrupt, CheckCredits,
     CreditsShort, Submit, Record, SubmitDone, PollAgain, PollTimeout, PollDone, Reuse,
     ReuseInvalid, JobFailed, NotReady, Expired, DownloadValid, DownloadInvalid, Finish,
     FinishDisjoint, DieWriting, UserDeletes, JobEnds, JobExpires
  <2> QED
    BY <2>1, <2>2
<1>3. lost' \in Nat /\ runs' \in Nat
  BY <1>2 DEF Hyp3Inv
<1> QED
  BY <1>1, <1>3, Hyp3TypeStep, CloudStep, MemTrueStep, SavedTrueStep, KeptStep, UnusableStep,
     OnTheWayStep, AffordableStep, RememberedStep DEF Hyp3Inv

LEMMA Hyp3InvAlways == Spec => []Hyp3Inv
BY Hyp3InvInit, Hyp3InvStep, PTL DEF Spec

\* Types: among them, that the account is never overdrawn, and that whatever
\* the engine waits for, returns or has reported is a job of the service.
THEOREM Hyp3Types == Spec => []Hyp3TypeOK
<1>1. Hyp3Inv => Hyp3TypeOK
  BY DEF Hyp3Inv
<1> QED
  BY <1>1, Hyp3InvAlways, PTL

\* Whatever fails, dies, expires or times out: between runs jobs.json names
\* every live job but those of the lost answers, and a stage that succeeds
\* has a complete product for every pair it did not warn about.
THEOREM NothingIsLostHolds == Spec => []NothingIsLost
<1>1. Hyp3Inv => NothingIsLost
  <2> SUFFICES ASSUME Hyp3Inv PROVE JobsRemembered /\ OkIsComplete
    BY DEF NothingIsLost
  <2>t. Hyp3TypeOK /\ OnTheWay /\ Underway /\ Remembered
    BY DEF Hyp3Inv
  <2>1. JobsRemembered
    <3> SUFFICES ASSUME phase = "idle", caller = "engine", jobs # Corrupt
                 PROVE  LET named == IF jobs = Absent THEN {} ELSE { jobs[p].job : p \in Pairs } IN
                        Cardinality({ j \in Known : Live(j) } \ named) <= Batch * lost
      BY DEF JobsRemembered
    <3> DEFINE named == IF jobs = Absent THEN {} ELSE { jobs[p].job : p \in Pairs }
    <3>1. Range1(sent) = {}
      BY <2>t, NothingIsEmpty DEF OnTheWay
    <3>2. { j \in Known : Live(j) } \ named = Orphans
      <4>1. CASE jobs = Absent
        <5>1. \A p \in Pairs : Saved[p].job = 0
          BY <4>1 DEF Saved, NewState, NewPair
        <5>2. 0 \notin Known
          BY BoundAssumption DEF Known, Jobs
        <5> QED
          BY <3>1, <4>1, <5>1, <5>2 DEF Orphans
      <4>2. CASE jobs # Absent
        BY <3>1, <4>2 DEF Orphans, Saved
      <4> QED
        BY <4>1, <4>2
    <3> QED
      BY <2>t, <3>2 DEF Remembered
  <2>2. OkIsComplete
    BY <2>t DEF OkIsComplete, Underway, Complete
  <2> QED
    BY <2>1, <2>2
<1> QED
  BY <1>1, Hyp3InvAlways, PTL

\* No pair is paid for while jobs.json names a live job for it, whatever the
\* order in which batches, answers, deaths and runs come.
THEOREM NeverPaidTwiceHolds == Spec => NeverPaidTwice
<1>1. Hyp3Inv /\ [Next]_vars =>
        [\A j \in Jobs :
           Submitted(j) /\ jobs \notin {Absent, Corrupt} =>
              LET old == jobs[cloud'[j].pair].job IN old # 0 => ~Live(old)]_vars
  <2> SUFFICES ASSUME Hyp3Inv, [Next]_vars, NEW j \in Jobs,
                      Submitted(j), jobs \notin {Absent, Corrupt}
               PROVE  jobs[cloud'[j].pair].job # 0 => ~Live(jobs[cloud'[j].pair].job)
    OBVIOUS
  <2>t. Hyp3TypeOK /\ Numbered /\ StateTrue(mem) /\ Unusable
    BY DEF Hyp3Inv
  <2>1. Submit
    <3>1. j \notin Known /\ j \in Known'
      BY DEF Submitted, Known
    <3> QED
      BY <3>1, CloudStep
  <2>2. j \in Range1(sent')
    BY <2>1, <2>t, SubmitNumbers DEF Submitted, Known
  <2>3. PICK p \in Chunk : j = sent'[p]
    BY <2>1, <2>2, <2>t, SubmitNumbers DEF Range1
  <2>4. cloud'[j].pair = p /\ p \in todo /\ p \in Pairs
    <3>1. cloud'[j] = [pair |-> p, status |-> Active, expired |-> FALSE] /\ p \in todo
      BY <2>1, <2>3, <2>t, SubmitNumbers
    <3> QED
      BY <2>t, <3>1 DEF Hyp3TypeOK
  <2>5. ~Resumable(mem[p]) /\ jobs[p].job = mem[p].job
    BY <2>1, <2>4, <2>t DEF Unusable, Submitting, Submit, Saved
  <2>6. PairTrue(p, mem[p])
    BY <2>4, <2>t DEF StateTrue
  <2>7. mem[p].job # 0 => ~Live(mem[p].job)
    BY <2>5, <2>6 DEF Resumable, PairTrue, Live, Active
  <2> QED
    BY <2>4, <2>5, <2>7
<1> QED
  BY <1>1, Hyp3InvAlways, PTL DEF Spec, NeverPaidTwice

-----------------------------------------------------------------------------
(* TopsStack, for any dates, looks, caps and retries: the record of         *)
(* completed steps is true, what is recorded is left alone, and a failure   *)
(* stays in its step.                                                       *)
(*                                                                         *)
(* A step is recorded only after each job of its run file made its product  *)
(* (Working, StepWhole); the run files change only when nothing is recorded *)
(* (sentinel); no job of a recorded step runs again (stepsLeft and          *)
(* completed are disjoint); and the steps that a call runs have no gap      *)
(* (Ordered), so a filter job comes after a recorded merge.                 *)

\* A step's run file is there only if those of the steps before it are.
Prefix == \A s, t \in Steps : s <= t => files[t] \in {files[s], {}}

\* A step is finished: all its products are there.
Finished(s, d) ==
    \/ made[s][d] = gen
    \/ s = Burst /\ made[s][d] \in {None, Part} /\ made[Merge][d] # None

\* The jobs of the current step.
Working ==
    stepPhase = "jobs" =>
        /\ \A d \in Dates : job[d] # "none" => d \in files[Current]
        /\ \A d \in files[Current] :
             /\ job[d] = "none" => Stopped
             /\ job[d] \in {"good", "ok"} => Finished(Current, d)
        /\ FailureStops

StepWhole ==
    stepPhase \in {"clean", "record"} => \A d \in files[Current] : Finished(Current, d)

\* The steps that a call still has to run, against those that are recorded;
\* what is still to be deleted belongs to the merge.
Ordered ==
    /\ stepsLeft \cap completed = {}
    /\ stepPhase \in {"out", "done"} => stepsLeft = {}
    /\ stepPhase \in {"jobs", "clean", "record"} => stepsLeft # {}
    /\ pc = "coregjobs" => Filter \notin stepsLeft
    /\ pc = "igramjobs" =>
         \A s \in {Merge, Filter} : files[s] # {} => s \in stepsLeft \union completed
    /\ stepsLeft \subseteq Listed
    /\ doomed # {} => stepPhase = "clean" /\ Current = Merge
    /\ \A d \in doomed : made[Merge][d] \notin Virtual \union {None}

TopsInv ==
    /\ TopsTypeOK
    /\ Prefix
    /\ ~dir => \A s \in Steps : files[s] = {}
    /\ pc = "sentinel" => completed = {}
    /\ pc \notin Rest => req \in Requests
    /\ RecordIsTrue
    /\ Working /\ StepWhole /\ Ordered
\* A set of natural numbers has a least element: of the intervals from 0 to an
\* element, one has none of the others strictly inside.
LEMMA HasLeast ==
    ASSUME NEW S \in SUBSET Nat, S # {}
    PROVE  \E x \in S : \A y \in S : x <= y
<1> DEFINE Below == { 0 .. x : x \in S }
<1>1. Below \subseteq FiniteSubsetsOf(Nat)
  <2>1. ASSUME NEW x \in S PROVE 0 .. x \in SUBSET Nat /\ IsFiniteSet(0 .. x)
    <3>1. 0 \in Int /\ x \in Int
      OBVIOUS
    <3> QED
      BY <3>1, FS_Interval
  <2> QED
    BY <2>1 DEF FiniteSubsetsOf
<1>2. Below # {}
  OBVIOUS
<1>3. PICK U \in Below : \A V \in Below : ~(<<V, U>> \in StrictSubsetOrdering(Nat))
  <2> HIDE DEF Below
  <2> QED
    BY <1>1, <1>2, FS_StrictSubsetOrderingWellFounded, WFMin
<1>4. PICK x \in S : U = 0 .. x
  BY <1>3
<1>5. ASSUME NEW y \in S, y < x PROVE FALSE
  <2>1. 0 .. y \in Below /\ 0 .. y \in SUBSET Nat /\ U \in SUBSET Nat
    BY <1>4
  <2>2. 0 .. y \subseteq U /\ 0 .. y # U
    <3>1. x \in U /\ x \notin 0 .. y
      BY <1>4, <1>5
    <3> QED
      BY <3>1, <1>4, <1>5
  <2> QED
    BY <2>1, <2>2, <1>3 DEF StrictSubsetOrdering
<1> QED
  BY <1>5

LEMMA MinIsLeast ==
    ASSUME NEW S \in SUBSET Nat, S # {}
    PROVE  Min(S) \in S /\ \A y \in S : Min(S) <= y
<1>1. \E x \in S : \A y \in S : x <= y
  BY HasLeast
<1>2. Min(S) = CHOOSE x \in S : \A y \in S : x <= y
  BY DEF Min
<1> QED
  BY <1>1, <1>2

LEMMA CurrentIsFirst ==
    ASSUME TopsTypeOK, stepsLeft # {}
    PROVE  Current \in stepsLeft /\ Current \in Steps /\ \A s \in stepsLeft : Current <= s
<1>1. stepsLeft \in SUBSET Nat
  BY DEF TopsTypeOK, Steps, Coreg, Filter
<1> QED
  BY <1>1, MinIsLeast DEF Current, TopsTypeOK

LEMMA FirstPending ==
    ASSUME In("pending") # {}
    PROVE  Min(In("pending")) \in Dates /\ job[Min(In("pending"))] = "pending"
<1>1. In("pending") \in SUBSET Nat
  BY DatesAssumption DEF In
<1> QED
  BY <1>1, MinIsLeast DEF In

\* The steps that a stage's call runs are listed, and there is no gap between
\* merge and filter.
LEMMA WindowFacts ==
    ASSUME Prefix
    PROVE  /\ Window(Coreg, Coreg) \subseteq Steps /\ Window(Burst, Filter) \subseteq Steps
           /\ Window(Coreg, Coreg) \subseteq Listed /\ Window(Burst, Filter) \subseteq Listed
           /\ Filter \notin Window(Coreg, Coreg)
           /\ \A s \in {Merge, Filter} : files[s] # {} => s \in Window(Burst, Filter)
BY DEF Prefix, Window, Listed, Steps, Coreg, Burst, Merge, Filter

LEMMA TopsInitInv == TopsInit => TopsInv
<1> SUFFICES ASSUME TopsInit PROVE TopsInv
  OBVIOUS
<1>1. TopsTypeOK
  <2>1. 0 \in 0 .. Retries + 1 /\ 0 \in 0 .. MaxTopsRuns
    BY TopsBoundAssumption, PoolAssumption
  <2>2. tries \in [Dates -> 0 .. Retries + 1]
    BY <2>1 DEF TopsInit, InitRunFiles
  <2>3. made \in [Steps -> [Dates -> Product]]
    BY DEF TopsInit, InitRunFiles, Product
  <2> QED
    BY <2>1, <2>2, <2>3
    DEF TopsInit, InitRunFiles, TopsTypeOK, Phases, JobState, Stage, Rest
<1>2. RecordIsTrue
  BY DEF TopsInit, InitRunFiles, RecordIsTrue, CompletedTrue, OkIsListed
<1> QED
  BY <1>1, <1>2 DEF TopsInit, InitRunFiles, TopsInv, Prefix, Working, StepWhole, Ordered, Rest

\* What the cleanup lists has a merged interferogram that is no VRT, and it
\* lists nothing but after the merge.
LEMMA TargetsAre ==
    ASSUME NEW T \in CleanupTargets
    PROVE  /\ T \subseteq Dates
           /\ T # {} => Current = Merge
           /\ \A d \in T : made[Merge][d] \notin Virtual \union {None}
BY ProductAssumption, VirtualAssumption DEF CleanupTargets

\* What the cleanup deletes next.
LEMMA Removal ==
    ASSUME TopsTypeOK, RemoveTarget
    PROVE  \E d \in doomed \cap Dates :
             /\ \E p \in {None, Part, made[Burst][d]} \cap Product :
                  made' = [made EXCEPT ![Burst][d] = p]
             /\ doomed' = doomed \ {d}
<1> DEFINE d == Min(doomed)
<1>1. doomed # {} /\ doomed \in SUBSET Nat
  BY DatesAssumption DEF RemoveTarget, TopsTypeOK
<1>2. d \in doomed
  BY <1>1, MinIsLeast
<1>3. d \in Dates
  BY <1>2 DEF TopsTypeOK
<1>4. made[Burst][d] \in Product
  BY <1>3 DEF TopsTypeOK, Steps, Coreg, Burst, Filter
<1>5. \E p \in {None, Part, made[Burst][d]} : made' = [made EXCEPT ![Burst][d] = p]
  BY DEF RemoveTarget
<1>6. doomed' = doomed \ {d}
  BY DEF RemoveTarget
<1> HIDE DEF d
<1>7. {None, Part, made[Burst][d]} \subseteq Product
  BY <1>4 DEF Product
<1> QED
  BY <1>2, <1>3, <1>5, <1>6, <1>7

LEMMA PoolType ==
    ASSUME TopsTypeOK, Ordered, RunFilesStep, UNCHANGED <<dir, coregs, pc, req, topsRuns>>
    PROVE  TopsTypeOK'
<1> USE PoolAssumption DEF TopsTypeOK, Phases, JobState, Product
<1>1. CASE StepBegins
  BY <1>1 DEF StepBegins, rfdisk
<1>2. CASE StepsDone
  BY <1>2 DEF StepsDone, rfdisk
<1>3. CASE SubmitJob
  <2>1. Current \in Steps
    BY <1>3, CurrentIsFirst DEF SubmitJob, CanSubmit, Ordered
  <2>2. PICK d \in Dates, p \in Product :
            /\ job' = [job EXCEPT ![d] = "running"]
            /\ tries' = [tries EXCEPT ![d] = 1]
            /\ made' = [made EXCEPT ![Current][d] = p]
    <3>1. made[Current][Min(In("pending"))] \in Product
      BY <1>3, <2>1, FirstPending DEF SubmitJob, CanSubmit
    <3> QED
      BY <1>3, <3>1, FirstPending DEF SubmitJob, CanSubmit
  <2>3. made' \in [Steps -> [Dates -> Product]]
    BY <2>1, <2>2
  <2>4. 1 \in 0 .. Retries + 1
    OBVIOUS
  <2>5. tries' \in [Dates -> 0 .. Retries + 1]
    BY <2>2, <2>4
  <2> QED
    BY <1>3, <2>2, <2>3, <2>5 DEF SubmitJob, CanSubmit
<1>4. ASSUME NEW d \in Dates, JobSucceeds(d) PROVE TopsTypeOK'
  BY <1>4 DEF JobSucceeds
<1>5. ASSUME NEW d \in Dates, JobFails(d) PROVE TopsTypeOK'
  BY <1>5 DEF JobFails, rfdisk
<1>6. ASSUME NEW d \in Dates, JobRaises(d) PROVE TopsTypeOK'
  BY <1>6 DEF JobRaises, rfdisk
<1>7. CASE Collect
  BY <1>7 DEF Collect, Taken, rfdisk
<1>8. CASE StepFailed
  BY <1>8 DEF StepFailed, StepOver, rfdisk
<1>9. CASE StepSucceeded
  <2>1. doomed' \subseteq Dates
    BY <1>9, TargetsAre DEF StepSucceeded
  <2> QED
    BY <1>9, <2>1 DEF StepSucceeded, StepOver, rfdisk
<1>10. CASE RemoveTarget
  <2>1. PICK d \in Dates, p \in Product :
            made' = [made EXCEPT ![Burst][d] = p] /\ doomed' = doomed \ {d}
    BY <1>10, Removal
  <2>2. made' \in [Steps -> [Dates -> Product]]
    BY <2>1 DEF Steps, Coreg, Burst, Filter
  <2> QED
    BY <1>10, <2>1, <2>2 DEF RemoveTarget
<1>12. CASE CleanupDone
  BY <1>12 DEF CleanupDone, rfdisk
<1>11. CASE MarkCompleted
  <2>1. Current \in Steps
    BY <1>11, CurrentIsFirst DEF MarkCompleted, Ordered
  <2> QED
    BY <1>11, <2>1 DEF MarkCompleted
<1> QED
  BY <1>1, <1>2, <1>3, <1>4, <1>5, <1>6, <1>7, <1>8, <1>9, <1>10, <1>11, <1>12
  DEF RunFilesStep

LEMMA ProcessedDates ==
    ASSUME req \in Requests
    PROVE  Processed \subseteq Dates /\ req.dates \subseteq Dates /\ req.looks \in Looks
BY RequestsAssumption DEF Processed, Newest, NewDates, KnownDates

LEMMA TopsTypeStep == TopsInv /\ [TopsNext]_topsvars => TopsTypeOK'
<1> SUFFICES ASSUME TopsInv, [TopsNext]_topsvars PROVE TopsTypeOK'
  OBVIOUS
<1>t. TopsTypeOK /\ Ordered
  BY DEF TopsInv
<1>r. pc \notin Rest =>
          Processed \subseteq Dates /\ req.dates \subseteq Dates /\ req.looks \in Looks
  BY ProcessedDates DEF TopsInv
<1>w. Window(Coreg, Coreg) \subseteq Steps /\ Window(Burst, Filter) \subseteq Steps
  BY WindowFacts DEF TopsInv
<1> USE <1>t DEF TopsTypeOK, Stage, Rest, Phases
<1>1. CASE TopsBegin
  <2>1. topsRuns' \in 0 .. MaxTopsRuns
    BY <1>1, TopsBoundAssumption DEF TopsBegin
  <2> QED
    BY <1>1, <2>1 DEF TopsBegin, rfdisk, pool, stack
<1>2. CASE CoregServed
  BY <1>2 DEF CoregServed, rfdisk, pool, stack
<1>3. CASE Continue
  BY <1>3 DEF Continue, rfdisk, pool
<1>4. CASE Archive
  BY <1>4 DEF Archive, pool
<1>5. CASE ResetState
  BY <1>5 DEF ResetState, pool, stack
<1>6. CASE Sentinel
  BY <1>6, <1>r DEF Sentinel, pool
<1>7. CASE SentinelRefuses
  BY <1>7 DEF SentinelRefuses, Fails, rfdisk, pool, stack
<1>8. CASE SentinelDies
  BY <1>8, <1>r DEF SentinelDies, Fails, pool
<1>9. CASE CoregSteps
  BY <1>9, <1>w DEF CoregSteps, RunSteps, PendingSteps, rfdisk, stack
<1>10. CASE CoregOk
  BY <1>10, <1>r, PoolAssumption DEF CoregOk, Return, rfdisk, JobState
<1>11. CASE IgramSteps
  BY <1>11, <1>w DEF IgramSteps, RunSteps, PendingSteps, rfdisk, stack
<1>12. CASE NoRunFiles
  BY <1>12 DEF NoRunFiles, Fails, rfdisk, pool, stack
<1>13. CASE StepJobs
  BY <1>13, PoolType DEF StepJobs, stack
<1>14. CASE IgramOk
  BY <1>14, PoolAssumption DEF IgramOk, Return, rfdisk, stack, JobState
<1>15. CASE IgramMissing
  BY <1>15, PoolAssumption DEF IgramMissing, Fails, Return, rfdisk, stack, JobState
<1>16. CASE StepsFailed
  BY <1>16, PoolAssumption DEF StepsFailed, Fails, Return, rfdisk, stack, JobState
<1>17. CASE Crash
  BY <1>17, PoolAssumption DEF Crash, Fails, Return, stack, JobState
<1>18. ASSUME NEW s \in Steps, Reopen(s) PROVE TopsTypeOK'
  BY <1>18 DEF Reopen, pool, stack
<1>19. CASE UNCHANGED topsvars
  BY <1>19 DEF topsvars
<1> QED
  BY <1>1, <1>2, <1>3, <1>4, <1>5, <1>6, <1>7, <1>8, <1>9, <1>10, <1>11, <1>12, <1>13,
     <1>14, <1>15, <1>16, <1>17, <1>18, <1>19 DEF TopsNext, TopsStep

\* Jobs that have started and not succeeded.
Hot == { d \in Dates : job[d] \in {"running", "good", "bad", "failed"} }

\* Taking up a job keeps within the cap; what is taken from the pool fits it.
LEMMA HotStep ==
    ASSUME TopsTypeOK, stepsLeft # {},
           NEW d \in Dates, job' = [job EXCEPT ![d] = "running"],
           Cardinality(SubmittedJobs) < Cap[Current], ~Stopped
    PROVE  Cardinality(Hot') <= Cap[Current]
<1>1. Hot = SubmittedJobs
  BY DEF Hot, SubmittedJobs, In, Stopped
<1>2. Hot' = Hot \union {d}
  BY DEF Hot, TopsTypeOK
<1>3. IsFiniteSet(Hot)
  BY DatesAssumption, FS_Subset DEF Hot
<1>4. Cap[Current] \in Nat /\ Cardinality(Hot) \in Nat
  BY CurrentIsFirst, PoolAssumption, <1>3, FS_CardinalityType
<1>5. Cardinality(Hot') <= Cardinality(Hot) + 1
  <2>1. Cardinality(Hot \union {d}) =
            IF d \in Hot THEN Cardinality(Hot) ELSE Cardinality(Hot) + 1
    BY <1>3, FS_AddElement
  <2> QED
    BY <2>1, <1>2, <1>4
<1>6. Cardinality(Hot') \in Nat
  BY <1>2, <1>3, FS_AddElement, FS_CardinalityType
<1> QED
  BY <1>1, <1>4, <1>5, <1>6

LEMMA HotShrinks ==
    ASSUME NEW H, H \subseteq Hot, Cardinality(Hot) <= Cap[Current],
           TopsTypeOK, stepsLeft # {}
    PROVE  Cardinality(H) <= Cap[Current]
<1>1. IsFiniteSet(Hot)
  BY DatesAssumption, FS_Subset DEF Hot
<1>2. Cap[Current] \in Nat
  BY CurrentIsFirst, PoolAssumption
<1>3. Cardinality(H) <= Cardinality(Hot) /\ Cardinality(H) \in Nat /\ Cardinality(Hot) \in Nat
  BY <1>1, FS_Subset, FS_CardinalityType
<1> QED
  BY <1>2, <1>3

LEMMA PoolGood ==
    ASSUME TopsInv, RunFilesStep, UNCHANGED <<dir, coregs, pc, req, topsRuns>>
    PROVE  CompletedTrue' /\ Working' /\ StepWhole' /\ Ordered'
<1> USE DEF TopsInv, RecordIsTrue
<1>c. stepsLeft # {} => /\ Current \in stepsLeft /\ Current \in Steps
                        /\ \A s \in stepsLeft : Current <= s
  BY CurrentIsFirst
<1>m. stepsLeft' = stepsLeft => Current' = Current
  BY DEF Current
<1>l. files' = files => Listed' = Listed
  BY DEF Listed
<1>d. stepPhase # "clean" => doomed = {}
  BY DEF Ordered
<1> USE <1>l, <1>d
<1>1. CASE StepBegins
  <2>0. stepsLeft # {} /\ UNCHANGED <<files, gen, completed, made, stepsLeft, doomed>>
        /\ stepPhase # "clean"
    BY <1>1 DEF StepBegins, rfdisk
  <2>1. Hot' = {}
    BY <1>1 DEF StepBegins, Hot
  <2>2. FailureStops'
    <3>1. Cap[Current] \in Nat
      BY <2>0, <1>c, PoolAssumption
    <3> QED
      BY <2>0, <2>1, <3>1, <1>m, FS_EmptySet DEF FailureStops, Hot
  <2>3. CompletedTrue' /\ Ordered' /\ StepWhole'
    BY <1>1, <2>0 DEF StepBegins, CompletedTrue, Ordered, StepWhole
  <2>4. Working'
    <3>1. \A d \in Dates : job'[d] = IF d \in files[Current] THEN "pending" ELSE "none"
      BY <1>1 DEF StepBegins
    <3>2. files[Current] \subseteq Dates
      BY <2>0, <1>c DEF TopsTypeOK
    <3> QED
      BY <2>0, <2>2, <3>1, <3>2, <1>m DEF Working
  <2> QED
    BY <2>3, <2>4
<1>2. CASE StepsDone
  BY <1>2 DEF StepsDone, rfdisk, CompletedTrue, Ordered, StepWhole, Working
<1>3. CASE SubmitJob
  <2>0. stepsLeft # {} /\ UNCHANGED <<files, gen, completed, stepsLeft, doomed>> /\ stepPhase' = "jobs"
        /\ Current \notin completed /\ stepPhase = "jobs" /\ ~Stopped
    BY <1>3, <1>c DEF SubmitJob, CanSubmit, Ordered
  <2>1. PICK d \in Dates :
            /\ job[d] = "pending"
            /\ job' = [job EXCEPT ![d] = "running"]
            /\ \E p \in {Part, made[Current][d]} : made' = [made EXCEPT ![Current][d] = p]
    BY <1>3, FirstPending DEF SubmitJob, CanSubmit
  <2>2. \A s \in Steps, e \in Dates : <<s, e>> # <<Current, d>> => made'[s][e] = made[s][e]
    BY <2>1, <2>0, <1>c DEF TopsTypeOK
  <2>3. made'[Current][d] \in {Part, made[Current][d]}
    BY <2>1, <2>0, <1>c DEF TopsTypeOK
  <2>4. CompletedTrue'
    BY <2>0, <2>2, <2>3, <1>c, ProductAssumption
       DEF CompletedTrue, TopsTypeOK, Steps, Coreg, Burst, Merge, Filter
  <2>5. FailureStops'
    BY <2>0, <2>1, <1>m, <1>3, HotStep DEF SubmitJob, CanSubmit, FailureStops, Hot
  <2>6. Working'
    <3>1. ASSUME NEW e \in files[Current] PROVE job'[e] \in {"good", "ok"} => Finished(Current, e)'
      <4>1. e \in Dates
        BY <2>0, <1>c DEF TopsTypeOK
      <4>2. job'[e] \in {"good", "ok"} => e # d /\ job'[e] = job[e]
        BY <2>1, <4>1 DEF TopsTypeOK
      <4>3. e # d => made'[Current][e] = made[Current][e] /\ made'[Merge][e] = made[Merge][e]
        BY <2>2, <4>1, <2>0, <1>c DEF Steps, Coreg, Merge, Filter
      <4> QED
        BY <2>0, <4>2, <4>3, <1>m DEF Working, Finished
    <3>2. ASSUME NEW e \in Dates PROVE job'[e] # "none" => e \in files[Current]
      BY <2>0, <2>1 DEF Working, TopsTypeOK
    <3>3. ASSUME NEW e \in files[Current] PROVE job'[e] # "none"
      BY <2>0, <2>1, <1>c DEF Working, TopsTypeOK
    <3> QED
      BY <2>0, <2>5, <3>1, <3>2, <3>3, <1>m DEF Working
  <2>7. StepWhole' /\ Ordered'
    BY <2>0 DEF StepWhole, Ordered
  <2> QED
    BY <2>4, <2>6, <2>7
<1>4. ASSUME NEW d \in Dates, JobSucceeds(d)
      PROVE  CompletedTrue' /\ Working' /\ StepWhole' /\ Ordered'
  <2>0. stepsLeft # {} /\ UNCHANGED <<files, gen, completed, stepsLeft, doomed>> /\ stepPhase' = "jobs"
        /\ Current \notin completed /\ stepPhase = "jobs" /\ gen \in Looks
    BY <1>4, <1>c DEF JobSucceeds, Ordered, TopsTypeOK
  <2>2. \A s \in Steps, e \in Dates :
            made'[s][e] = IF <<s, e>> = <<Current, d>> THEN gen ELSE made[s][e]
    BY <1>4, <2>0, <1>c DEF JobSucceeds, TopsTypeOK
  <2>4. CompletedTrue'
    BY <2>0, <2>2, <1>c, ProductAssumption
       DEF CompletedTrue, TopsTypeOK, Steps, Coreg, Burst, Merge, Filter
  <2>5. Hot' \subseteq Hot /\ Stopped' = Stopped
    BY <1>4 DEF JobSucceeds, Hot, TopsTypeOK, Stopped, In
  <2>6. Working'
    <3>1. ASSUME NEW e \in files[Current] PROVE job'[e] \in {"good", "ok"} => Finished(Current, e)'
      <4>1. e \in Dates
        BY <2>0, <1>c DEF TopsTypeOK
      <4>2. e = d => made'[Current][e] = gen
        BY <2>2, <2>0, <1>c
      <4>3. e # d => /\ job'[e] = job[e]
                     /\ made'[Current][e] = made[Current][e] /\ made'[Merge][e] = made[Merge][e]
        BY <1>4, <2>2, <4>1, <2>0, <1>c DEF JobSucceeds, TopsTypeOK, Steps, Coreg, Merge, Filter
      <4> QED
        BY <2>0, <4>2, <4>3, <1>m DEF Working, Finished
    <3>2. ASSUME NEW e \in Dates PROVE job'[e] # "none" => e \in files[Current]
      BY <1>4, <2>0 DEF JobSucceeds, Working, TopsTypeOK
    <3>3. ASSUME NEW e \in files[Current] PROVE job'[e] = "none" => Stopped'
      BY <1>4, <2>0, <2>5, <1>c DEF JobSucceeds, Working, TopsTypeOK
    <3>4. FailureStops'
      BY <2>0, <2>5, <1>m, HotShrinks DEF FailureStops, Hot, Working
    <3> QED
      BY <2>0, <3>1, <3>2, <3>3, <3>4, <1>m DEF Working
  <2>7. StepWhole' /\ Ordered'
    BY <2>0 DEF StepWhole, Ordered
  <2> QED
    BY <2>4, <2>6, <2>7
<1>5. ASSUME NEW d \in Dates, JobFails(d) \/ JobRaises(d)
      PROVE  CompletedTrue' /\ Working' /\ StepWhole' /\ Ordered'
  <2>0. stepsLeft # {} /\ UNCHANGED <<files, gen, completed, made, stepsLeft, stepPhase, doomed>>
        /\ stepPhase = "jobs"
    BY <1>5 DEF JobFails, JobRaises, Ordered, rfdisk
  <2>1. job' = job \/ (job[d] = "running" /\ job' = [job EXCEPT ![d] = "bad"])
    BY <1>5 DEF JobFails, JobRaises
  <2>2. Hot' \subseteq Hot /\ Stopped' = Stopped
    BY <2>1 DEF Hot, TopsTypeOK, Stopped, In
  <2>3. FailureStops'
    BY <2>0, <2>2, <1>m, HotShrinks DEF FailureStops, Hot, Working
  <2>4. \A e \in Dates : job'[e] = job[e] \/ (job[e] = "running" /\ job'[e] = "bad")
    BY <2>1 DEF TopsTypeOK
  <2>5. \A e \in files[Current] : e \in Dates /\ Finished(Current, e)' = Finished(Current, e)
    BY <2>0, <1>c, <1>m DEF Finished, TopsTypeOK
  <2>6. Working'
    BY <2>0, <2>2, <2>3, <2>4, <2>5, <1>m DEF Working
  <2>7. CompletedTrue' /\ StepWhole' /\ Ordered'
    BY <2>0 DEF CompletedTrue, StepWhole, Ordered
  <2> QED
    BY <2>6, <2>7
<1>6. CASE Collect
  <2>0. stepsLeft # {} /\ UNCHANGED <<files, gen, completed, made, stepsLeft, stepPhase, doomed>>
        /\ stepPhase = "jobs"
    BY <1>6 DEF Collect, Ordered, rfdisk
  <2>1. \A e \in Dates : job'[e] = Taken(job[e])
    BY <1>6 DEF Collect
  <2>2. Hot' \subseteq Hot
    BY <2>1 DEF Hot, TopsTypeOK, Taken
  <2>3. FailureStops'
    BY <2>0, <2>2, <1>m, HotShrinks DEF FailureStops, Hot, Working
  <2>4. In("bad") # {} => Stopped'
    BY <2>1 DEF Stopped, In, Taken
  <2>5. Stopped => Stopped'
    BY <2>1 DEF Stopped, In, Taken
  <2>6. \A e \in files[Current] : e \in Dates /\ Finished(Current, e)' = Finished(Current, e)
    BY <2>0, <1>c, <1>m DEF Finished, TopsTypeOK
  <2>7. \A e \in Dates : /\ job'[e] \in {"good", "ok"} => job[e] \in {"good", "ok"}
                         /\ job'[e] # "none" => job[e] # "none"
                         /\ job'[e] = "none" => job[e] = "none" \/ In("bad") # {}
    BY <2>1 DEF Taken
  <2>8. Working'
    BY <2>0, <2>3, <2>4, <2>5, <2>6, <2>7, <1>m DEF Working
  <2>9. CompletedTrue' /\ StepWhole' /\ Ordered'
    BY <2>0 DEF CompletedTrue, StepWhole, Ordered
  <2> QED
    BY <2>8, <2>9
<1>7. CASE StepFailed
  BY <1>7 DEF StepFailed, StepOver, rfdisk, CompletedTrue, Working, StepWhole, Ordered
<1>8. CASE StepSucceeded
  <2>0. stepsLeft # {} /\ UNCHANGED <<files, gen, completed, made, stepsLeft>>
        /\ stepPhase = "jobs" /\ stepPhase' = "clean" /\ ~Stopped
        /\ SubmittedJobs = {} /\ ~CanSubmit
    BY <1>8 DEF StepSucceeded, StepOver, Ordered, rfdisk
  <2>1. In("pending") = {}
    <3>1. Cap[Current] \in Nat \ {0}
      BY <2>0, <1>c, PoolAssumption
    <3>2. Cardinality(SubmittedJobs) = 0
      BY <2>0, FS_EmptySet
    <3> QED
      BY <2>0, <3>1, <3>2 DEF CanSubmit
  <2>2. ASSUME NEW e \in files[Current] PROVE Finished(Current, e)
    <3>1. e \in Dates
      BY <2>0, <1>c DEF TopsTypeOK
    <3>2. job[e] \notin {"pending", "running", "good", "bad", "failed"}
      BY <2>0, <2>1, <3>1 DEF SubmittedJobs, In, Stopped
    <3>3. job[e] \in JobState
      BY <3>1 DEF TopsTypeOK
    <3> QED
      BY <2>0, <3>2, <3>3 DEF Working, JobState
  <2>3. StepWhole'
    BY <2>0, <2>2, <1>m DEF StepWhole, Finished
  <2>4. /\ doomed' # {} => Current = Merge
        /\ \A d \in doomed' : made[Merge][d] \notin Virtual \union {None}
    BY <1>8, TargetsAre DEF StepSucceeded
  <2>5. Ordered'
    BY <2>0, <2>4, <1>m DEF Ordered
  <2> QED
    BY <2>0, <2>3, <2>5 DEF CompletedTrue, Working
<1>9. CASE RemoveTarget
  <2>0. stepsLeft # {} /\ UNCHANGED <<files, gen, completed, stepsLeft, stepPhase>>
        /\ stepPhase = "clean" /\ Current = Merge
    BY <1>9 DEF RemoveTarget, Ordered
  <2>1. PICK d \in doomed \cap Dates :
            /\ \E p \in {None, Part, made[Burst][d]} : made' = [made EXCEPT ![Burst][d] = p]
            /\ doomed' = doomed \ {d}
    BY <1>9, Removal
  <2>2. \A s \in Steps, e \in Dates :
            \/ made'[s][e] = made[s][e]
            \/ s = Burst /\ made'[s][e] \in {None, Part} /\ made[Merge][e] # None
    BY <2>1 DEF TopsTypeOK, Ordered, Steps, Coreg, Burst, Filter
  <2>3. \A e \in Dates : made'[Merge][e] = made[Merge][e]
    BY <2>2 DEF Steps, Coreg, Burst, Merge, Filter
  <2>4. \A s \in Steps, e \in Dates : Finished(s, e) => Finished(s, e)'
    BY <2>0, <2>2, <2>3 DEF Finished
  <2>5. CompletedTrue'
    BY <2>0, <2>4 DEF CompletedTrue, Finished, TopsTypeOK
  <2>6. StepWhole'
    BY <2>0, <2>4, <1>c, <1>m DEF StepWhole, TopsTypeOK
  <2>7. \A e \in doomed' : made'[Merge][e] \notin Virtual \union {None}
    BY <2>1, <2>3 DEF Ordered, TopsTypeOK
  <2>8. Ordered'
    BY <2>0, <2>7, <1>m DEF Ordered
  <2> QED
    BY <2>0, <2>5, <2>6, <2>8 DEF Working
<1>11. CASE CleanupDone
  <2>0. stepsLeft # {} /\ UNCHANGED <<files, gen, completed, made, stepsLeft>>
        /\ stepPhase = "clean" /\ stepPhase' = "record" /\ doomed' = {}
    BY <1>11 DEF CleanupDone, Ordered, rfdisk
  <2>1. StepWhole'
    BY <2>0, <1>m DEF StepWhole, Finished
  <2> QED
    BY <2>0, <2>1 DEF CompletedTrue, Working, Ordered
<1>10. CASE MarkCompleted
  <2>0. stepsLeft # {} /\ UNCHANGED <<files, gen, made>> /\ stepPhase = "record"
        /\ stepPhase' = "next" /\ completed' = completed \union {Current}
        /\ stepsLeft' = stepsLeft \ {Current} /\ doomed' = {}
    BY <1>10 DEF MarkCompleted, Ordered
  <2>1. CompletedTrue'
    BY <2>0 DEF CompletedTrue, StepWhole, Finished
  <2>2. Ordered'
    BY <2>0 DEF Ordered, TopsTypeOK
  <2> QED
    BY <2>0, <2>1, <2>2 DEF Working, StepWhole
<1> QED
  BY <1>1, <1>2, <1>3, <1>4, <1>5, <1>6, <1>7, <1>8, <1>9, <1>10, <1>11 DEF RunFilesStep

LEMMA PoolStep == TopsInv /\ StepJobs => TopsInv'
<1> SUFFICES ASSUME TopsInv, StepJobs PROVE TopsInv'
  OBVIOUS
<1>1. RunFilesStep /\ UNCHANGED <<dir, coregs, pc, req, topsRuns>>
  BY DEF StepJobs, stack
<1>2. UNCHANGED <<files, gen>> /\ pc \in {"coregjobs", "igramjobs"}
  BY <1>1 DEF RunFilesStep, StepBegins, StepsDone, SubmitJob, CanSubmit, JobSucceeds, JobFails,
     JobRaises, Collect, StepFailed, StepSucceeded, StepOver, RemoveTarget,
     CleanupDone, MarkCompleted, rfdisk,
     TopsInv, TopsTypeOK
<1>3. CompletedTrue' /\ Working' /\ StepWhole' /\ Ordered'
  BY <1>1, PoolGood
<1>4. TopsTypeOK'
  BY <1>1, PoolType DEF TopsInv
<1> QED
  BY <1>1, <1>2, <1>3, <1>4 DEF TopsInv, Prefix, RecordIsTrue, OkIsListed, Rest

\* The other actions leave no call of run_steps under way, or begin one.
LEMMA OutStep ==
    ASSUME TopsInv, stepPhase' = "out", stepsLeft' = {}, doomed' = {},
           pc' \notin {"coregjobs", "igramjobs"}
    PROVE  Working' /\ StepWhole' /\ Ordered'
BY DEF Working, StepWhole, Ordered

LEMMA TopsGoodStep == TopsInv /\ TopsTypeOK' /\ [TopsNext]_topsvars => TopsInv'
<1> SUFFICES ASSUME TopsInv, TopsTypeOK', [TopsNext]_topsvars PROVE TopsInv'
  OBVIOUS
<1>t. TopsTypeOK /\ Ordered /\ Prefix /\ CompletedTrue /\ OkIsListed
  BY DEF TopsInv, RecordIsTrue
<1>o. stepPhase = "out" => stepsLeft = {} /\ doomed = {}
  BY <1>t DEF Ordered
<1>p. pc \notin {"coregjobs", "igramjobs"} => stepPhase = "out" /\ stepsLeft = {} /\ doomed = {}
  BY <1>t, <1>o DEF TopsTypeOK
<1> USE DEF Rest
<1>1. CASE TopsBegin
  <2>1. Working' /\ StepWhole' /\ Ordered'
    BY <1>1, <1>p, OutStep DEF TopsBegin, pool
  <2> QED
    BY <1>1, <2>1, <1>t DEF TopsBegin, rfdisk, stack, TopsInv, Prefix, RecordIsTrue,
       CompletedTrue, OkIsListed
<1>2. CASE CoregServed
  <2>1. Working' /\ StepWhole' /\ Ordered'
    BY <1>2, <1>p, OutStep DEF CoregServed, pool
  <2> QED
    BY <1>2, <2>1, <1>t DEF CoregServed, rfdisk, stack, TopsInv, Prefix, RecordIsTrue,
       CompletedTrue, OkIsListed
<1>3. CASE Continue
  <2>1. Working' /\ StepWhole' /\ Ordered'
    BY <1>3, <1>p, OutStep DEF Continue, pool
  <2> QED
    BY <1>3, <2>1, <1>t DEF Continue, rfdisk, TopsInv, Prefix, RecordIsTrue,
       CompletedTrue, OkIsListed
<1>4. CASE Archive
  <2>1. Working' /\ StepWhole' /\ Ordered'
    BY <1>4, <1>p, OutStep DEF Archive, pool
  <2>2. CompletedTrue'
    BY <1>4, <1>t DEF Archive, CompletedTrue, TopsTypeOK
  <2> QED
    BY <1>4, <2>1, <2>2, <1>t DEF Archive, TopsInv, Prefix, RecordIsTrue, OkIsListed
<1>5. CASE ResetState
  <2>1. Working' /\ StepWhole' /\ Ordered'
    BY <1>5, <1>p, OutStep DEF ResetState, pool
  <2>2. CompletedTrue'
    BY <1>5 DEF ResetState, CompletedTrue
  <2> QED
    BY <1>5, <2>1, <2>2, <1>t DEF ResetState, stack, TopsInv, Prefix, RecordIsTrue, OkIsListed
<1>6. CASE Sentinel
  <2>1. Working' /\ StepWhole' /\ Ordered'
    BY <1>6, <1>p, OutStep DEF Sentinel, pool
  <2>2. CompletedTrue'
    BY <1>6 DEF Sentinel, CompletedTrue, TopsInv
  <2>3. Prefix'
    BY <1>6 DEF Sentinel, Prefix
  <2> QED
    BY <1>6, <2>1, <2>2, <2>3, <1>t DEF Sentinel, TopsInv, RecordIsTrue, OkIsListed
<1>7. CASE SentinelRefuses
  <2>1. Working' /\ StepWhole' /\ Ordered'
    BY <1>7, <1>p, OutStep DEF SentinelRefuses, Fails, pool
  <2> QED
    BY <1>7, <2>1, <1>t DEF SentinelRefuses, Fails, rfdisk, stack, TopsInv, Prefix,
       RecordIsTrue, CompletedTrue, OkIsListed
<1>8. CASE SentinelDies
  <2>1. Working' /\ StepWhole' /\ Ordered'
    BY <1>8, <1>p, OutStep DEF SentinelDies, Fails, pool
  <2>2. CompletedTrue'
    BY <1>8 DEF SentinelDies, CompletedTrue, TopsInv
  <2>3. Prefix'
    BY <1>8 DEF SentinelDies, Prefix, Steps, Coreg, Filter
  <2> QED
    BY <1>8, <2>1, <2>2, <2>3, <1>t DEF SentinelDies, Fails, TopsInv, RecordIsTrue, OkIsListed
<1>9. CASE CoregSteps
  <2>1. Ordered'
    BY <1>9, <1>t, <1>p, WindowFacts
    DEF CoregSteps, RunSteps, PendingSteps, rfdisk, Ordered, Listed
  <2> QED
    BY <1>9, <2>1, <1>t DEF CoregSteps, RunSteps, rfdisk, stack, TopsInv, Prefix, RecordIsTrue,
       CompletedTrue, OkIsListed, Working, StepWhole
<1>10. CASE CoregOk
  <2>1. Working' /\ StepWhole' /\ Ordered'
    BY <1>10, OutStep DEF CoregOk, Return
  <2> QED
    BY <1>10, <2>1, <1>t DEF CoregOk, rfdisk, TopsInv, Prefix, RecordIsTrue,
       CompletedTrue, OkIsListed
<1>11. CASE IgramSteps
  <2>1. Ordered'
    BY <1>11, <1>t, <1>p, WindowFacts
    DEF IgramSteps, RunSteps, PendingSteps, rfdisk, Ordered, Listed
  <2> QED
    BY <1>11, <2>1, <1>t DEF IgramSteps, RunSteps, rfdisk, stack, TopsInv, Prefix, RecordIsTrue,
       CompletedTrue, OkIsListed, Working, StepWhole
<1>12. CASE NoRunFiles
  <2>1. Working' /\ StepWhole' /\ Ordered'
    BY <1>12, <1>p, OutStep DEF NoRunFiles, Fails, pool
  <2> QED
    BY <1>12, <2>1, <1>t DEF NoRunFiles, Fails, rfdisk, stack, TopsInv, Prefix, RecordIsTrue,
       CompletedTrue, OkIsListed
<1>13. CASE StepJobs
  BY <1>13, PoolStep
<1>14. CASE IgramOk
  <2>1. Working' /\ StepWhole' /\ Ordered'
    BY <1>14, OutStep DEF IgramOk, Return
  <2>2. \A s \in {Merge, Filter} : \A d \in files[s] : s \in completed
    BY <1>14, <1>t DEF IgramOk, Ordered
  <2>3. OkIsListed'
    BY <1>14, <2>2, <1>t DEF IgramOk, rfdisk, OkIsListed, CompletedTrue, Merge, Filter, Burst
  <2> QED
    BY <1>14, <2>1, <2>3, <1>t DEF IgramOk, rfdisk, stack, TopsInv, Prefix, RecordIsTrue,
       CompletedTrue
<1>15. CASE IgramMissing
  <2>1. Working' /\ StepWhole' /\ Ordered'
    BY <1>15, OutStep DEF IgramMissing, Fails, Return
  <2> QED
    BY <1>15, <2>1, <1>t DEF IgramMissing, Fails, rfdisk, stack, TopsInv, Prefix, RecordIsTrue,
       CompletedTrue, OkIsListed
<1>16. CASE StepsFailed
  <2>1. Working' /\ StepWhole' /\ Ordered'
    BY <1>16, OutStep DEF StepsFailed, Fails, Return
  <2> QED
    BY <1>16, <2>1, <1>t DEF StepsFailed, Fails, rfdisk, stack, TopsInv, Prefix, RecordIsTrue,
       CompletedTrue, OkIsListed
<1>17. CASE Crash
  <2>1. Working' /\ StepWhole' /\ Ordered'
    BY <1>17, OutStep DEF Crash, Fails, Return
  <2>2. CompletedTrue'
    BY <1>17, <1>t DEF Crash, CompletedTrue
  <2> QED
    BY <1>17, <2>1, <2>2, <1>t DEF Crash, Fails, stack, TopsInv, Prefix, RecordIsTrue, OkIsListed
<1>18. ASSUME NEW s \in Steps, Reopen(s) PROVE TopsInv'
  <2>1. Working' /\ StepWhole' /\ Ordered'
    BY <1>18, <1>p, OutStep DEF Reopen, pool
  <2>2. CompletedTrue'
    BY <1>18, <1>t DEF Reopen, CompletedTrue
  <2> QED
    BY <1>18, <2>1, <2>2, <1>t DEF Reopen, stack, TopsInv, Prefix, RecordIsTrue, OkIsListed
<1>19. CASE UNCHANGED topsvars
  BY <1>19 DEF topsvars, TopsInv, Prefix, RecordIsTrue, CompletedTrue, OkIsListed, Working,
     StepWhole, Ordered, Listed, FailureStops, Finished, Current, Stopped, In
<1> QED
  BY <1>1, <1>2, <1>3, <1>4, <1>5, <1>6, <1>7, <1>8, <1>9, <1>10, <1>11, <1>12, <1>13,
     <1>14, <1>15, <1>16, <1>17, <1>18, <1>19 DEF TopsNext, TopsStep

LEMMA TopsInvariant == TopsSpec => []TopsInv
<1>1. TopsInit => TopsInv
  BY TopsInitInv
<1>2. TopsInv /\ [TopsNext]_topsvars => TopsInv'
  BY TopsTypeStep, TopsGoodStep
<1> QED
  BY <1>1, <1>2, PTL DEF TopsSpec

\* The variables of the engine, the work directory and the pool stay in their
\* ranges: no job is tried more often than `retries` allows, and jobs run only
\* while a stage waits for run_steps.
THEOREM TopsTypes == TopsSpec => []TopsTypeOK
<1>1. TopsInv => TopsTypeOK
  BY DEF TopsInv
<1> QED
  BY <1>1, TopsInvariant, PTL

\* mark_completed and runfiles_state.json: whatever is killed, added or
\* regenerated, a recorded step has every product of its run file, and a run
\* that ends with interferograms has each one that was asked for.
THEOREM RecordIsTrueHolds == TopsSpec => []RecordIsTrue
<1>1. TopsInv => RecordIsTrue
  BY DEF TopsInv
<1> QED
  BY <1>1, TopsInvariant, PTL

\* _run_jobs: a step that fails has at most its cap of jobs that started and
\* did not succeed, and a filter job always finds its merged interferogram whole.
THEOREM FailureIsContainedHolds == TopsSpec => []FailureIsContained
<1>1. TopsInv => FailureIsContained
  <2> SUFFICES ASSUME TopsInv, stepPhase = "jobs" PROVE FailureStops /\ FilterReadsMerged
    BY DEF FailureIsContained, FailureStops, FilterReadsMerged
  <2>1. FailureStops
    BY DEF TopsInv, Working
  <2>2. ASSUME Current = Filter, NEW d \in SubmittedJobs PROVE made[Merge][d] \in Looks
    <3>1. stepsLeft # {} /\ TopsTypeOK /\ pc \in {"coregjobs", "igramjobs"}
      BY DEF TopsInv, Ordered, TopsTypeOK
    <3>2. Filter \in stepsLeft /\ Merge \notin stepsLeft
      BY <2>2, <3>1, CurrentIsFirst DEF Merge, Filter
    <3>3. d \in Dates /\ d \in files[Filter]
      BY <2>2 DEF TopsInv, Working, SubmittedJobs, In
    <3>4. files[Filter] = files[Merge]
      BY <3>3 DEF TopsInv, Prefix, Steps, Coreg, Merge, Filter
    <3>5. Merge \in completed
      BY <3>1, <3>2, <3>3, <3>4 DEF TopsInv, Ordered
    <3> QED
      BY <3>1, <3>3, <3>4, <3>5
      DEF TopsInv, RecordIsTrue, CompletedTrue, TopsTypeOK, Merge, Burst
  <2> QED
    BY <2>1, <2>2 DEF FilterReadsMerged
<1> QED
  BY <1>1, TopsInvariant, PTL

\* Products change in a job of the current step and in the cleanup.
LEMMA MadeByJobs ==
    ASSUME TopsInv, [TopsNext]_topsvars
    PROVE  \/ made' = made
           \/ /\ stepPhase = "jobs"
              /\ \E d \in Dates, p \in Product : made' = [made EXCEPT ![Current][d] = p]
           \/ /\ stepPhase = "clean" /\ stepsLeft # {} /\ Current = Merge
              /\ \A s \in Steps, d \in Dates :
                   \/ made'[s][d] = made[s][d]
                   \/ /\ s = Burst /\ made'[s][d] \in {None, Part}
                      /\ made[Merge][d] \notin Virtual
<1>1. CASE SubmitJob
  <2>1. Current \in Steps
    BY <1>1, CurrentIsFirst DEF SubmitJob, CanSubmit, TopsInv, Ordered
  <2>2. made[Current][Min(In("pending"))] \in Product
    BY <1>1, <2>1, FirstPending DEF SubmitJob, CanSubmit, TopsInv, TopsTypeOK
  <2> QED
    BY <1>1, <2>2, FirstPending DEF SubmitJob, CanSubmit, Product
<1>2. ASSUME NEW d \in Dates, JobSucceeds(d)
      PROVE  stepPhase = "jobs" /\ \E p \in Product : made' = [made EXCEPT ![Current][d] = p]
  BY <1>2 DEF JobSucceeds, Product, TopsInv, TopsTypeOK
<1>3. CASE RemoveTarget
  <2>1. stepPhase = "clean" /\ stepsLeft # {} /\ Current = Merge
    BY <1>3 DEF RemoveTarget, TopsInv, Ordered
  <2>2. PICK d \in doomed \cap Dates : \E p \in {None, Part, made[Burst][d]} :
            made' = [made EXCEPT ![Burst][d] = p]
    BY <1>3, Removal DEF TopsInv
  <2>3. made[Merge][d] \notin Virtual
    BY <2>2 DEF TopsInv, Ordered
  <2>4. \A s \in Steps, e \in Dates :
            \/ made'[s][e] = made[s][e]
            \/ s = Burst /\ e = d /\ made'[s][e] \in {None, Part}
    BY <2>2 DEF TopsInv, TopsTypeOK, Steps, Coreg, Burst, Filter
  <2> QED
    BY <2>1, <2>3, <2>4
<1>4. CASE RunFilesStep
  BY <1>1, <1>2, <1>3, <1>4 DEF RunFilesStep, StepBegins, StepsDone, JobFails, JobRaises,
     Collect, StepFailed, StepSucceeded, CleanupDone, MarkCompleted, rfdisk
<1> QED
  BY <1>4 DEF TopsNext, TopsStep, TopsBegin, CoregServed, Continue, Archive, ResetState,
     Sentinel, SentinelRefuses, SentinelDies, CoregSteps, CoregOk, IgramSteps, NoRunFiles,
     StepJobs, IgramOk, IgramMissing, StepsFailed, Crash, Reopen, RunSteps, rfdisk, topsvars

\* pending_steps, cleanup_targets: what runfiles_state.json records is not done
\* again; of its products nothing is touched but burst interferograms, by the
\* cleanup, while the merged one is whole and no VRT over them.
THEOREM CompletedIsKeptHolds == TopsSpec => CompletedIsKept
<1> DEFINE Kept1(s, d) == made'[s][d] # made[s][d] =>
                             /\ s = Burst /\ made'[s][d] \in {None, Part}
                             /\ made[Merge][d] = gen /\ gen \notin Virtual
<1>1. TopsInv /\ [TopsNext]_topsvars =>
        \A s \in completed \cap completed' : \A d \in files[s] \cap files'[s] : Kept1(s, d)
  <2> SUFFICES ASSUME TopsInv, [TopsNext]_topsvars,
                      NEW s \in completed, NEW d \in files[s]
               PROVE  Kept1(s, d)
    OBVIOUS
  <2>1. s \in Steps /\ d \in Dates
    BY DEF TopsInv, TopsTypeOK
  <2>2. ASSUME stepPhase = "jobs", NEW e \in Dates, NEW p \in Product,
               made' = [made EXCEPT ![Current][e] = p]
        PROVE  made'[s][d] = made[s][d]
    <3>1. Current \in Steps /\ Current # s
      BY <2>2, CurrentIsFirst DEF TopsInv, Ordered
    <3> QED
      BY <2>1, <2>2, <3>1 DEF TopsInv, TopsTypeOK
  <2>3. ASSUME stepPhase = "clean", stepsLeft # {}, Current = Merge, s = Burst
        PROVE  made[Merge][d] = gen
    <3>1. Merge \in stepsLeft
      BY <2>3, CurrentIsFirst DEF TopsInv
    <3>2. files[Merge] = files[Burst]
      BY <3>1 DEF TopsInv, Ordered, Listed, Prefix, Steps, Coreg, Burst, Merge, Filter
    <3>3. Finished(Merge, d)
      BY <2>3, <3>2 DEF TopsInv, StepWhole
    <3> QED
      BY <3>3 DEF Finished, Merge, Burst
  <2> QED
    BY <2>1, <2>2, <2>3, MadeByJobs
<1>2. TopsInv /\ [TopsNext]_topsvars =>
        [\A s \in completed \cap completed' : \A d \in files[s] \cap files'[s] :
            Kept1(s, d)]_topsvars
  BY <1>1
<1> QED
  BY <1>2, TopsInvariant, PTL DEF TopsSpec, CompletedIsKept

-----------------------------------------------------------------------------
(* The two together.                                                        *)

LEMMA Hyp3Alone == EnginesSpec => Spec
<1>1. EnginesInit => Init
  BY DEF EnginesInit
<1>2. [EnginesNext]_enginevars => [Next]_vars
  BY DEF EnginesNext, enginevars
<1> QED
  BY <1>1, <1>2, PTL DEF EnginesSpec, Spec

LEMMA TopsAlone == EnginesSpec => TopsSpec
<1>1. EnginesInit => TopsInit
  BY DEF EnginesInit
<1>2. [EnginesNext]_enginevars => [TopsNext]_topsvars
  BY DEF EnginesNext, enginevars
<1> QED
  BY <1>1, <1>2, PTL DEF EnginesSpec, TopsSpec

\* What runs one of the engines is a run of each, the other at rest: the
\* theorems above hold of it (and of any run of the two side by side).
THEOREM EnginesAreTyped == EnginesSpec => []EnginesTypeOK
<1>1. Hyp3TypeOK /\ TopsTypeOK => EnginesTypeOK
  BY DEF EnginesTypeOK
<1> QED
  BY <1>1, Hyp3Alone, TopsAlone, Hyp3Types, TopsTypes, PTL

\* So is what the run "engines_resume" checks of them, but that every run ends.
THEOREM EnginesHold ==
  EnginesSpec => /\ [](NothingIsLost /\ RecordIsTrue /\ FailureIsContained)
                 /\ NeverPaidTwice /\ CompletedIsKept
BY Hyp3Alone, TopsAlone, NothingIsLostHolds, NeverPaidTwiceHolds, RecordIsTrueHolds,
   FailureIsContainedHolds, CompletedIsKeptHolds, PTL
=============================================================================
