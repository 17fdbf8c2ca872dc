---------------------------- MODULE Safety_proofs ----------------------------
(***************************************************************************)
(* Proofs about components that the run "safety" checks: the MintPy engine, *)
(* the interferogram store, the configuration form, the unwrapping stage,   *)
(* the panels of the dock and diagnosis.  They share no variable; a section *)
(* each has the inductive invariant, a lemma per action, and the theorems,  *)
(* which hold for every value of the constants that the assumptions of the  *)
(* modules admit.  The last section carries them, and those about gc, the   *)
(* stage graph, networks, sweeps and tilings, over to the specification of  *)
(* MCSafety, which runs one of its components.                              *)
(***************************************************************************)
EXTENDS MCSafety, CacheGc_proofs, StageGraph_proofs,
        Planning_proofs, SequenceTheorems

-----------------------------------------------------------------------------
(* MintPy: what a run reports was made from what it reports.                *)
(*                                                                          *)
(* The work directory has one product per stage and directory, numbered as it*)
(* is written.  That a record tells what its product was made from (TrueRecord)*)
(* and that the directory holds products of its own template (Made) is what a*)
(* run needs in order to trust a record: Known says what it has checked when it*)
(* comes to a stage, and Chained what follows for the stages behind it.     *)

\* Every product in a directory was made with the directory's template.
Made ==
    \A d \in Params, k \in MintPyStages :
        /\ tree[d][k] <= written
        /\ tree[d][k] # 0 => makings[tree[d][k]].with = d

\* A record tells what its product was made from.
TrueRecord(r) ==
    /\ r.tree[r.stage] # 0 /\ r.tree[r.stage] <= written
    /\ r.stage = TsStage => r.dir = r.params
    /\ r.stage # TsStage =>
          /\ r.tree[r.stage - 1] = r.in[r.stage - 1]
          /\ makings[r.tree[r.stage]].from = r.in[r.stage - 1]

TrueRecords == \A r \in records : TrueRecord(r)

Chained(k) ==
    /\ reported[k] # 0 /\ reported[k] = tree[inherited][k]
    /\ k # TsStage => makings[reported[k]].from = reported[k - 1]

\* What a run knows when it comes to a stage.
Known ==
    /\ step # TsStage => /\ given = tree[inherited] /\ given[step - 1] # 0
                         /\ reported[step - 1] = given[step - 1]
                         /\ asked.from = TsStage => inherited = asked.params
    /\ \A k \in MintPyStages : asked.from <= k /\ k < step => Chained(k)

WhileAtIt ==
    /\ asked.from <= step
    /\ step = TsStage => inherited = asked.params

MintPyInv ==
    /\ MintPyTypeOK
    /\ Made
    /\ TrueRecords
    /\ runPhase \in {"walk", "engine"} => Known
    /\ runPhase = "engine" => WhileAtIt
    /\ ReportedChain

LEMMA StagesAre ==
    /\ MintPyStages = {1, 2, 3} /\ TsStage = 1 /\ CorrStage = 2 /\ GeoStage = 3
    /\ MintPyStages \subseteq Int
BY DEF MintPyStages, TsStage, CorrStage, GeoStage

LEMMA ProductsAre ==
    /\ Products \subseteq Nat /\ 0 \in Products /\ NoTree \in Tree
    /\ \A k \in MintPyStages : NoTree[k] = 0
BY ProductAssumption DEF Products, NoTree, Tree

LEMMA MintPyStarts == MintPyInit => MintPyInv
<1> SUFFICES ASSUME MintPyInit PROVE MintPyInv
    OBVIOUS
<1>0. asked \in MintPyLine /\ asked.params \in Params
    BY LineAssumption DEF MintPyInit, MintPyLine
<1>1. MintPyTypeOK
    <2>1. tree \in [Params -> Tree] /\ given \in Tree /\ reported \in Tree
        BY ProductsAre DEF MintPyInit
    <2>2. written \in Products /\ written = 0 /\ step \in MintPyStages
        BY ProductsAre, StagesAre DEF MintPyInit
    <2>3. makings \in [1 .. written -> [with : Params, from : Products]]
        BY <2>2 DEF MintPyInit
    <2> QED
        BY <1>0, <2>1, <2>2, <2>3 DEF MintPyInit, MintPyTypeOK, MintPyPhase
<1> QED
    BY <1>1, StagesAre, ProductsAre
    DEF MintPyInit, MintPyInv, Made, TrueRecords, Known, WhileAtIt, ReportedChain

\* The part of the next state that a step through the stages changes.
LEMMA UseTypes ==
    ASSUME MintPyTypeOK, NEW r \in records, UseRecord(r)
    PROVE  MintPyTypeOK'
<1>1. r \in TsRecord /\ r.tree \in Tree /\ r.dir \in Params
    BY DEF MintPyTypeOK, TsRecord
<1>2. step \in MintPyStages /\ r.tree[step] \in Products
    BY <1>1 DEF MintPyTypeOK, Tree
<1>3. reported' \in Tree
    BY <1>2 DEF UseRecord, MintPyTypeOK, Tree
<1>4. runPhase' \in MintPyPhase /\ step' \in MintPyStages
    BY <1>2, StagesAre DEF UseRecord, MintPyTypeOK, MintPyPhase
<1> QED
    BY <1>1, <1>3, <1>4 DEF UseRecord, MintPyTypeOK

\* A record whose directory is as it was when it was written tells the truth
\* about what is there; if it is of the node that the run is at, the products
\* that the run inherits are in the same directory.
LEMMA HitIsHere ==
    ASSUME MintPyInv, runPhase = "walk", NEW r \in CacheHits
    PROVE  /\ r \in records /\ r.stage = step /\ tree[r.dir] = r.tree
           /\ step = TsStage => r.dir = asked.params
           /\ step # TsStage =>
                 /\ r.dir = inherited
                 /\ makings[r.tree[step]].from = reported[step - 1]
<1>1. r \in records /\ IsOf(r, Here) /\ Unchanged(r)
    BY DEF CacheHits
<1>2. r.stage = step /\ r.in = given /\ (step # GeoStage => r.params = asked.params)
    BY <1>1 DEF IsOf, Here, NodeOf
<1>3. tree[r.dir] = r.tree /\ r.dir \in Params /\ TrueRecord(r)
    BY <1>1 DEF Unchanged, MintPyInv, TrueRecords, MintPyTypeOK, TsRecord
<1>4. step = TsStage => r.dir = asked.params
    BY <1>2, <1>3, StagesAre DEF TrueRecord
<1>5. ASSUME step # TsStage
      PROVE  r.dir = inherited /\ makings[r.tree[step]].from = reported[step - 1]
    <2>1. Known /\ step \in MintPyStages /\ step - 1 \in MintPyStages /\ inherited \in Params
        BY <1>5, StagesAre DEF MintPyInv, MintPyTypeOK
    <2>2. given = tree[inherited] /\ given[step - 1] # 0 /\ reported[step - 1] = given[step - 1]
        BY <2>1, <1>5 DEF Known
    <2>3. r.tree[step - 1] = given[step - 1] /\ makings[r.tree[step]].from = given[step - 1]
        BY <1>2, <1>3, <1>5 DEF TrueRecord
    <2>4. tree[r.dir][step - 1] = tree[inherited][step - 1] /\ tree[inherited][step - 1] # 0
        BY <2>2, <2>3, <1>3
    <2>5. /\ makings[tree[r.dir][step - 1]].with = r.dir
          /\ makings[tree[inherited][step - 1]].with = inherited
        BY <2>1, <2>4, <1>3 DEF MintPyInv, Made
    <2> QED
        BY <2>2, <2>3, <2>4, <2>5
<1> QED
    BY <1>1, <1>2, <1>3, <1>4, <1>5

\* Going on with a record's products.  H: a hit; otherwise a stand-in.
LEMMA UseKeeps ==
    ASSUME MintPyInv, runPhase = "walk", NEW r \in records, UseRecord(r),
           r.stage = step, tree[r.dir] = r.tree,
           r \in CacheHits \/ step < asked.from
    PROVE  MintPyInv'
<1>1. MintPyTypeOK'
    BY UseTypes DEF MintPyInv
<1>2. /\ MintPyTypeOK /\ Known /\ TrueRecord(r) /\ step \in MintPyStages /\ r.dir \in Params
      /\ asked.from \in MintPyStages
    BY DEF MintPyInv, TrueRecords, MintPyTypeOK, TsRecord, MintPyLine
<1>3. /\ UNCHANGED <<tree, records, written, makings, asked>>
      /\ given' = r.tree /\ inherited' = r.dir
      /\ reported' = [reported EXCEPT ![step] = r.tree[step]]
    BY DEF UseRecord
<1>4. Made' /\ TrueRecords'
    BY <1>3 DEF MintPyInv, Made, TrueRecords, TrueRecord
<1>5. reported \in Tree /\ reported'[step] = r.tree[step] /\ r.tree[step] # 0
    BY <1>2, <1>3 DEF MintPyTypeOK, Tree, TrueRecord
<1>6. \A k \in MintPyStages : k # step => reported'[k] = reported[k]
    BY <1>2, <1>3, <1>5 DEF Tree
<1>7. asked.from = TsStage => r.dir = asked.params
    <2> SUFFICES ASSUME asked.from = TsStage PROVE r.dir = asked.params
        OBVIOUS
    <2>1. r \in CacheHits
        BY <1>2, StagesAre
    <2> QED
        BY <2>1, <1>2, HitIsHere DEF Known
<1>8. \A k \in MintPyStages : asked.from <= k /\ k <= step => Chained(k)'
    <2> SUFFICES ASSUME NEW k \in MintPyStages, asked.from <= k, k <= step
                 PROVE  Chained(k)'
        OBVIOUS
    <2>1. r \in CacheHits
        BY <1>2, StagesAre
    <2>2. /\ step = TsStage => r.dir = asked.params
          /\ step # TsStage => /\ r.dir = inherited
                               /\ makings[r.tree[step]].from = reported[step - 1]
        BY <2>1, HitIsHere
    <2>3. CASE k = step
        <3>1. reported'[k] # 0 /\ reported'[k] = tree'[inherited'][k]
            BY <2>3, <1>3, <1>5
        <3>2. ASSUME k # TsStage PROVE makings'[reported'[k]].from = reported'[k - 1]
            <4>1. k - 1 \in MintPyStages /\ k - 1 # step
                BY <2>3, <3>2, <1>2, StagesAre
            <4>2. reported'[k - 1] = reported[k - 1]
                BY <4>1, <1>6
            <4> QED
                BY <4>2, <2>2, <2>3, <3>2, <1>3, <1>5
        <3> QED
            BY <3>1, <3>2 DEF Chained
    <2>4. CASE k # step
        <3>1. k < step /\ step # TsStage
            BY <2>4, <1>2, StagesAre
        <3>2. Chained(k) /\ r.dir = inherited
            BY <3>1, <2>2, <1>2 DEF Known
        <3>3. reported'[k] = reported[k]
            BY <2>4, <1>6
        <3>4. k # TsStage => k - 1 \in MintPyStages /\ k - 1 # step
            BY <3>1, <1>2, StagesAre
        <3>5. k # TsStage => reported'[k - 1] = reported[k - 1]
            BY <3>4, <1>6
        <3> QED
            BY <3>2, <3>3, <3>5, <1>3 DEF Chained
    <2> QED
        BY <2>3, <2>4
<1>9. runPhase' \in {"walk", "engine"} => Known'
    <2> SUFFICES ASSUME runPhase' \in {"walk", "engine"} PROVE Known'
        OBVIOUS
    <2>1. step' = step + 1
        BY DEF UseRecord
    <2>2. step' - 1 = step /\ step' \in MintPyStages
        BY <2>1, <1>1, <1>2, StagesAre DEF MintPyTypeOK
    <2>3. given' = tree'[inherited']
        BY <1>3
    <2>4. given'[step' - 1] # 0 /\ reported'[step' - 1] = given'[step' - 1]
        BY <2>2, <1>3, <1>5
    <2>5. asked'.from = TsStage => inherited' = asked'.params
        BY <1>3, <1>7
    <2>6. \A k \in MintPyStages : asked'.from <= k /\ k < step' => Chained(k)'
        BY <1>3, <1>8, <2>2, <1>2, StagesAre
    <2> QED
        BY <2>3, <2>4, <2>5, <2>6 DEF Known
<1>10. runPhase' # "engine"
    BY DEF UseRecord
<1>11. ReportedChain'
    <2> SUFFICES ASSUME runPhase' = "finished" PROVE ReportedChain'
        BY DEF ReportedChain
    <2>1. step = GeoStage
        BY DEF UseRecord
    <2>2. \A k \in MintPyStages : asked'.from <= k => Chained(k)'
        BY <2>1, <1>8, <1>3, <1>2, StagesAre
    <2>3. \A k \in asked'.from .. GeoStage : k \in MintPyStages /\ asked'.from <= k
        BY <1>2, <1>3, StagesAre
    <2>4. ASSUME asked'.from = TsStage, NEW k \in MintPyStages
          PROVE  makings'[reported'[k]].with = asked'.params
        <3>1. reported'[k] # 0 /\ reported'[k] = tree'[inherited'][k]
            BY <2>2, <2>4, StagesAre DEF Chained
        <3>2. inherited' = asked'.params /\ inherited' \in Params
            BY <1>3, <1>7, <1>2, <2>4
        <3> QED
            BY <3>1, <3>2, <1>4 DEF Made
    <2> QED
        BY <2>2, <2>3, <2>4, StagesAre DEF ReportedChain, Chained
<1> QED
    BY <1>1, <1>4, <1>9, <1>10, <1>11 DEF MintPyInv


LEMMA Stopping ==
    ASSUME MintPyInv, Stops, MintPyTypeOK', Made', TrueRecords'
    PROVE  MintPyInv'
BY DEF MintPyInv, Stops, ReportedChain

LEMMA StopTypes ==
    ASSUME MintPyTypeOK, Stops
    PROVE  /\ runPhase' \in MintPyPhase /\ asked' \in MintPyLine /\ step' \in MintPyStages
           /\ given' \in Tree /\ inherited' \in Params /\ reported' \in Tree
           /\ again' \in BOOLEAN
BY ProductsAre, StagesAre DEF MintPyTypeOK, Stops, MintPyPhase, MintPyLine

\* What writing a product does: it is made in the directory of the run from
\* the product of the stage before, and nothing older is made otherwise.
LEMMA WriteMakes ==
    ASSUME MintPyInv, Writes
    PROVE  /\ tree' \in [Params -> Tree] /\ written' \in Products
           /\ makings' \in [1 .. written' -> [with : Params, from : Products]]
           /\ Made'
           /\ \A n \in 1 .. written : makings'[n] = makings[n]
           /\ written' = written + 1 /\ tree'[inherited][step] = written'
           /\ \A k \in MintPyStages : k # step => tree'[inherited][k] = tree[inherited][k]
           /\ makings'[written'].with = inherited
           /\ step # TsStage => makings'[written'].from = tree[inherited][step - 1]
<1>1. /\ MintPyTypeOK /\ inherited \in Params /\ step \in MintPyStages
      /\ written \in Nat /\ written + 1 \in Products
    BY ProductAssumption DEF MintPyInv, MintPyTypeOK, Writes, Products
<1>2. /\ written' = written + 1
      /\ tree' = [tree EXCEPT ![inherited][step] = written + 1]
    BY DEF Writes
<1>3. /\ tree' \in [Params -> Tree]
      /\ \A d \in Params, k \in MintPyStages :
            tree'[d][k] = IF d = inherited /\ k = step THEN written + 1 ELSE tree[d][k]
    BY <1>1, <1>2 DEF MintPyTypeOK, Tree
<1>4. step # TsStage => step - 1 \in MintPyStages
    BY <1>1, StagesAre
<1>5. (IF step = TsStage THEN 0 ELSE tree[inherited][step - 1]) \in Products
    BY <1>1, <1>4, ProductsAre DEF MintPyTypeOK, Tree
<1>6. /\ makings' \in [1 .. written + 1 -> [with : Params, from : Products]]
      /\ \A n \in 1 .. written : makings'[n] = makings[n]
    <2> DEFINE making == [with |-> inherited,
                        from |-> IF step = TsStage THEN 0 ELSE tree[inherited][step - 1]]
    <2>1. making \in [with : Params, from : Products]
        BY <1>1, <1>5
    <2>2. makings' = [n \in 1 .. written + 1 |-> IF n <= written THEN makings[n] ELSE making]
        BY DEF Writes
    <2>3. \A n \in 1 .. written + 1 : n <= written => n \in 1 .. written
        BY <1>1
    <2> HIDE DEF making
    <2> QED
        BY <2>1, <2>2, <2>3, <1>1 DEF MintPyTypeOK
<1>7. makings'[written + 1] = [with |-> inherited,
                               from |-> IF step = TsStage THEN 0 ELSE tree[inherited][step - 1]]
    BY <1>1 DEF Writes
<1>8. Made'
    <2> SUFFICES ASSUME NEW d \in Params, NEW k \in MintPyStages
                 PROVE  /\ tree'[d][k] <= written'
                        /\ tree'[d][k] # 0 => makings'[tree'[d][k]].with = d
        BY DEF Made
    <2>1. tree[d][k] \in Nat /\ tree[d][k] <= written
        BY <1>1, ProductsAre DEF MintPyInv, Made, MintPyTypeOK, Tree
    <2>2. CASE d = inherited /\ k = step
        <3>1. tree'[d][k] = written + 1
            BY <1>3, <2>2
        <3> QED
            BY <3>1, <1>1, <1>2, <1>7, <2>2
    <2>3. CASE ~(d = inherited /\ k = step)
        <3>1. tree'[d][k] = tree[d][k]
            BY <1>3, <2>3
        <3>2. tree[d][k] <= written + 1
            BY <2>1, <1>1
        <3>3. tree[d][k] # 0 => tree[d][k] \in 1 .. written
            BY <2>1, <1>1
        <3>4. tree[d][k] # 0 => makings'[tree[d][k]] = makings[tree[d][k]]
            BY <3>3, <1>6
        <3>5. tree[d][k] # 0 => makings[tree[d][k]].with = d
            BY DEF MintPyInv, Made
        <3> QED
            BY <3>1, <3>2, <3>4, <3>5, <1>2
    <2> QED
        BY <2>2, <2>3
<1> QED
    BY <1>1, <1>2, <1>3, <1>6, <1>7, <1>8

\* Records stay true when a product is written.
LEMMA WriteKeepsRecords ==
    ASSUME MintPyInv, Writes, NEW r \in records
    PROVE  /\ r.tree[r.stage] # 0 /\ r.tree[r.stage] <= written'
           /\ r.stage = TsStage => r.dir = r.params
           /\ r.stage # TsStage => /\ r.tree[r.stage - 1] = r.in[r.stage - 1]
                                   /\ makings'[r.tree[r.stage]].from = r.in[r.stage - 1]
<1>1. /\ TrueRecord(r) /\ r.tree[r.stage] \in Nat /\ written \in Nat
    BY ProductsAre DEF MintPyInv, TrueRecords, MintPyTypeOK, TsRecord, Tree
<1>2. r.tree[r.stage] \in 1 .. written /\ r.tree[r.stage] <= written + 1
    BY <1>1 DEF TrueRecord
<1>3. makings'[r.tree[r.stage]] = makings[r.tree[r.stage]] /\ written' = written + 1
    BY <1>2, WriteMakes
<1> QED
    BY <1>1, <1>2, <1>3 DEF TrueRecord

LEMMA StartKeeps ==
    ASSUME MintPyInv, NEW l \in Lines, StartRun(l)
    PROVE  MintPyInv'
<1>1. l \in MintPyLine /\ l.params \in Params
    BY LineAssumption DEF MintPyLine
<1>2. MintPyTypeOK'
    BY <1>1, ProductsAre, StagesAre DEF StartRun, MintPyInv, MintPyTypeOK, MintPyPhase
<1>3. Made' /\ TrueRecords'
    BY DEF StartRun, MintPyInv, Made, TrueRecords, TrueRecord
<1>4. step' = 1 /\ runPhase' = "walk" /\ l.from \in MintPyStages /\ asked' = l
    BY <1>1, StagesAre DEF StartRun, MintPyLine
<1>5. Known'
    BY <1>4, StagesAre DEF Known
<1> QED
    BY <1>2, <1>3, <1>4, <1>5 DEF MintPyInv, ReportedChain

LEMMA StartStageKeeps ==
    ASSUME MintPyInv, StartStage
    PROVE  MintPyInv'
<1>1. /\ MintPyTypeOK /\ asked.params \in Params /\ step \in MintPyStages
      /\ runPhase = "walk" /\ Known /\ asked.from <= step /\ asked.from \in MintPyStages
    BY DEF MintPyInv, StartStage, MintPyTypeOK, MintPyLine
<1>2. /\ UNCHANGED <<written, makings, asked, step, given, reported, again>>
      /\ runPhase' = "engine" /\ records' \subseteq records
    BY DEF StartStage, Replaced
<1>3. tree' \in [Params -> Tree] /\ inherited' \in Params
    BY <1>1, ProductsAre DEF StartStage, MintPyTypeOK
<1>4. MintPyTypeOK'
    BY <1>1, <1>2, <1>3 DEF MintPyTypeOK, MintPyPhase
<1>5. Made'
    <2>1. \A d \in Params, k \in MintPyStages : tree'[d][k] \in {tree[d][k], 0}
        BY <1>1, ProductsAre DEF StartStage, MintPyTypeOK
    <2>2. written \in Nat
        BY <1>1, ProductsAre DEF MintPyTypeOK
    <2> QED
        BY <2>1, <2>2, <1>2 DEF MintPyInv, Made
<1>6. TrueRecords'
    BY <1>2 DEF MintPyInv, TrueRecords, TrueRecord
<1>7. Known'
    <2>1. CASE step = TsStage
        BY <2>1, <1>1, <1>2, StagesAre DEF Known
    <2>2. CASE step # TsStage
        <3>1. UNCHANGED <<tree, inherited>>
            BY <2>2 DEF StartStage
        <3> QED
            BY <3>1, <1>1, <1>2 DEF Known, Chained
    <2> QED
        BY <2>1, <2>2
<1>8. WhileAtIt'
    BY <1>1, <1>2 DEF StartStage, WhileAtIt
<1> QED
    BY <1>2, <1>4, <1>5, <1>6, <1>7, <1>8 DEF MintPyInv, ReportedChain

LEMMA StageOkKeeps ==
    ASSUME MintPyInv, StageOk
    PROVE  MintPyInv'
<1>1. /\ MintPyTypeOK /\ Known /\ WhileAtIt /\ Writes /\ step \in MintPyStages
      /\ asked.from \in MintPyStages /\ asked.params \in Params /\ inherited \in Params
      /\ written \in Nat
    BY ProductsAre DEF MintPyInv, StageOk, MintPyTypeOK, MintPyLine
<1> DEFINE new == [stage |-> step, params |-> Here.params, in |-> given,
                   dir |-> inherited, tree |-> tree'[inherited], at |-> written']
<1>2. /\ UNCHANGED <<asked, inherited, again>>
      /\ records' = records \union {new}
      /\ reported' = [reported EXCEPT ![step] = written']
      /\ given' = tree'[inherited]
    BY DEF StageOk
<1>3. /\ tree' \in [Params -> Tree] /\ written' \in Products
      /\ makings' \in [1 .. written' -> [with : Params, from : Products]]
      /\ Made' /\ written' = written + 1 /\ tree'[inherited][step] = written'
      /\ \A k \in MintPyStages : k # step => tree'[inherited][k] = tree[inherited][k]
      /\ step # TsStage => makings'[written'].from = tree[inherited][step - 1]
      /\ \A n \in 1 .. written : makings'[n] = makings[n]
    BY <1>1, WriteMakes
<1>4. Here.params \in Params \union {NoParams}
    BY <1>1 DEF Here, NodeOf
<1>5. new \in TsRecord
    BY <1>1, <1>3, <1>4 DEF TsRecord, MintPyTypeOK
<1>6. /\ reported' \in Tree /\ reported'[step] = written' /\ written' # 0
      /\ \A k \in MintPyStages : k # step => reported'[k] = reported[k]
    BY <1>1, <1>2, <1>3 DEF MintPyTypeOK, Tree
<1>7. /\ runPhase' \in {"finished", "walk"} /\ step' \in MintPyStages
      /\ runPhase' = "finished" => step = GeoStage
      /\ runPhase' = "walk" => step' = step + 1
    BY <1>1, StagesAre DEF StageOk
<1>8. MintPyTypeOK'
    BY <1>1, <1>2, <1>3, <1>5, <1>6, <1>7 DEF MintPyTypeOK, MintPyPhase
<1>9. step # TsStage => /\ step - 1 \in MintPyStages /\ step - 1 # step
                        /\ given = tree[inherited]
                        /\ reported[step - 1] = tree[inherited][step - 1]
    BY <1>1, StagesAre DEF Known
<1>10. TrueRecords'
    <2> SUFFICES ASSUME NEW r \in records' PROVE TrueRecord(r)'
        BY DEF TrueRecords
    <2>1. CASE r \in records
        BY <2>1, <1>1, WriteKeepsRecords DEF TrueRecord
    <2>2. CASE r = new
        <3>1. /\ r.stage = step /\ r.in = given /\ r.dir = inherited
              /\ r.params = Here.params /\ r.tree = tree'[inherited]
            BY <2>2
        <3>2. r.tree[r.stage] # 0 /\ r.tree[r.stage] <= written'
            BY <3>1, <1>1, <1>3, <1>6
        <3>3. r.stage = TsStage => r.dir = r.params
            BY <3>1, <1>1, StagesAre DEF WhileAtIt, Here, NodeOf
        <3>4. ASSUME r.stage # TsStage
              PROVE  /\ r.tree[r.stage - 1] = r.in[r.stage - 1]
                     /\ makings'[r.tree[r.stage]].from = r.in[r.stage - 1]
            <4>1. tree'[inherited][step - 1] = tree[inherited][step - 1]
                BY <3>1, <3>4, <1>3, <1>9
            <4>2. given[step - 1] = tree[inherited][step - 1]
                BY <3>1, <3>4, <1>9
            <4> QED
                BY <3>1, <3>4, <4>1, <4>2, <1>3
        <3> QED
            BY <3>2, <3>3, <3>4 DEF TrueRecord
    <2> QED
        BY <2>1, <2>2, <1>2
<1>11. \A k \in MintPyStages : asked.from <= k /\ k <= step => Chained(k)'
    <2> SUFFICES ASSUME NEW k \in MintPyStages, asked.from <= k, k <= step
                 PROVE  Chained(k)'
        OBVIOUS
    <2>1. CASE k = step
        <3>1. reported'[k] # 0 /\ reported'[k] = tree'[inherited'][k]
            BY <2>1, <1>2, <1>3, <1>6
        <3>2. ASSUME k # TsStage PROVE makings'[reported'[k]].from = reported'[k - 1]
            BY <3>2, <2>1, <1>3, <1>6, <1>9
        <3> QED
            BY <3>1, <3>2 DEF Chained
    <2>2. CASE k # step
        <3>1. k < step /\ Chained(k)
            BY <2>2, <1>1, StagesAre DEF Known
        <3>2. reported'[k] = reported[k] /\ tree'[inherited'][k] = tree[inherited][k]
            BY <2>2, <1>2, <1>3, <1>6
        <3>3. k # TsStage => reported'[k - 1] = reported[k - 1]
            BY <3>1, <1>1, <1>6, StagesAre
        <3>4. reported[k] \in 1 .. written
            <4>1. reported[k] # 0 /\ reported[k] = tree[inherited][k]
                BY <3>1 DEF Chained
            <4>2. tree[inherited][k] \in Nat /\ tree[inherited][k] <= written
                BY <1>1, ProductsAre DEF MintPyInv, Made, MintPyTypeOK, Tree
            <4> QED
                BY <4>1, <4>2, <1>1
        <3>5. makings'[reported[k]] = makings[reported[k]]
            BY <3>4, <1>3
        <3> QED
            BY <3>1, <3>2, <3>3, <3>5 DEF Chained
    <2> QED
        BY <2>1, <2>2
<1>12. asked.from = TsStage => inherited = asked.params
    BY <1>1 DEF WhileAtIt, Known
<1>13. runPhase' = "walk" => Known'
    <2> SUFFICES ASSUME runPhase' = "walk" PROVE Known'
        OBVIOUS
    <2>1. step' = step + 1 /\ step' - 1 = step
        BY <1>1, <1>7, StagesAre
    <2>2. /\ given' = tree'[inherited'] /\ given'[step' - 1] # 0
          /\ reported'[step' - 1] = given'[step' - 1]
          /\ asked'.from = TsStage => inherited' = asked'.params
        BY <2>1, <1>2, <1>3, <1>6, <1>12
    <2>3. \A k \in MintPyStages : asked'.from <= k /\ k < step' => Chained(k)'
        BY <1>1, <1>2, <1>11, <2>1, StagesAre
    <2> QED
        BY <2>2, <2>3 DEF Known
<1>14. ReportedChain'
    <2> SUFFICES ASSUME runPhase' = "finished" PROVE ReportedChain'
        BY DEF ReportedChain
    <2>1. \A k \in MintPyStages : asked'.from <= k => Chained(k)'
        BY <1>1, <1>2, <1>7, <1>11, StagesAre
    <2>2. \A k \in asked'.from .. GeoStage : k \in MintPyStages /\ asked'.from <= k
        BY <1>1, <1>2, StagesAre
    <2>3. ASSUME asked'.from = TsStage, NEW k \in MintPyStages
          PROVE  makings'[reported'[k]].with = asked'.params
        <3>1. reported'[k] # 0 /\ reported'[k] = tree'[inherited'][k]
            BY <2>1, <2>3, StagesAre DEF Chained
        <3>2. inherited' = asked'.params /\ inherited' \in Params
            BY <1>1, <1>2, <1>12, <2>3
        <3> QED
            BY <3>1, <3>2, <1>3 DEF Made
    <2> QED
        BY <2>1, <2>2, <2>3, StagesAre DEF ReportedChain, Chained
<1> QED
    BY <1>3, <1>7, <1>8, <1>10, <1>13, <1>14 DEF MintPyInv

LEMMA MintPyFailKeeps ==
    ASSUME MintPyInv, StageFails
    PROVE  MintPyInv'
<1>1. Stops /\ records' = records /\ MintPyTypeOK
    BY DEF StageFails, MintPyInv
<1>2. CASE Writes
    <2>1. MintPyTypeOK'
        BY <1>1, <1>2, WriteMakes, StopTypes DEF MintPyTypeOK
    <2>2. Made'
        BY <1>2, WriteMakes
    <2>3. TrueRecords'
        BY <1>1, <1>2, WriteKeepsRecords DEF TrueRecords, TrueRecord
    <2> QED
        BY <2>1, <2>2, <2>3, <1>1, Stopping
<1>3. CASE WritesNothing
    <2>1. MintPyTypeOK'
        BY <1>1, <1>3, StopTypes DEF MintPyTypeOK, WritesNothing
    <2>2. Made' /\ TrueRecords'
        BY <1>1, <1>3 DEF WritesNothing, MintPyInv, Made, TrueRecords, TrueRecord
    <2> QED
        BY <2>1, <2>2, <1>1, Stopping
<1> QED
    BY <1>2, <1>3 DEF StageFails

LEMMA MintPyStep == MintPyInv /\ [MintPyNext]_mintpyvars => MintPyInv'
<1> SUFFICES ASSUME MintPyInv, [MintPyNext]_mintpyvars PROVE MintPyInv'
    OBVIOUS
<1>1. CASE \E l \in Lines : StartRun(l)
    BY <1>1, StartKeeps
<1>2. CASE ServeRecord
    <2>1. PICK r \in CacheHits : UseRecord(r)
        BY <1>2 DEF ServeRecord
    <2>2. runPhase = "walk"
        BY <1>2 DEF ServeRecord
    <2>3. r \in records /\ r.stage = step /\ tree[r.dir] = r.tree
        BY <2>1, <2>2, HitIsHere
    <2> QED
        BY <2>1, <2>2, <2>3, UseKeeps
<1>3. CASE StandIn
    <2>1. PICK r \in LatestOf(step) : UseRecord(r)
        BY <1>3 DEF StandIn
    <2>2. runPhase = "walk" /\ step < asked.from
        BY <1>3 DEF StandIn
    <2>3. r \in records /\ r.stage = step /\ tree[r.dir] = r.tree
        BY <2>1 DEF LatestOf, Unchanged
    <2> QED
        BY <2>1, <2>2, <2>3, UseKeeps
<1>4. CASE NothingStandsIn
    <2>1. Stops /\ UNCHANGED <<tree, records, written, makings>>
        BY <1>4 DEF NothingStandsIn
    <2>2. MintPyTypeOK'
        BY <2>1, StopTypes DEF MintPyTypeOK, MintPyInv
    <2>3. Made' /\ TrueRecords'
        BY <2>1 DEF MintPyInv, Made, TrueRecords, TrueRecord
    <2> QED
        BY <2>1, <2>2, <2>3, Stopping
<1>5. CASE StartStage
    BY <1>5, StartStageKeeps
<1>6. CASE StageOk
    BY <1>6, StageOkKeeps
<1>7. CASE StageFails
    BY <1>7, MintPyFailKeeps
<1>8. CASE UNCHANGED mintpyvars
    BY <1>8 DEF mintpyvars, MintPyInv, MintPyTypeOK, Made, TrueRecords, TrueRecord, Known,
               Chained, WhileAtIt, ReportedChain
<1> QED
    BY <1>1, <1>2, <1>3, <1>4, <1>5, <1>6, <1>7, <1>8 DEF MintPyNext

\* The variables of MintPy have their types, for any templates, command lines
\* and number of products (engines/mintpy.py).
THEOREM MintPyTypes == MintPySpec => []MintPyTypeOK
<1>1. MintPyInv => MintPyTypeOK
    BY DEF MintPyInv
<1> QED
    BY <1>1, MintPyStarts, MintPyStep, PTL DEF MintPySpec

\* Every product that a run reports was made from the product it reports for the
\* stage before (engines/mintpy.py: the stages share one work directory, and a hit
\* of the node cache says nothing of what the directory holds by now).
THEOREM ReportedChainHolds == MintPySpec => []ReportedChain
<1>1. MintPyInv => ReportedChain
    BY DEF MintPyInv
<1> QED
    BY <1>1, MintPyStarts, MintPyStep, PTL DEF MintPySpec

-----------------------------------------------------------------------------
(* The interferogram store: the slices of a call are where its name says.   *)
(*                                                                          *)
(* An append writes its slices at the first index that has no name, and the *)
(* name last.  TrueNames is the statement for any list of names that somebody*)
(* reads (the attribute on disk, or what the handle remembers after an attribute*)
(* write that failed), Underway for a call that has not named its slices yet.*)

OwnArrays(n) == appends[n].brings \union Always

\* Slice i of every array that call n brought is the call's.
OwnSlice(i, n) ==
    \A a \in OwnArrays(n) : i \in 1 .. Len(slices[a]) /\ slices[a][i] = n

\* Names, the calls they come from, and the slices of these.
TrueNames(pairs, calls) ==
    /\ pairs \in Seq(Keys) /\ calls \in Seq(DOMAIN appends)
    /\ Len(calls) = Len(pairs)
    /\ \A i \in 1 .. Len(pairs) :
          appends[calls[i]].key = pairs[i] /\ OwnSlice(i, calls[i])
    /\ \A i, j \in 1 .. Len(pairs) : i # j => pairs[i] # pairs[j]

Begins(s, t) == Len(s) <= Len(t) /\ \A i \in 1 .. Len(s) : s[i] = t[i]

\* The call that is under way: what is not left is written at the next index.
Underway ==
    /\ handle.open
    /\ call.n \in DOMAIN appends /\ appends[call.n].key = call.key
    /\ call.key \in Keys /\ call.key \notin KnownKeys(handle.pairs)
    /\ call.grow \subseteq present /\ call.left \subseteq Arrays
    /\ \A a \in OwnArrays(call.n) \ call.left :
          /\ Len(handle.pairs) + 1 \in 1 .. Len(slices[a])
          /\ slices[a][Len(handle.pairs) + 1] = call.n

StoreTypes ==
    /\ slices \in [Arrays -> Seq(Nat)]
    /\ present \subseteq Arrays
    /\ \A a \in Arrays \ present : slices[a] = << >>
    /\ appends \in Seq([key : Keys, brings : Extras])
    /\ handle \in [open : BOOLEAN, pairs : Seq(Keys), calls : Seq(Nat), capacity : Nat]
    /\ call \in [n : Nat, key : Keys \union {"none"}, brings : SUBSET Arrays,
                 grow : SUBSET Arrays, left : SUBSET Arrays]

Reading == view.open => view.pairs \in Seq(Keys) /\ Begins(view.pairs, attrs)

StoreInv ==
    /\ StoreTypes
    /\ TrueNames(attrs, origin)
    /\ handle.open => /\ TrueNames(handle.pairs, handle.calls)
                      /\ Begins(attrs, handle.pairs)
    /\ call # NoCall => Underway
    /\ Reading


LEMMA ArraysAre ==
    /\ Arrays = {"wrapped", "coherence", "mask", "unw", "conncomp"}
    /\ Always \subseteq Arrays
    /\ \A e \in Extras : e \subseteq Arrays
<1>1. DOMAIN ARRAY_NAMES = 1 .. 5
    BY DEF ARRAY_NAMES
<1>2. Arrays = {"wrapped", "coherence", "mask", "unw", "conncomp"}
    BY <1>1 DEF Arrays, ARRAY_NAMES
<1> QED
    BY <1>2, StoreAssumption DEF Always

\* The first array of a set of arrays is one of the set.
LEMMA FirstIsThere ==
    ASSUME NEW S \in SUBSET Arrays, S # {}
    PROVE  FirstOf(S) \in S
<1> DEFINE Leads(i) == ARRAY_NAMES[i] \in S /\ \A j \in 1 .. i - 1 : ARRAY_NAMES[j] \notin S
<1>1. /\ DOMAIN ARRAY_NAMES = 1 .. 5
      /\ ARRAY_NAMES[1] = "wrapped" /\ ARRAY_NAMES[2] = "coherence" /\ ARRAY_NAMES[3] = "mask"
      /\ ARRAY_NAMES[4] = "unw" /\ ARRAY_NAMES[5] = "conncomp"
    BY DEF ARRAY_NAMES
<1>2. PICK k \in 1 .. 5 : ARRAY_NAMES[k] \in S
    <2>1. PICK a \in S : a \in {"wrapped", "coherence", "mask", "unw", "conncomp"}
        BY ArraysAre
    <2> QED
        BY <1>1, <2>1
<1>3. \E i \in 1 .. 5 : Leads(i)
    <2>1. CASE ARRAY_NAMES[1] \in S
        BY <2>1
    <2>2. CASE ARRAY_NAMES[1] \notin S /\ ARRAY_NAMES[2] \in S
        BY <2>2
    <2>3. CASE ARRAY_NAMES[1] \notin S /\ ARRAY_NAMES[2] \notin S /\ ARRAY_NAMES[3] \in S
        BY <2>3
    <2>4. CASE /\ ARRAY_NAMES[1] \notin S /\ ARRAY_NAMES[2] \notin S /\ ARRAY_NAMES[3] \notin S
               /\ ARRAY_NAMES[4] \in S
        BY <2>4
    <2>5. CASE /\ ARRAY_NAMES[1] \notin S /\ ARRAY_NAMES[2] \notin S /\ ARRAY_NAMES[3] \notin S
               /\ ARRAY_NAMES[4] \notin S
        BY <2>5, <1>2
    <2> QED
        BY <2>1, <2>2, <2>3, <2>4, <2>5
<1>4. Leads(CHOOSE i \in 1 .. 5 : Leads(i))
    BY <1>3
<1> QED
    BY <1>1, <1>4 DEF FirstOf

LEMMA FunctionIsSequence ==
    ASSUME NEW S, NEW n \in Nat, NEW f \in [1 .. n -> S]
    PROVE  f \in Seq(S) /\ Len(f) = n
OBVIOUS

CallsKept ==
    /\ appends' \in Seq([key : Keys, brings : Extras]) /\ Len(appends) <= Len(appends')
    /\ \A n \in DOMAIN appends : appends'[n] = appends[n]

SlicesKept(m) ==
    \A a \in Arrays, i \in 1 .. m :
        i \in 1 .. Len(slices[a]) => i \in 1 .. Len(slices'[a]) /\ slices'[a][i] = slices[a][i]

LEMMA OwnAreArrays ==
    ASSUME StoreTypes, NEW n \in DOMAIN appends
    PROVE  OwnArrays(n) \subseteq Arrays
<1>1. appends[n] \in [key : Keys, brings : Extras]
    <2>1. appends \in Seq([key : Keys, brings : Extras])
        BY DEF StoreTypes
    <2> QED
        BY <2>1, ElementOfSeq, LenProperties
<1> QED
    BY <1>1, ArraysAre DEF OwnArrays

\* Names stay true while their slices stay.
LEMMA NamesKeep ==
    ASSUME StoreTypes, NEW p, NEW c, TrueNames(p, c), CallsKept, SlicesKept(Len(p))
    PROVE  TrueNames(p, c)'
<1>1. /\ p \in Seq(Keys) /\ c \in Seq(DOMAIN appends) /\ Len(c) = Len(p) /\ Len(p) \in Nat
      /\ \A i, j \in 1 .. Len(p) : i # j => p[i] # p[j]
    BY DEF TrueNames
<1>2. DOMAIN appends \subseteq DOMAIN appends'
    BY DEF StoreTypes, CallsKept
<1>3. c \in Seq(DOMAIN appends')
    BY <1>1, <1>2, SeqMonotonic
<1>4. ASSUME NEW i \in 1 .. Len(p)
      PROVE  appends'[c[i]].key = p[i] /\ OwnSlice(i, c[i])'
    <2>1. c[i] \in DOMAIN appends
        BY <1>1
    <2>2. appends'[c[i]] = appends[c[i]]
        BY <2>1 DEF CallsKept
    <2>3. appends[c[i]].key = p[i] /\ OwnSlice(i, c[i])
        BY DEF TrueNames
    <2>4. OwnArrays(c[i])' = OwnArrays(c[i]) /\ OwnArrays(c[i]) \subseteq Arrays
        BY <2>1, <2>2, OwnAreArrays DEF OwnArrays
    <2> QED
        BY <2>2, <2>3, <2>4 DEF OwnSlice, SlicesKept
<1> QED
    BY <1>1, <1>3, <1>4 DEF TrueNames

LEMMA StoreStarts == StoreInit => StoreInv
<1> SUFFICES ASSUME StoreInit PROVE StoreInv
    OBVIOUS
<1>1. handle = NoHandle /\ call = NoCall /\ view = NoView /\ attrs = << >> /\ origin = << >>
    BY DEF StoreInit
<1>2. StoreTypes
    BY DEF StoreInit, StoreTypes, NoHandle, NoCall
<1>3. TrueNames(attrs, origin)
    BY <1>1 DEF TrueNames
<1> QED
    BY <1>1, <1>2, <1>3 DEF StoreInv, Reading, NoHandle, NoView

LEMMA NoCallFacts ==
    /\ NoCall.n = 0 /\ NoCall.grow = {} /\ NoCall.left = {}
    /\ NoCall \in [n : Nat, key : Keys \union {"none"}, brings : SUBSET Arrays,
                   grow : SUBSET Arrays, left : SUBSET Arrays]
BY DEF NoCall

LEMMA CreateKeeps ==
    ASSUME StoreInv, NEW s \in Stacks, Create(s)
    PROVE  StoreInv'
<1>1. s.n \in Nat /\ StoreTypes /\ call = NoCall
    BY StoreAssumption DEF StoreInv, Create, Underway
<1>2. /\ UNCHANGED <<call, appends>> /\ attrs' = << >> /\ origin' = << >> /\ view' = NoView
      /\ handle' = [open |-> TRUE, pairs |-> << >>, calls |-> << >>, capacity |-> s.n]
      /\ present' \subseteq Arrays
      /\ slices' = [a \in Arrays |-> IF a \in present' THEN [i \in 1 .. s.n |-> 0] ELSE << >>]
    BY ArraysAre DEF Create
<1>3. [i \in 1 .. s.n |-> 0] \in Seq(Nat) /\ << >> \in Seq(Nat)
    BY <1>1
<1>4. slices' \in [Arrays -> Seq(Nat)]
    BY <1>2, <1>3
<1>5. StoreTypes'
    BY <1>1, <1>2, <1>4 DEF StoreTypes
<1>6. TrueNames(attrs, origin)' /\ TrueNames(handle.pairs, handle.calls)'
    BY <1>2 DEF TrueNames
<1>7. Begins(attrs, handle.pairs)'
    BY <1>2 DEF Begins
<1> QED
    BY <1>1, <1>2, <1>5, <1>6, <1>7 DEF StoreInv, Reading, NoView

LEMMA OpenKeeps ==
    ASSUME StoreInv, OpenWriter
    PROVE  StoreInv'
<1>1. StoreTypes /\ TrueNames(attrs, origin) /\ call = NoCall
    BY DEF StoreInv, OpenWriter, Underway
<1>2. /\ handle' = [open |-> TRUE, pairs |-> attrs, calls |-> origin,
                    capacity |-> Len(slices["wrapped"])]
      /\ UNCHANGED <<slices, present, attrs, call, appends, origin, creates, view>>
    BY DEF OpenWriter
<1>3. "wrapped" \in Arrays
    BY ArraysAre
<1>4. Len(slices["wrapped"]) \in Nat /\ attrs \in Seq(Keys) /\ Len(attrs) \in Nat
    BY <1>1, <1>3 DEF StoreTypes, TrueNames
<1>5. origin \in Seq(Nat)
    <2>1. DOMAIN appends \subseteq Nat
        BY <1>1 DEF StoreTypes
    <2> QED
        BY <2>1, <1>1, SeqMonotonic DEF TrueNames
<1>6. StoreTypes'
    BY <1>1, <1>2, <1>4, <1>5 DEF StoreTypes
<1>7. CallsKept /\ SlicesKept(Len(attrs))
    BY <1>1, <1>2 DEF CallsKept, SlicesKept, StoreTypes
<1>8. TrueNames(attrs, origin)'
    BY <1>1, <1>2, <1>7, NamesKeep
<1>9. TrueNames(handle.pairs, handle.calls)' /\ Begins(attrs, handle.pairs)'
    <2>1. handle'.pairs = attrs' /\ handle'.calls = origin'
        BY <1>2
    <2> QED
        BY <2>1, <1>2, <1>4, <1>8 DEF Begins
<1> QED
    BY <1>1, <1>2, <1>6, <1>8, <1>9 DEF StoreInv, Reading

LEMMA AppendKeeps ==
    ASSUME StoreInv, NEW key \in Keys, NEW brings \in Extras, AppendPair(key, brings)
    PROVE  StoreInv'
<1> DEFINE entry == [key |-> key, brings |-> brings]
           n == Len(appends) + 1
<1>1. /\ StoreTypes /\ handle.open /\ key \notin KnownKeys(handle.pairs)
      /\ TrueNames(attrs, origin) /\ TrueNames(handle.pairs, handle.calls)
      /\ Begins(attrs, handle.pairs)
    BY DEF StoreInv, AppendPair
<1>2. /\ UNCHANGED <<slices, present, attrs, handle, origin, creates, view>>
      /\ appends' = Append(appends, entry)
      /\ call' = [n |-> n, key |-> key, brings |-> brings,
                  grow |-> IF Len(handle.pairs) >= handle.capacity THEN present ELSE {},
                  left |-> brings \union Always]
    BY DEF AppendPair
<1>3. entry \in [key : Keys, brings : Extras] /\ n \in Nat
    BY <1>1 DEF StoreTypes
<1>4. /\ appends' \in Seq([key : Keys, brings : Extras]) /\ Len(appends') = n
      /\ appends'[n] = entry /\ DOMAIN appends' = 1 .. n /\ n \in DOMAIN appends'
      /\ \A k \in DOMAIN appends : appends'[k] = appends[k]
    BY <1>1, <1>2, <1>3 DEF StoreTypes
<1>5. CallsKept /\ \A m : SlicesKept(m)
    BY <1>1, <1>2, <1>4 DEF CallsKept, SlicesKept, StoreTypes
<1>6. /\ call'.n = n /\ call'.key = key /\ call'.grow \subseteq present
      /\ call'.left = brings \union Always /\ brings \union Always \subseteq Arrays
      /\ call' \in [n : Nat, key : Keys \union {"none"}, brings : SUBSET Arrays,
                    grow : SUBSET Arrays, left : SUBSET Arrays]
    <2>1. brings \subseteq Arrays /\ Always \subseteq Arrays /\ present \subseteq Arrays
        BY <1>1, ArraysAre DEF StoreTypes
    <2> HIDE DEF n
    <2> QED
        BY <2>1, <1>2, <1>3
<1>7. StoreTypes'
    BY <1>1, <1>2, <1>4, <1>6 DEF StoreTypes
<1>8. TrueNames(attrs, origin)' /\ TrueNames(handle.pairs, handle.calls)'
    BY <1>1, <1>2, <1>5, NamesKeep
<1>9. Underway'
    <2>1. OwnArrays(call.n)' \ call'.left = {}
        BY <1>4, <1>6 DEF OwnArrays
    <2> QED
        BY <2>1, <1>1, <1>2, <1>4, <1>6 DEF Underway, KnownKeys
<1> QED
    BY <1>1, <1>2, <1>7, <1>8, <1>9 DEF StoreInv, Reading, Begins

\* Writing past the names of the writer keeps those of the store and its own.
LEMMA NamesKeepBoth ==
    ASSUME StoreInv, handle.open, CallsKept, SlicesKept(Len(handle.pairs)),
           UNCHANGED <<attrs, origin>>, handle'.pairs = handle.pairs,
           handle'.calls = handle.calls
    PROVE  /\ TrueNames(attrs, origin)' /\ TrueNames(handle.pairs, handle.calls)'
           /\ Begins(attrs, handle.pairs)'
<1>1. /\ StoreTypes /\ TrueNames(attrs, origin) /\ TrueNames(handle.pairs, handle.calls)
      /\ Begins(attrs, handle.pairs)
    BY DEF StoreInv
<1>2. Len(attrs) \in Nat /\ Len(handle.pairs) \in Nat /\ Len(attrs) <= Len(handle.pairs)
    BY <1>1 DEF TrueNames, Begins
<1>3. SlicesKept(Len(attrs))
    BY <1>2 DEF SlicesKept
<1>4. TrueNames(attrs, origin)'
    BY <1>1, <1>3, NamesKeep
<1>5. TrueNames(handle.pairs, handle.calls)'
    BY <1>1, NamesKeep
<1> QED
    BY <1>1, <1>4, <1>5 DEF Begins

LEMMA GrowKeeps ==
    ASSUME StoreInv, GrowArray
    PROVE  StoreInv'
<1> DEFINE a == FirstOf(call.grow)
           size == Len(handle.pairs) + 1
           grown == [i \in 1 .. size |-> IF i <= Len(slices[a]) THEN slices[a][i] ELSE 0]
<1>1. call # NoCall /\ call.grow # {}
    BY NoCallFacts DEF GrowArray
<1>2. StoreTypes /\ Underway /\ handle.open /\ TrueNames(handle.pairs, handle.calls)
    BY <1>1 DEF StoreInv, Underway
<1>3. a \in call.grow /\ a \in present /\ a \in Arrays
    BY <1>1, <1>2, FirstIsThere DEF Underway, StoreTypes
<1>4. Len(handle.pairs) \in Nat /\ size \in Nat /\ slices[a] \in Seq(Nat)
    BY <1>2, <1>3 DEF TrueNames, StoreTypes
<1>5. grown \in Seq(Nat) /\ Len(grown) = size
    <2>1. \A i \in 1 .. size : i <= Len(slices[a]) => slices[a][i] \in Nat
        BY <1>4
    <2>2. grown \in [1 .. size -> Nat]
        BY <2>1, <1>4
    <2> HIDE DEF grown, size, a
    <2> QED
        BY <2>2, <1>4, FunctionIsSequence
<1>6. /\ UNCHANGED <<present, attrs, appends, origin, creates, view>>
      /\ slices' = [slices EXCEPT ![a] = grown]
      /\ handle' = [handle EXCEPT !.capacity = IF call.grow = {a} THEN size ELSE @]
      /\ call' = [call EXCEPT !.grow = @ \ {a}]
    BY DEF GrowArray
<1>7. \A i \in 1 .. size : i <= Len(slices[a]) => grown[i] = slices[a][i]
    BY <1>4
<1> HIDE DEF grown, a
<1>8. /\ slices' \in [Arrays -> Seq(Nat)] /\ slices'[a] = grown
      /\ \A b \in Arrays : b # a => slices'[b] = slices[b]
    BY <1>2, <1>3, <1>5, <1>6 DEF StoreTypes
<1>9. /\ handle'.open = handle.open /\ handle'.pairs = handle.pairs
      /\ handle'.calls = handle.calls
      /\ handle' \in [open : BOOLEAN, pairs : Seq(Keys), calls : Seq(Nat), capacity : Nat]
    BY <1>2, <1>4, <1>6 DEF StoreTypes
<1>10. /\ call' \in [n : Nat, key : Keys \union {"none"}, brings : SUBSET Arrays,
                     grow : SUBSET Arrays, left : SUBSET Arrays]
       /\ call'.n = call.n /\ call'.key = call.key /\ call'.left = call.left
       /\ call'.grow \subseteq call.grow
    BY <1>2, <1>6 DEF StoreTypes
<1>11. StoreTypes'
    BY <1>2, <1>3, <1>6, <1>8, <1>9, <1>10 DEF StoreTypes
<1>12. SlicesKept(size) /\ SlicesKept(Len(handle.pairs))
    <2>1. SlicesKept(size)
        <3> SUFFICES ASSUME NEW b \in Arrays, NEW i \in 1 .. size, i \in 1 .. Len(slices[b])
                     PROVE  i \in 1 .. Len(slices'[b]) /\ slices'[b][i] = slices[b][i]
            BY DEF SlicesKept
        <3>1. CASE b = a
            BY <3>1, <1>4, <1>5, <1>7, <1>8
        <3>2. CASE b # a
            BY <3>2, <1>8
        <3> QED
            BY <3>1, <3>2
    <2> QED
        BY <2>1, <1>4 DEF SlicesKept
<1>13. CallsKept
    BY <1>2, <1>6 DEF CallsKept, StoreTypes
<1>14. /\ TrueNames(attrs, origin)' /\ TrueNames(handle.pairs, handle.calls)'
       /\ Begins(attrs, handle.pairs)'
    BY <1>2, <1>6, <1>9, <1>12, <1>13, NamesKeepBoth
<1>15. Underway'
    <2>1. OwnArrays(call.n)' = OwnArrays(call.n)
        BY <1>6, <1>10 DEF OwnArrays
    <2>2. OwnArrays(call.n) \subseteq Arrays
        BY <1>2, OwnAreArrays DEF Underway
    <2>3. ASSUME NEW b \in OwnArrays(call.n) \ call.left
          PROVE  size \in 1 .. Len(slices'[b]) /\ slices'[b][size] = call.n
        <3>1. b \in Arrays /\ size \in 1 .. Len(slices[b]) /\ slices[b][size] = call.n
            BY <1>2, <2>2 DEF Underway
        <3> QED
            BY <3>1, <1>4, <1>12 DEF SlicesKept
    <2>4. \A b \in OwnArrays(call.n)' \ call'.left :
             /\ Len(handle'.pairs) + 1 \in 1 .. Len(slices'[b])
             /\ slices'[b][Len(handle'.pairs) + 1] = call'.n
        BY <2>1, <2>3, <1>9, <1>10
    <2>5. /\ handle'.open
          /\ call'.n \in DOMAIN appends' /\ appends'[call'.n].key = call'.key
          /\ call'.key \in Keys /\ call'.key \notin KnownKeys(handle'.pairs)
          /\ call'.grow \subseteq present' /\ call'.left \subseteq Arrays
        BY <1>2, <1>6, <1>9, <1>10 DEF Underway
    <2> QED
        BY <2>4, <2>5 DEF Underway, KnownKeys
<1> QED
    BY <1>6, <1>11, <1>14, <1>15 DEF StoreInv, Reading, Begins

LEMMA WriteKeeps ==
    ASSUME StoreInv, WriteSlice
    PROVE  StoreInv'
<1> DEFINE a == FirstOf(call.left)
           i == Len(handle.pairs) + 1
           full == IF a \in present THEN slices[a] ELSE [k \in 1 .. handle.capacity |-> 0]
<1>1. call # NoCall /\ call.left # {}
    BY NoCallFacts DEF WriteSlice
<1>2. StoreTypes /\ Underway /\ handle.open /\ TrueNames(handle.pairs, handle.calls)
    BY <1>1 DEF StoreInv, Underway
<1>3. a \in call.left /\ a \in Arrays
    BY <1>1, <1>2, FirstIsThere DEF Underway
<1>4. Len(handle.pairs) \in Nat /\ i \in Nat /\ slices[a] \in Seq(Nat)
      /\ handle.capacity \in Nat /\ call.n \in Nat
    BY <1>2, <1>3 DEF TrueNames, StoreTypes
<1>5. full \in Seq(Nat)
    <2>1. [k \in 1 .. handle.capacity |-> 0] \in Seq(Nat)
        BY <1>4, FunctionIsSequence
    <2> QED
        BY <2>1, <1>4
<1>6. /\ UNCHANGED <<attrs, handle, appends, origin, creates, view>>
      /\ i <= Len(full)
      /\ slices' = [slices EXCEPT ![a] = [full EXCEPT ![i] = call.n]]
      /\ present' = present \union {a}
      /\ call' = [call EXCEPT !.left = @ \ {a}]
    BY DEF WriteSlice
<1>7. a \in present => full = slices[a]
    OBVIOUS
<1>8. a \notin present => slices[a] = << >>
    BY <1>2, <1>3 DEF StoreTypes
<1> HIDE DEF full, a
<1> DEFINE new == [full EXCEPT ![i] = call.n]
<1>9. /\ i \in 1 .. Len(full) /\ new \in Seq(Nat) /\ Len(new) = Len(full) /\ new[i] = call.n
      /\ \A k \in 1 .. Len(full) : k # i => new[k] = full[k]
    <2>1. i \in 1 .. Len(full)
        BY <1>4, <1>5, <1>6
    <2> HIDE DEF i
    <2> QED
        BY <2>1, <1>4, <1>5, ExceptSeq
<1> HIDE DEF new
<1>10. /\ slices' \in [Arrays -> Seq(Nat)] /\ slices'[a] = new
       /\ \A b \in Arrays : b # a => slices'[b] = slices[b]
    BY <1>2, <1>3, <1>6, <1>9 DEF StoreTypes, new
<1>11. /\ call' \in [n : Nat, key : Keys \union {"none"}, brings : SUBSET Arrays,
                     grow : SUBSET Arrays, left : SUBSET Arrays]
       /\ call'.n = call.n /\ call'.key = call.key /\ call'.left = call.left \ {a}
       /\ call'.grow = call.grow
    BY <1>2, <1>6 DEF StoreTypes
<1>12. StoreTypes'
    BY <1>2, <1>3, <1>6, <1>10, <1>11 DEF StoreTypes
<1>13. SlicesKept(Len(handle.pairs))
    <2> SUFFICES ASSUME NEW b \in Arrays, NEW k \in 1 .. Len(handle.pairs),
                        k \in 1 .. Len(slices[b])
                 PROVE  k \in 1 .. Len(slices'[b]) /\ slices'[b][k] = slices[b][k]
        BY DEF SlicesKept
    <2>1. CASE b = a /\ a \in present
        <3>1. k # i /\ full = slices[a]
            BY <2>1, <1>4, <1>7
        <3> QED
            BY <3>1, <2>1, <1>9, <1>10
    <2>2. CASE b = a /\ a \notin present
        BY <2>2, <1>8
    <2>3. CASE b # a
        BY <2>3, <1>10
    <2> QED
        BY <2>1, <2>2, <2>3
<1>14. CallsKept
    BY <1>2, <1>6 DEF CallsKept, StoreTypes
<1>15. /\ TrueNames(attrs, origin)' /\ TrueNames(handle.pairs, handle.calls)'
       /\ Begins(attrs, handle.pairs)'
    BY <1>2, <1>6, <1>13, <1>14, NamesKeepBoth
<1>16. Underway'
    <2>1. OwnArrays(call.n)' = OwnArrays(call.n)
        BY <1>6, <1>11 DEF OwnArrays
    <2>2. OwnArrays(call.n) \subseteq Arrays
        BY <1>2, OwnAreArrays DEF Underway
    <2>3. ASSUME NEW b \in OwnArrays(call.n) \ (call.left \ {a})
          PROVE  i \in 1 .. Len(slices'[b]) /\ slices'[b][i] = call.n
        <3>1. CASE b = a
            BY <3>1, <1>9, <1>10
        <3>2. CASE b # a
            <4>1. b \in Arrays /\ i \in 1 .. Len(slices[b]) /\ slices[b][i] = call.n
                BY <3>2, <1>2, <2>2 DEF Underway
            <4> QED
                BY <3>2, <4>1, <1>10
        <3> QED
            BY <3>1, <3>2
    <2>4. \A b \in OwnArrays(call.n)' \ call'.left :
             /\ Len(handle'.pairs) + 1 \in 1 .. Len(slices'[b])
             /\ slices'[b][Len(handle'.pairs) + 1] = call'.n
        BY <2>1, <2>3, <1>6, <1>11
    <2>5. /\ handle'.open
          /\ call'.n \in DOMAIN appends' /\ appends'[call'.n].key = call'.key
          /\ call'.key \in Keys /\ call'.key \notin KnownKeys(handle'.pairs)
          /\ call'.grow \subseteq present' /\ call'.left \subseteq Arrays
        BY <1>2, <1>6, <1>11 DEF Underway
    <2> QED
        BY <2>4, <2>5 DEF Underway, KnownKeys
<1> QED
    BY <1>6, <1>12, <1>15, <1>16 DEF StoreInv, Reading, Begins

\* The names with one more, whose slices are written.
LEMMA NamesGrow ==
    ASSUME StoreTypes, NEW p, NEW c, TrueNames(p, c), NEW n \in DOMAIN appends,
           NEW k \in Keys, appends[n].key = k, k \notin KnownKeys(p), OwnSlice(Len(p) + 1, n)
    PROVE  TrueNames(Append(p, k), Append(c, n)) /\ Begins(p, Append(p, k))
<1>1. /\ p \in Seq(Keys) /\ c \in Seq(DOMAIN appends) /\ Len(c) = Len(p) /\ Len(p) \in Nat
      /\ \A i, j \in 1 .. Len(p) : i # j => p[i] # p[j]
      /\ \A i \in 1 .. Len(p) : appends[c[i]].key = p[i] /\ OwnSlice(i, c[i])
      /\ DOMAIN p = 1 .. Len(p)
    BY DEF TrueNames
<1> DEFINE q == Append(p, k)
           d == Append(c, n)
           m == Len(p) + 1
<1>2. /\ q \in Seq(Keys) /\ Len(q) = m /\ q[m] = k /\ \A i \in 1 .. Len(p) : q[i] = p[i]
    BY <1>1, AppendProperties
<1>3. /\ d \in Seq(DOMAIN appends) /\ Len(d) = m /\ d[m] = n
      /\ \A i \in 1 .. Len(p) : d[i] = c[i]
    BY <1>1, AppendProperties
<1> HIDE DEF q, d
<1>4. \A i \in 1 .. m : i = m \/ i \in 1 .. Len(p)
    BY <1>1
<1>5. \A i \in 1 .. Len(p) : p[i] # k
    BY <1>1 DEF KnownKeys
<1>6. ASSUME NEW i \in 1 .. m PROVE appends[d[i]].key = q[i] /\ OwnSlice(i, d[i])
    <2>1. CASE i = m
        BY <2>1, <1>2, <1>3
    <2>2. CASE i \in 1 .. Len(p)
        <3>1. q[i] = p[i] /\ d[i] = c[i]
            BY <2>2, <1>2, <1>3
        <3> QED
            BY <3>1, <2>2, <1>1
    <2> QED
        BY <2>1, <2>2, <1>4
<1>7. ASSUME NEW i \in 1 .. m, NEW j \in 1 .. m, i # j PROVE q[i] # q[j]
    <2>1. CASE i = m
        BY <2>1, <1>2, <1>4, <1>5, <1>7
    <2>2. CASE j = m
        BY <2>2, <1>2, <1>4, <1>5, <1>7
    <2>3. CASE i # m /\ j # m
        BY <2>3, <1>1, <1>2, <1>4, <1>7
    <2> QED
        BY <2>1, <2>2, <2>3
<1>8. TrueNames(q, d)
    BY <1>2, <1>3, <1>6, <1>7 DEF TrueNames
<1>9. Begins(p, q)
    BY <1>1, <1>2 DEF Begins
<1> QED
    BY <1>8, <1>9 DEF q, d

LEMMA BeginsOn ==
    ASSUME NEW S, NEW p \in Seq(S), NEW q \in Seq(S), NEW r \in Seq(S),
           Begins(p, q), Begins(q, r)
    PROVE  Begins(p, r)
<1>1. Len(p) \in Nat /\ Len(q) \in Nat /\ Len(r) \in Nat
    OBVIOUS
<1>2. \A i \in 1 .. Len(p) : i \in 1 .. Len(q) /\ p[i] = q[i] /\ q[i] = r[i]
    BY <1>1 DEF Begins
<1> QED
    BY <1>1, <1>2 DEF Begins

LEMMA NameKeeps ==
    ASSUME StoreInv, NamePair
    PROVE  StoreInv'
<1> DEFINE p == handle.pairs
           c == handle.calls
           q == Append(handle.pairs, call.key)
           d == Append(handle.calls, call.n)
<1>1. /\ StoreTypes /\ Underway /\ handle.open /\ TrueNames(p, c) /\ TrueNames(attrs, origin)
      /\ Begins(attrs, p) /\ Reading
    BY DEF StoreInv, NamePair, Underway
<1>2. /\ call.n \in DOMAIN appends /\ call.key \in Keys /\ appends[call.n].key = call.key
      /\ call.key \notin KnownKeys(p) /\ OwnSlice(Len(p) + 1, call.n)
    BY <1>1 DEF Underway, NamePair, OwnSlice
<1>3. /\ TrueNames(q, d) /\ Begins(p, q)
    BY <1>1, <1>2, NamesGrow
<1>4. /\ handle' = [handle EXCEPT !.pairs = q, !.calls = d]
      /\ call' = NoCall /\ UNCHANGED <<slices, present, appends, creates, view>>
      /\ \/ attrs' = handle'.pairs /\ origin' = handle'.calls
         \/ UNCHANGED <<attrs, origin>>
    BY DEF NamePair
<1>5. q \in Seq(Keys) /\ d \in Seq(DOMAIN appends) /\ p \in Seq(Keys) /\ attrs \in Seq(Keys)
    BY <1>1, <1>3 DEF TrueNames
<1>6. d \in Seq(Nat)
    <2>1. DOMAIN appends \subseteq Nat
        BY <1>1 DEF StoreTypes
    <2> QED
        BY <2>1, <1>5, SeqMonotonic
<1>7. Begins(attrs, q)
    BY <1>1, <1>3, <1>5, BeginsOn
<1>8. CallsKept /\ \A m : SlicesKept(m)
    BY <1>1, <1>4 DEF CallsKept, SlicesKept, StoreTypes
<1>9. Len(q) \in Nat
    BY <1>5
<1> HIDE DEF q, d
<1>10. handle'.pairs = q /\ handle'.calls = d
    BY <1>1, <1>4 DEF StoreTypes
<1>11. handle' \in [open : BOOLEAN, pairs : Seq(Keys), calls : Seq(Nat), capacity : Nat]
    BY <1>1, <1>4, <1>5, <1>6 DEF StoreTypes
<1>12. StoreTypes'
    BY <1>1, <1>4, <1>11, NoCallFacts DEF StoreTypes
<1>13. TrueNames(handle.pairs, handle.calls)'
    <2>1. \A x, y : x = q /\ y = d => TrueNames(x, y)'
        BY <1>1, <1>3, <1>8, NamesKeep
    <2> QED
        BY <2>1, <1>10
<1>14. CASE UNCHANGED <<attrs, origin>>
    <2>1. TrueNames(attrs, origin)'
        BY <1>1, <1>8, <1>14, NamesKeep
    <2>2. Begins(attrs, handle.pairs)' /\ Reading'
        BY <1>1, <1>4, <1>7, <1>10, <1>14 DEF Begins, Reading
    <2> QED
        BY <2>1, <2>2, <1>4, <1>12, <1>13 DEF StoreInv
<1>15. CASE attrs' = handle'.pairs /\ origin' = handle'.calls
    <2>1. TrueNames(attrs, origin)'
        BY <1>13, <1>15
    <2>2. Begins(attrs, handle.pairs)'
        BY <1>9, <1>10, <1>15 DEF Begins
    <2>3. view.open => Begins(view.pairs, q)
        BY <1>1, <1>5, <1>7, BeginsOn DEF Reading
    <2>4. Reading'
        BY <2>3, <1>1, <1>4, <1>10, <1>15 DEF Begins, Reading
    <2> QED
        BY <2>1, <2>2, <2>4, <1>4, <1>12, <1>13 DEF StoreInv
<1> QED
    BY <1>4, <1>14, <1>15

LEMMA StoreFailKeeps ==
    ASSUME StoreInv, AppendFails
    PROVE  StoreInv'
<1>1. /\ call' = NoCall
      /\ UNCHANGED <<slices, present, attrs, handle, appends, origin, creates, view>>
    BY DEF AppendFails
<1>2. CallsKept /\ \A m : SlicesKept(m)
    BY <1>1 DEF CallsKept, SlicesKept, StoreInv, StoreTypes
<1>3. StoreTypes'
    BY <1>1, NoCallFacts DEF StoreTypes, StoreInv
<1>4. TrueNames(attrs, origin)' /\ (handle.open => TrueNames(handle.pairs, handle.calls)')
    BY <1>1, <1>2, NamesKeep DEF StoreInv
<1> QED
    BY <1>1, <1>3, <1>4 DEF StoreInv, Reading, Begins

LEMMA DeathKeeps ==
    ASSUME StoreInv, WriterDies
    PROVE  StoreInv'
<1>1. /\ call' = NoCall /\ handle' = NoHandle
      /\ UNCHANGED <<slices, present, attrs, appends, origin, creates, view>>
    BY DEF WriterDies
<1>2. CallsKept /\ \A m : SlicesKept(m)
    BY <1>1 DEF CallsKept, SlicesKept, StoreInv, StoreTypes
<1>3. StoreTypes'
    BY <1>1, NoCallFacts DEF StoreTypes, StoreInv, NoHandle
<1>4. TrueNames(attrs, origin)'
    BY <1>1, <1>2, NamesKeep DEF StoreInv
<1> QED
    BY <1>1, <1>3, <1>4 DEF StoreInv, Reading, Begins, NoHandle

LEMMA ReaderKeeps ==
    ASSUME StoreInv, OpenReader
    PROVE  StoreInv'
<1>1. /\ view' = [open |-> TRUE, pairs |-> attrs]
      /\ UNCHANGED <<slices, present, attrs, handle, call, appends, origin, creates>>
    BY DEF OpenReader
<1>2. CallsKept /\ \A m : SlicesKept(m)
    BY <1>1 DEF CallsKept, SlicesKept, StoreInv, StoreTypes
<1>3. StoreTypes'
    BY <1>1 DEF StoreTypes, StoreInv
<1>4. TrueNames(attrs, origin)' /\ (handle.open => TrueNames(handle.pairs, handle.calls)')
    BY <1>1, <1>2, NamesKeep DEF StoreInv
<1>5. Reading'
    BY <1>1 DEF StoreInv, TrueNames, Reading, Begins
<1>6. call # NoCall => Underway'
    BY <1>1 DEF StoreInv, Underway, OwnArrays, KnownKeys
<1> QED
    BY <1>1, <1>3, <1>4, <1>5, <1>6 DEF StoreInv, Begins

LEMMA StoreStep == StoreInv /\ [StoreNext]_storevars => StoreInv'
<1> SUFFICES ASSUME StoreInv, [StoreNext]_storevars PROVE StoreInv'
    OBVIOUS
<1>1. CASE \E s \in Stacks : Create(s)
    BY <1>1, CreateKeeps
<1>2. CASE \E k \in Keys, brings \in Extras : AppendPair(k, brings)
    BY <1>2, AppendKeeps
<1>3. CASE UNCHANGED storevars
    <2>1. StoreTypes' /\ Reading'
        BY <1>3 DEF storevars, StoreInv, StoreTypes, Reading, Begins
    <2>2. TrueNames(attrs, origin)' /\ (handle.open => TrueNames(handle.pairs, handle.calls)')
        BY <1>3 DEF storevars, StoreInv, TrueNames, OwnSlice, OwnArrays
    <2> QED
        BY <2>1, <2>2, <1>3
        DEF storevars, StoreInv, Underway, OwnArrays, KnownKeys, Begins
<1> QED
    BY <1>1, <1>2, <1>3, OpenKeeps, GrowKeeps, WriteKeeps, NameKeeps, StoreFailKeeps, DeathKeeps,
       ReaderKeeps
    DEF StoreNext

LEMMA StoreSays == StoreInv => SlicesAreTheirOwn
<1> SUFFICES ASSUME StoreInv PROVE SlicesAreTheirOwn
    OBVIOUS
<1>1. /\ TrueNames(attrs, origin) /\ Reading /\ attrs \in Seq(Keys)
      /\ DOMAIN attrs = 1 .. Len(attrs) /\ Len(attrs) \in Nat
    BY DEF StoreInv, TrueNames
<1>2. ASSUME view.open PROVE view.pairs = SubSeq(attrs, 1, Len(view.pairs))
    <2>1. view.pairs \in Seq(Keys) /\ Begins(view.pairs, attrs) /\ Len(view.pairs) \in Nat
        BY <1>1, <1>2 DEF Reading
    <2> DEFINE n == Len(view.pairs)
               sub == SubSeq(attrs, 1, n)
    <2>2. \A i \in 1 .. n : attrs[i] \in Keys /\ view.pairs[i] = attrs[i]
        BY <1>1, <2>1 DEF Begins
    <2>3. sub \in Seq(Keys) /\ Len(sub) = n /\ \A i \in 1 .. n : sub[i] = attrs[i]
        <3> HIDE DEF n
        <3>1. n \in Int /\ n >= 0
            BY <2>1 DEF n
        <3>2. /\ sub \in Seq(Keys) /\ Len(sub) = IF 1 <= n THEN n - 1 + 1 ELSE 0
              /\ \A i \in 1 .. n - 1 + 1 : sub[i] = attrs[1 + i - 1]
            BY <2>2, <3>1, SubSeqProperties
        <3> HIDE DEF sub
        <3>3. n - 1 + 1 = n /\ \A i \in 1 .. n : 1 + i - 1 = i
            BY <3>1
        <3> QED
            BY <3>1, <3>2, <3>3
    <2> HIDE DEF sub
    <2>4. sub = view.pairs
        BY <2>1, <2>2, <2>3, SeqEqual
    <2> QED
        BY <2>4 DEF sub
<1> QED
    BY <1>1, <1>2 DEF SlicesAreTheirOwn, TrueNames, OwnSlice, OwnArrays

\* Every name in the store is followed, in every array its call brought, by the
\* slice of that call, whatever calls failed or died on the way, for any keys and
\* arrays (io/zarr_store.py, append and its helpers).
THEOREM SlicesAreTheirOwnHolds == StoreSpec => []SlicesAreTheirOwn
BY StoreStarts, StoreStep, StoreSays, PTL DEF StoreSpec

-----------------------------------------------------------------------------
(* The form of the dock: what is saved is what the commands use.            *)
(*                                                                          *)
(* A section of the file is there when one of its keys is (WellFormed), so that*)
(* reading the form back, dropping the blank keys and filling in the defaults*)
(* gives what the form showed.                                              *)

\* A section is there when one of its keys is; no key is blank.
WellFormed(c) ==
    /\ (c["gnss"] # Unset) <=> Filled(c)
    /\ \A f \in Fields : c[f] # Blank

FormInv ==
    /\ DOMAIN configs = Files /\ \A p \in Files : WellFormed(configs[p])
    /\ DOMAIN form = Fields /\ \A f \in Fields : form[f] # Unset
    /\ path = Blank \/ path \in Files
    /\ init.file \in Files \union {Blank}
    /\ init \in [file : Files \union {Blank}, written : BOOLEAN]
    /\ init.written => init.file \in Files
    /\ synced # "no" => path \in Files
    /\ SavedIsUsed

LEMMA KeysAre ==
    /\ Fields \subseteq ConfigKeys \ {"gnss"} /\ GnssFields \subseteq Fields
    /\ Checkboxes \subseteq Fields /\ "gnss" \in ConfigKeys /\ "overlap" \in ConfigKeys
    /\ Fields = {"aoi", "looks", "esd", "tiles", "source", "gpath"}
    /\ GnssFields = {"source", "gpath"} /\ Checkboxes = {"esd"}
    /\ "overlap" \notin Fields /\ "gnss" \notin Fields
BY DEF Fields, ConfigKeys, GnssFields, Checkboxes

LEMMA WordsAre ==
    /\ Blank # Unset /\ "there" # Unset /\ "here" # Unset /\ "no file" # Unset
    /\ "auto" # Unset /\ "2x2" # Unset /\ "true" # Unset /\ "false" # Unset
    /\ "there" # Blank /\ "here" # Blank /\ "no file" # Blank /\ "auto" # Blank
    /\ "2x2" # Blank /\ "true" # Blank /\ "false" # Blank
BY DEF Blank, Unset

LEMMA KnownFiles == WellFormed(Example) /\ WellFormed(HandWritten) /\ WellFormed(NoFile)
<1>1. WellFormed(NoFile)
    <2>1. \A k \in Fields \union {"gnss"} : NoFile[k] = "no file"
        BY KeysAre DEF NoFile
    <2>2. Filled(NoFile)
        BY <2>1, KeysAre, WordsAre DEF Filled
    <2> QED
        BY <2>1, <2>2, WordsAre DEF WellFormed
<1>2. /\ DOMAIN Nothing = ConfigKeys /\ \A k \in ConfigKeys : Nothing[k] = Unset
    BY DEF Nothing
<1>3. /\ DOMAIN Example = ConfigKeys
      /\ Example["aoi"] = "here" /\ Example["looks"] = "auto" /\ Example["tiles"] = "auto"
      /\ \A k \in ConfigKeys \ {"aoi", "looks", "tiles"} : Example[k] = Unset
    BY <1>2, KeysAre DEF Example
<1>4. WellFormed(Example)
    <2>1. \A f \in Fields : Example[f] # Blank
        BY <1>3, KeysAre, WordsAre
    <2>2. ~Filled(Example) /\ Example["gnss"] = Unset
        BY <1>3, KeysAre DEF Filled
    <2> QED
        BY <2>1, <2>2 DEF WellFormed
<1>5. /\ HandWritten["gnss"] = "there" /\ HandWritten["gpath"] = "here"
      /\ HandWritten["tiles"] = "2x2" /\ HandWritten["esd"] = "true"
      /\ \A k \in {"aoi", "looks", "source"} : HandWritten[k] = Example[k]
    BY <1>3, KeysAre DEF HandWritten, ConfigKeys, Fields
<1>6. WellFormed(HandWritten)
    <2>1. HandWritten["aoi"] = "here" /\ HandWritten["looks"] = "auto"
          /\ HandWritten["source"] = Unset
        BY <1>3, <1>5, KeysAre
    <2>2. \A f \in Fields : HandWritten[f] # Blank
        BY <2>1, <1>5, KeysAre, WordsAre
    <2>3. Filled(HandWritten)
        BY <1>5, KeysAre, WordsAre DEF Filled
    <2> QED
        BY <2>2, <2>3, <1>5, WordsAre DEF WellFormed
<1> QED
    BY <1>1, <1>4, <1>6

LEMMA FormattedIs ==
    ASSUME NEW c, WellFormed(c)
    PROVE  /\ DOMAIN Formatted(c) = Fields
           /\ \A f \in Fields : Formatted(c)[f] # Unset
           /\ \A f \in Fields : (Formatted(c)[f] = Blank) <=> (c[f] = Unset /\ f \notin Checkboxes)
           /\ \A f \in Fields : c[f] # Unset => Formatted(c)[f] = c[f]
<1>1. DOMAIN Formatted(c) = Fields
    BY DEF Formatted
<1>2. ASSUME NEW f \in Fields
      PROVE  Formatted(c)[f] = IF c[f] # Unset THEN c[f]
                               ELSE IF f \in Checkboxes THEN "false" ELSE Blank
    BY DEF Formatted
<1>3. \A f \in Fields : c[f] # Blank
    BY DEF WellFormed
<1> QED
    BY <1>1, <1>2, <1>3, WordsAre

\* What a run makes of a well-formed file, field by field.
LEMMA EffectiveIs ==
    ASSUME NEW c, WellFormed(c), NEW f \in Fields
    PROVE  Effective(c)[f] = IF f \in GnssFields /\ ~Filled(c) THEN "no gnss"
                             ELSE IF c[f] = Unset THEN Default(f) ELSE c[f]
<1>1. f \in ConfigKeys \ {"gnss"} /\ f # "overlap"
    BY KeysAre
<1> QED
    BY <1>1 DEF Effective, WellFormed

\* A form that shows a file means what a run of the file does, but for the
\* checkboxes that the file is silent about.
LEMMA ShowsMeans ==
    ASSUME FormInv, NEW c, WellFormed(c), form' = Formatted(c), NEW f \in Fields
    PROVE  Effective(c)[f] = Meant(f)' \/ (f \in Checkboxes /\ c[f] = Unset)
<1>1. \A g \in Fields : form'[g] = Blank <=> c[g] = Unset /\ g \notin Checkboxes
    BY FormattedIs
<1>2. \A g \in Fields : c[g] # Unset => form'[g] = c[g]
    BY FormattedIs
<1>3. Filled(c) <=> ~ \A g \in GnssFields : form'[g] = Blank
    BY <1>1, KeysAre DEF Filled
<1> QED
    BY <1>1, <1>2, <1>3, EffectiveIs DEF Meant

\* Applying a form that parses makes a well-formed file that means the form.
LEMMA AppliedMeans ==
    ASSUME FormInv, NEW c
    PROVE  /\ WellFormed(FormApplied(c, form))
           /\ \A f \in Fields : Effective(FormApplied(c, form))[f] = Meant(f)
<1> DEFINE d == [k \in ConfigKeys |-> IF k \in {} THEN c[k]
                           ELSE IF k \in Fields THEN Parsed(form[k])
                           ELSE IF k = "overlap" THEN Unset ELSE c[k]]
           e == FormApplied(c, form)
<1>1. e = [d EXCEPT !["gnss"] = IF Filled(d) THEN "there" ELSE Unset]
    BY DEF FormApplied, AppliedBut, Tidied
<1>2. DOMAIN d = ConfigKeys /\ \A f \in Fields : d[f] = Parsed(form[f])
    BY KeysAre
<1> HIDE DEF d
<1>3. \A f \in Fields : e[f] = Parsed(form[f])
    BY <1>1, <1>2, KeysAre
<1>4. e["gnss"] = IF Filled(d) THEN "there" ELSE Unset
    BY <1>1, <1>2, KeysAre
<1>5. Filled(e) <=> Filled(d)
    BY <1>2, <1>3, KeysAre DEF Filled
<1>6. \A f \in Fields : /\ form[f] # Unset /\ Parsed(form[f]) # Blank
                        /\ (Parsed(form[f]) = Unset) <=> (form[f] = Blank)
                        /\ form[f] # Blank => Parsed(form[f]) = form[f]
    BY WordsAre DEF FormInv, Parsed
<1> HIDE DEF e
<1>7. WellFormed(e)
    BY <1>3, <1>4, <1>5, <1>6, WordsAre DEF WellFormed
<1>8. Filled(e) <=> ~ \A g \in GnssFields : form[g] = Blank
    BY <1>3, <1>6, KeysAre DEF Filled
<1>9. ASSUME NEW f \in Fields PROVE Effective(e)[f] = Meant(f)
    <2>1. /\ (e[f] = Unset) <=> (form[f] = Blank)
          /\ form[f] # Blank => e[f] = form[f]
        BY <1>3, <1>6
    <2> QED
        BY <2>1, <1>7, <1>8, EffectiveIs DEF Meant
<1> QED
    BY <1>7, <1>9 DEF e

LEMMA FormStarts == FormInit => FormInv
<1> SUFFICES ASSUME FormInit PROVE FormInv
    OBVIOUS
<1>1. DOMAIN configs = Files /\ \A p \in Files : configs[p] \in {NoFile, HandWritten}
    BY DEF FormInit
<1>2. form = Formatted(Nothing) /\ Nothing["gnss"] = Unset /\ \A f \in Fields : Nothing[f] = Unset
    BY KeysAre DEF FormInit, Nothing
<1>3. WellFormed(Nothing)
    BY <1>2, KeysAre, WordsAre DEF WellFormed, Filled
<1>4. init \in [file : Files \union {Blank}, written : BOOLEAN] /\ ~init.written
    BY DEF FormInit, NoInit
<1>5. \A p \in Files : WellFormed(configs[p])
    BY <1>1, KnownFiles
<1>6. DOMAIN form = Fields /\ \A f \in Fields : form[f] # Unset
    BY <1>2, <1>3, FormattedIs
<1> QED
    BY <1>1, <1>4, <1>5, <1>6 DEF FormInit, FormInv, SavedIsUsed

\* What shows a file keeps the invariant.
LEMMA ShowKeeps ==
    ASSUME FormInv, NEW p \in Files, Shows(configs[p]), path' = p, configs' = configs,
           init' \in [file : Files \union {Blank}, written : BOOLEAN],
           init'.written => init'.file \in Files
    PROVE  FormInv'
<1>1. WellFormed(configs[p]) /\ form' = Formatted(configs[p]) /\ data' = configs[p]
      /\ synced' = "load"
    BY DEF FormInv, Shows
<1>2. DOMAIN form' = Fields /\ \A f \in Fields : form'[f] # Unset
    BY <1>1, FormattedIs
<1>3. SavedIsUsed'
    <2>1. \A f \in Fields : \/ Effective(configs[p])[f] = Meant(f)'
                            \/ f \in Checkboxes /\ configs[p][f] = Unset
        BY <1>1, ShowsMeans
    <2>2. Effective(configs[path])' = Effective(configs[p]) /\ configs'[path'] = configs[p]
        BY DEF Effective
    <2> QED
        BY <1>1, <2>1, <2>2 DEF SavedIsUsed
<1> QED
    BY <1>1, <1>2, <1>3 DEF FormInv, WellFormed, Filled

LEMMA SameSays ==
    ASSUME SavedIsUsed, UNCHANGED <<data, path, form, synced>>,
           synced # "no" => configs'[path] = configs[path]
    PROVE  SavedIsUsed'
<1> SUFFICES ASSUME synced # "no" PROVE SavedIsUsed'
    BY DEF SavedIsUsed
<1>1. \A f \in Fields : Meant(f)' = Meant(f)
    BY DEF Meant
<1>2. configs'[path'] = configs[path]
    OBVIOUS
<1>3. Effective(configs[path])' = Effective(configs[path])
    BY <1>2 DEF Effective
<1> QED
    BY <1>1, <1>2, <1>3 DEF SavedIsUsed

LEMMA FormStep == FormInv /\ [FormNext]_formvars => FormInv'
<1> SUFFICES ASSUME FormInv, [FormNext]_formvars PROVE FormInv'
    OBVIOUS
<1> USE DEF FormInv
<1>1. ASSUME NEW p \in Files, TypePath(p) PROVE FormInv'
    BY <1>1 DEF TypePath, SavedIsUsed, WellFormed, Filled
<1>2. ASSUME NEW p \in Files, NewConfig(p) PROVE FormInv'
    <2>1. /\ init' \in [file : Files \union {Blank}, written : BOOLEAN] /\ ~init'.written
          /\ init'.file \in Files
        BY <1>2 DEF NewConfig
    <2>2. SavedIsUsed'
        BY <1>2, SameSays DEF NewConfig
    <2> QED
        BY <1>2, <2>1, <2>2 DEF NewConfig, WellFormed, Filled
<1>3. ASSUME NEW f \in Fields, NEW raw \in Texts(f), EditField(f, raw) PROVE FormInv'
    <2>1. raw # Unset
        BY <1>3, WordsAre DEF Texts, Unset, Blank, Malformed
    <2>2. synced' = "no" /\ form' = [form EXCEPT ![f] = raw]
          /\ UNCHANGED <<configs, path, data, init>>
        BY <1>3 DEF EditField
    <2>3. DOMAIN form' = Fields /\ \A g \in Fields : form'[g] # Unset
        BY <2>1, <2>2
    <2> QED
        BY <2>2, <2>3 DEF SavedIsUsed, WellFormed, Filled
<1>4. CASE LoadConfig
    BY <1>4, ShowKeeps DEF LoadConfig
<1>5. CASE SaveConfig
    <2>1. path \in Files /\ UNCHANGED <<path, form, init, edits>>
        BY <1>5 DEF SaveConfig
    <2>2. CASE Errors = {}
        <3>1. /\ configs' = [configs EXCEPT ![path] = FormApplied(data, form)]
              /\ data' = FormApplied(data, form) /\ synced' = "save"
            BY <1>5, <2>2 DEF SaveConfig
        <3>2. /\ WellFormed(FormApplied(data, form))
              /\ \A f \in Fields : Effective(FormApplied(data, form))[f] = Meant(f)
            BY AppliedMeans
        <3>3. configs'[path'] = FormApplied(data, form) /\ DOMAIN configs' = Files
            BY <2>1, <3>1
        <3>4. \A p \in Files : WellFormed(configs'[p])
            BY <2>1, <3>1, <3>2
        <3>5. SavedIsUsed'
            <4>1. \A f \in Fields : Meant(f)' = Meant(f)
                BY <2>1 DEF Meant
            <4>2. Effective(configs[path])' = Effective(FormApplied(data, form))
                BY <3>3 DEF Effective
            <4> QED
                BY <3>1, <3>2, <3>3, <4>1, <4>2 DEF SavedIsUsed
        <3>6. \A p \in Files : WellFormed(configs[p])'
            BY <3>4 DEF WellFormed, Filled
        <3> QED
            BY <2>1, <3>3, <3>5, <3>6
    <2>3. CASE Errors # {}
        <3>1. synced' = "no" /\ configs' = configs
            BY <1>5, <2>3 DEF SaveConfig
        <3> QED
            BY <2>1, <3>1 DEF SavedIsUsed, WellFormed, Filled
    <2> QED
        BY <2>2, <2>3
<1>6. CASE InitWrites
    <2>1. /\ ~init.written /\ configs' = [configs EXCEPT ![init.file] = Example]
          /\ init' = [init EXCEPT !.written = TRUE] /\ init # NoInit
          /\ synced' = IF init.file = path THEN "no" ELSE synced
          /\ UNCHANGED <<path, data, form, edits>>
        BY <1>6 DEF InitWrites
    <2>2. /\ DOMAIN configs' = Files
          /\ \A p \in Files : configs'[p] = IF p = init.file THEN Example ELSE configs[p]
        BY <2>1
    <2>3. \A p \in Files : WellFormed(configs[p])'
        BY <2>2, KnownFiles DEF WellFormed, Filled
    <2>4. init' \in [file : Files \union {Blank}, written : BOOLEAN] /\ init'.file \in Files
        <3>1. init = [file |-> init.file, written |-> FALSE]
            BY <2>1
        <3>2. init.file # Blank
            BY <2>1, <3>1 DEF NoInit
        <3> QED
            BY <2>1, <3>2
    <2>5. SavedIsUsed'
        <3>1. CASE init.file = path
            BY <2>1, <3>1 DEF SavedIsUsed
        <3>2. CASE init.file # path
            <4>1. synced # "no" => configs'[path] = configs[path]
                BY <2>2, <3>2
            <4> QED
                BY <2>1, <3>2, <4>1, SameSays
        <3> QED
            BY <3>1, <3>2
    <2> QED
        BY <2>1, <2>2, <2>3, <2>4, <2>5
<1>7. CASE InitDone
    <2>1. init.file \in Files /\ Shows(configs[init.file]) /\ path' = init.file
          /\ configs' = configs /\ init' = NoInit
        BY <1>7 DEF InitDone
    <2>2. init' \in [file : Files \union {Blank}, written : BOOLEAN] /\ ~init'.written
        BY <2>1 DEF NoInit
    <2> QED
        BY <2>1, <2>2, ShowKeeps
<1>8. CASE InitFails
    <2>1. init' \in [file : Files \union {Blank}, written : BOOLEAN] /\ ~init'.written
        BY <1>8 DEF InitFails, NoInit
    <2>2. SavedIsUsed'
        BY <1>8, SameSays DEF InitFails
    <2> QED
        BY <1>8, <2>1, <2>2 DEF InitFails, WellFormed, Filled
<1>9. CASE UNCHANGED formvars
    <2>1. SavedIsUsed'
        BY <1>9, SameSays DEF formvars
    <2> QED
        BY <1>9, <2>1 DEF formvars, WellFormed, Filled
<1> QED
    BY <1>1, <1>2, <1>3, <1>4, <1>5, <1>6, <1>7, <1>8, <1>9 DEF FormNext

\* After a save, the commands work with what the form shows, for any files and
\* any example (qgis dock, settings form; pipeline/config.py).
THEOREM SavedIsUsedHolds == FormSpec => []SavedIsUsed
<1>1. FormInv => SavedIsUsed
    BY DEF FormInv
<1> QED
    BY <1>1, FormStarts, FormStep, PTL DEF FormSpec

-----------------------------------------------------------------------------
(* The unwrapping stage: an answer is of its own run and pair.              *)
(*                                                                          *)
(* Directories outlive the runs, with the files of earlier ones in them.    *)
(* JobIsOwn says which of them a job has replaced at every point before it reads*)
(* them, SavedIsOwn which result is then saved.                             *)

AnyTag == [run : Nat, pair : Igrams \union {"none", "torn"}]

TileDir == [input : AnyTag, unw : AnyTag, conncomp : AnyTag, tiles : AnyTag]

\* What a job has done so far is of this run and of its own pair.
JobIsOwn(p) ==
    /\ job[p] = "inputs" => tilesdir[p].input = Tag(p)
    /\ job[p] = "ran" => /\ tilesdir[p].unw = Tag(p)
                         /\ request.tiled => tilesdir[p].tiles = Tag(p)
    /\ request.origin = "stage" => tilesdir[p].conncomp \in {None, Tag(p)}

SavedIsOwn(p) ==
    /\ job[p] \in {"done", "failed"}
    /\ IF job[p] = "failed" THEN product[p] = NoResult ELSE ResultOf(p, product[p])

UnwrapInv ==
    /\ runs \in Nat /\ request \in UnwrapCall
    /\ DOMAIN job = Igrams /\ DOMAIN partfile = Igrams
    /\ tilesdir \in [Igrams -> TileDir]
    /\ \A p \in Igrams : tilesdir[p].conncomp = None \/ tilesdir[p].conncomp.pair = p
    /\ stagepc # "idle" => ~reply.given /\ \A p \in Igrams : JobIsOwn(p)
    /\ stagepc = "jobs" => \A p \in Igrams : job[p] = "done" => ResultOf(p, partfile[p])
    /\ stagepc = "saved" => \A p \in Igrams : SavedIsOwn(p)
    /\ AnswerIsOwn

LEMMA TagsAre ==
    ASSUME runs \in Nat
    PROVE  /\ None \in AnyTag /\ Torn \in AnyTag
           /\ \A p \in Igrams : Tag(p) \in AnyTag /\ Tag(p).pair = p
BY DEF None, Torn, AnyTag, Tag

LEMMA EmptyIs ==
    /\ EmptyDir \in TileDir /\ EmptyDir.conncomp = None
BY DEF EmptyDir, TileDir, AnyTag, None

\* What a job saves of this run's phase passes for its result.
LEMMA MaskedIsResult ==
    ASSUME NEW p, NEW labels, NEW assembles \in BOOLEAN,
           labels \in {Tag(p), OneLabel} \/ (request.origin = "command" /\ labels.pair = p),
           assembles => tilesdir[p].tiles = Tag(p)
    PROVE  ResultOf(p, Masked(request, Tag(p), labels, assembles))
<1> DEFINE of == IF request.method = "identity" THEN JobMask(request)
                 ELSE AdapterMask(request) \union JobMask(request)
           res == Masked(request, Tag(p), labels, assembles)
<1>1. /\ res.phase = Tag(p) /\ res.labels = labels /\ res.assembles = assembles
      /\ res.nan = of \union {"no phase"} /\ res.zero = of
    BY DEF Masked
<1>2. JobMask(request) \subseteq of /\ "clean" \notin of
    BY DEF JobMask, AdapterMask
<1>3. request.method = "identity" /\ "low" \in of => request.lows
    BY DEF JobMask
<1>4. request.method # "identity" => "no phase" \in of
    BY DEF AdapterMask
<1> HIDE DEF of, res
<1>5. JobMask(request) \subseteq res.nan \intersect res.zero /\ "clean" \notin res.nan
    BY <1>1, <1>2
<1>6. "low" \in res.nan => request.lows \/ request.method # "identity"
    BY <1>1, <1>3
<1>7. res.nan \ res.zero \subseteq (IF request.method = "identity" THEN {"no phase"} ELSE {})
    BY <1>1, <1>4
<1> QED
    BY <1>1, <1>5, <1>6, <1>7 DEF ResultOf, ScratchDir, res

LEMMA UnwrapStarts == UnwrapStageInit => UnwrapInv
<1> SUFFICES ASSUME UnwrapStageInit PROVE UnwrapInv
    OBVIOUS
<1>1. request \in UnwrapCalls
    BY CallAssumption DEF UnwrapStageInit
<1>2. request \in UnwrapCall
    BY <1>1, CallAssumption
<1>3. ~reply.given
    BY DEF UnwrapStageInit, NoReply
<1> QED
    BY <1>2, <1>3, EmptyIs DEF UnwrapStageInit, UnwrapInv, AnswerIsOwn

LEMMA UnwrapRunKeeps ==
    ASSUME UnwrapInv, NEW r \in UnwrapCalls, RunUnwrap(r)
    PROVE  UnwrapInv'
<1> DEFINE refused == r.stack = "unreadable" \/ ~Available(r.method)
           emptied == r.origin = "stage"
<1>1. r \in UnwrapCall
    BY CallAssumption
<1>2. /\ runs' = runs + 1 /\ request' = r
      /\ stagepc' = IF refused THEN "idle" ELSE "jobs"
      /\ job' = [p \in Igrams |-> IF refused THEN "none" ELSE "queued"]
      /\ tilesdir' = [p \in Igrams |-> IF emptied THEN EmptyDir ELSE tilesdir[p]]
      /\ partfile' = [p \in Igrams |-> IF emptied THEN NoResult ELSE partfile[p]]
      /\ reply' = IF refused THEN [given |-> TRUE, ok |-> FALSE, stats |-> stats'.run]
                  ELSE NoReply
      /\ refused /\ (r.stack = "unreadable" \/ r.method # "typo") =>
            stats' = [run |-> runs', failed |-> {}, ok |-> FALSE]
    BY DEF RunUnwrap
<1> HIDE DEF refused
<1>3. runs' \in Nat /\ request' \in UnwrapCall
    BY <1>1, <1>2 DEF UnwrapInv
<1>4. /\ DOMAIN job' = Igrams /\ DOMAIN partfile' = Igrams
      /\ tilesdir' \in [Igrams -> TileDir]
    BY <1>2, EmptyIs DEF UnwrapInv
<1>5. \A p \in Igrams : tilesdir'[p].conncomp = None \/ tilesdir'[p].conncomp.pair = p
    BY <1>2, EmptyIs DEF UnwrapInv
<1>6. stagepc' # "idle" => ~reply'.given /\ \A p \in Igrams : JobIsOwn(p)'
    <2> SUFFICES ASSUME stagepc' # "idle" PROVE ~reply'.given /\ \A p \in Igrams : JobIsOwn(p)'
        OBVIOUS
    <2>1. ~refused /\ ~reply'.given
        BY <1>2 DEF NoReply
    <2>2. \A p \in Igrams : job'[p] = "queued"
        BY <1>2, <2>1
    <2>3. \A p \in Igrams : request'.origin = "stage" => tilesdir'[p].conncomp = None
        BY <1>2, EmptyIs
    <2> QED
        BY <2>1, <2>2, <2>3 DEF JobIsOwn
<1>7. stagepc' # "saved" /\ \A p \in Igrams : job'[p] # "done"
    BY <1>2
<1>8. AnswerIsOwn'
    <2> SUFFICES ASSUME reply'.given PROVE AnswerIsOwn'
        BY DEF AnswerIsOwn
    <2>1. refused /\ ~reply'.ok /\ reply'.stats = stats'.run /\ job' = [p \in Igrams |-> "none"]
        BY <1>2 DEF NoReply
    <2>2. reply'.stats # runs' => request'.method = "typo"
        BY <1>2, <2>1
    <2> QED
        BY <2>1, <2>2 DEF AnswerIsOwn
<1> QED
    BY <1>3, <1>4, <1>5, <1>6, <1>7, <1>8 DEF UnwrapInv

\* The rules for a step of one job: what the others have stays as it was.
LEMMA ResultStays ==
    ASSUME NEW q, NEW res, ResultOf(q, res), UNCHANGED <<runs, request>>,
           tilesdir'[q].tiles = tilesdir[q].tiles
    PROVE  ResultOf(q, res)'
BY DEF ResultOf, Tag, JobMask, ScratchDir

LEMMA JobKeeps ==
    ASSUME UnwrapInv, NEW p \in Igrams, stagepc = "jobs",
           UNCHANGED <<runs, request, stagepc, reply>>,
           job' = [job EXCEPT ![p] = job'[p]],
           DOMAIN partfile' = Igrams,
           \A q \in Igrams : q # p => partfile'[q] = partfile[q],
           tilesdir' \in [Igrams -> TileDir],
           \A q \in Igrams : q # p => tilesdir'[q] = tilesdir[q],
           tilesdir'[p].conncomp = None \/ tilesdir'[p].conncomp.pair = p,
           JobIsOwn(p)',
           job'[p] = "done" => ResultOf(p, partfile[p])'
    PROVE  UnwrapInv'
<1>1. /\ DOMAIN job' = Igrams /\ \A q \in Igrams : q # p => job'[q] = job[q]
    BY DEF UnwrapInv
<1>2. \A q \in Igrams : tilesdir'[q].conncomp = None \/ tilesdir'[q].conncomp.pair = q
    BY DEF UnwrapInv
<1>3. ~reply'.given /\ \A q \in Igrams : JobIsOwn(q)
    BY DEF UnwrapInv
<1>4. ASSUME NEW q \in Igrams PROVE JobIsOwn(q)'
    <2>1. CASE q = p
        BY <2>1
    <2>2. CASE q # p
        BY <2>2, <1>1, <1>3 DEF JobIsOwn, Tag
    <2> QED
        BY <2>1, <2>2
<1>5. ASSUME NEW q \in Igrams, job'[q] = "done" PROVE ResultOf(q, partfile[q])'
    <2>1. CASE q = p
        BY <1>5, <2>1
    <2>2. CASE q # p
        <3>1. ResultOf(q, partfile[q]) /\ partfile'[q] = partfile[q]
              /\ tilesdir'[q].tiles = tilesdir[q].tiles
            BY <1>1, <1>5, <2>2 DEF UnwrapInv
        <3> QED
            BY <3>1, ResultStays DEF ResultOf, Tag, JobMask, ScratchDir
    <2> QED
        BY <2>1, <2>2
<1> QED
    BY <1>1, <1>2, <1>3, <1>4, <1>5 DEF UnwrapInv, AnswerIsOwn

LEMMA TakenKeeps ==
    ASSUME UnwrapInv, NEW p \in Igrams, JobTaken(p)
    PROVE  UnwrapInv'
<1>1. /\ stagepc = "jobs" /\ JobIsOwn(p) /\ DOMAIN job = Igrams /\ runs \in Nat
      /\ tilesdir \in [Igrams -> TileDir] /\ Tag(p) \in AnyTag
    BY TagsAre DEF JobTaken, UnwrapInv
<1>2. /\ UNCHANGED <<runs, request, stagepc, reply, partfile>>
      /\ job' = [job EXCEPT ![p] = "inputs"]
      /\ tilesdir' = [tilesdir EXCEPT ![p].input = Tag(p)]
    BY DEF JobTaken, ScratchDir
<1>3. job'[p] = "inputs" /\ job' = [job EXCEPT ![p] = job'[p]]
    BY <1>1, <1>2
<1>4. /\ tilesdir' \in [Igrams -> TileDir] /\ tilesdir'[p].input = Tag(p)
      /\ tilesdir'[p].conncomp = tilesdir[p].conncomp
      /\ \A q \in Igrams : q # p => tilesdir'[q] = tilesdir[q]
    BY <1>1, <1>2 DEF TileDir
<1>5. Tag(p)' = Tag(p)
    BY <1>2 DEF Tag
<1>6. JobIsOwn(p)'
    BY <1>1, <1>2, <1>3, <1>4, <1>5 DEF JobIsOwn
<1>7. tilesdir'[p].conncomp = None \/ tilesdir'[p].conncomp.pair = p
    BY <1>4 DEF UnwrapInv
<1>8. DOMAIN partfile' = Igrams /\ partfile' = partfile
    BY <1>2 DEF UnwrapInv
<1> QED
    BY <1>1, <1>2, <1>3, <1>4, <1>6, <1>7, <1>8, JobKeeps

LEMMA LibraryKeeps ==
    ASSUME UnwrapInv, NEW p \in Igrams, LibraryUnwraps(p)
    PROVE  UnwrapInv'
<1>1. /\ stagepc = "jobs" /\ JobIsOwn(p) /\ DOMAIN job = Igrams /\ DOMAIN partfile = Igrams
      /\ tilesdir \in [Igrams -> TileDir]
    BY DEF LibraryUnwraps, UnwrapInv
<1>2. /\ UNCHANGED <<runs, request, stagepc, reply, tilesdir>>
      /\ job' = [job EXCEPT ![p] = "done"]
      /\ partfile' = [partfile EXCEPT ![p] = Masked(request, Tag(p), Tag(p), FALSE)]
    BY DEF LibraryUnwraps
<1>3. job'[p] = "done" /\ job' = [job EXCEPT ![p] = job'[p]]
    BY <1>1, <1>2
<1>4. /\ DOMAIN partfile' = Igrams /\ partfile'[p] = Masked(request, Tag(p), Tag(p), FALSE)
      /\ \A q \in Igrams : q # p => partfile'[q] = partfile[q]
    BY <1>1, <1>2
<1>5. ResultOf(p, partfile'[p])
    BY <1>4, MaskedIsResult
<1>6. ResultOf(p, partfile[p])'
    BY <1>2, <1>5 DEF ResultOf, Tag, JobMask, ScratchDir
<1>7. JobIsOwn(p)'
    BY <1>1, <1>2, <1>3 DEF JobIsOwn, Tag
<1>8. tilesdir'[p].conncomp = None \/ tilesdir'[p].conncomp.pair = p
    BY <1>2 DEF UnwrapInv
<1> QED
    BY <1>1, <1>2, <1>3, <1>4, <1>6, <1>7, <1>8, JobKeeps

LEMMA RaiseKeeps ==
    ASSUME UnwrapInv, NEW p \in Igrams, JobRaises(p)
    PROVE  UnwrapInv'
<1>1. /\ stagepc = "jobs" /\ JobIsOwn(p) /\ DOMAIN job = Igrams /\ DOMAIN partfile = Igrams
      /\ tilesdir \in [Igrams -> TileDir]
    BY DEF JobRaises, UnwrapInv
<1>2. /\ UNCHANGED <<runs, request, stagepc, reply, tilesdir, partfile>>
      /\ job' = [job EXCEPT ![p] = "failed"]
    BY DEF JobRaises
<1>3. job'[p] = "failed" /\ job' = [job EXCEPT ![p] = job'[p]]
    BY <1>1, <1>2
<1>4. JobIsOwn(p)'
    BY <1>1, <1>2, <1>3 DEF JobIsOwn, Tag
<1>5. tilesdir'[p].conncomp = None \/ tilesdir'[p].conncomp.pair = p
    BY <1>2 DEF UnwrapInv
<1> QED
    BY <1>1, <1>2, <1>3, <1>4, <1>5, JobKeeps

LEMMA SnaphuKeeps ==
    ASSUME UnwrapInv, NEW p \in Igrams, NEW labelled \in BOOLEAN, SnaphuRuns(p, labelled)
    PROVE  UnwrapInv'
<1> DEFINE d == tilesdir[p]
           cc == IF labelled THEN d.input ELSE d.conncomp
           ts == IF request.tiled THEN d.input ELSE d.tiles
<1>1. /\ stagepc = "jobs" /\ JobIsOwn(p) /\ DOMAIN job = Igrams /\ DOMAIN partfile = Igrams
      /\ tilesdir \in [Igrams -> TileDir] /\ job[p] = "inputs" /\ runs \in Nat
    BY DEF SnaphuRuns, UnwrapInv
<1>2. /\ UNCHANGED <<runs, request, stagepc, reply, partfile>>
      /\ job' = [job EXCEPT ![p] = "ran"]
      /\ tilesdir' = [tilesdir EXCEPT ![p].unw = d.input,
                                      ![p].conncomp = IF labelled THEN d.input ELSE @,
                                      ![p].tiles = IF request.tiled THEN d.input ELSE @]
    BY DEF SnaphuRuns, ScratchDir
<1>3. d \in TileDir /\ d.input = Tag(p) /\ Tag(p).pair = p
    BY <1>1, TagsAre DEF JobIsOwn
<1>4. /\ tilesdir' \in [Igrams -> TileDir]
      /\ tilesdir'[p].unw = d.input /\ tilesdir'[p].conncomp = cc /\ tilesdir'[p].tiles = ts
      /\ \A q \in Igrams : q # p => tilesdir'[q] = tilesdir[q]
    BY <1>1, <1>2, <1>3 DEF TileDir
<1>5. job'[p] = "ran" /\ job' = [job EXCEPT ![p] = job'[p]]
    BY <1>1, <1>2
<1>6. JobIsOwn(p)'
    <2>1. Tag(p)' = Tag(p)
        BY <1>2 DEF Tag
    <2>2. request.origin = "stage" => cc \in {None, Tag(p)}
        BY <1>1, <1>3 DEF JobIsOwn
    <2> QED
        BY <2>1, <2>2, <1>2, <1>3, <1>4, <1>5 DEF JobIsOwn
<1>7. tilesdir'[p].conncomp = None \/ tilesdir'[p].conncomp.pair = p
    BY <1>3, <1>4 DEF UnwrapInv
<1>8. DOMAIN partfile' = Igrams /\ partfile' = partfile
    BY <1>1, <1>2
<1> QED
    BY <1>1, <1>2, <1>4, <1>5, <1>6, <1>7, <1>8, JobKeeps

LEMMA SnaphuFailKeeps ==
    ASSUME UnwrapInv, NEW p \in Igrams, SnaphuFails(p)
    PROVE  UnwrapInv'
<1>1. /\ stagepc = "jobs" /\ JobIsOwn(p) /\ DOMAIN job = Igrams /\ DOMAIN partfile = Igrams
      /\ tilesdir \in [Igrams -> TileDir] /\ runs \in Nat
    BY DEF SnaphuFails, UnwrapInv
<1>2. PICK left \in {Torn, tilesdir[p].unw} : tilesdir' = [tilesdir EXCEPT ![p].unw = left]
    BY DEF SnaphuFails, ScratchDir
<1>3. /\ UNCHANGED <<runs, request, stagepc, reply, partfile>>
      /\ job' = [job EXCEPT ![p] = "failed"]
    BY DEF SnaphuFails
<1>4. left \in AnyTag
    BY <1>1, <1>2, TagsAre DEF TileDir
<1>5. /\ tilesdir' \in [Igrams -> TileDir] /\ tilesdir'[p].conncomp = tilesdir[p].conncomp
      /\ \A q \in Igrams : q # p => tilesdir'[q] = tilesdir[q]
    BY <1>1, <1>2, <1>4 DEF TileDir
<1>6. job'[p] = "failed" /\ job' = [job EXCEPT ![p] = job'[p]]
    BY <1>1, <1>3
<1>7. JobIsOwn(p)'
    BY <1>1, <1>3, <1>5, <1>6 DEF JobIsOwn, Tag
<1>8. tilesdir'[p].conncomp = None \/ tilesdir'[p].conncomp.pair = p
    BY <1>5 DEF UnwrapInv
<1>9. DOMAIN partfile' = Igrams /\ partfile' = partfile
    BY <1>1, <1>3
<1> QED
    BY <1>1, <1>3, <1>5, <1>6, <1>7, <1>8, <1>9, JobKeeps

LEMMA ReadKeeps ==
    ASSUME UnwrapInv, NEW p \in Igrams, ReadOutputs(p)
    PROVE  UnwrapInv'
<1> DEFINE d == tilesdir[p]
           labels == IF d.conncomp = None THEN OneLabel ELSE d.conncomp
<1>1. /\ stagepc = "jobs" /\ JobIsOwn(p) /\ DOMAIN job = Igrams /\ DOMAIN partfile = Igrams
      /\ tilesdir \in [Igrams -> TileDir] /\ runs \in Nat /\ job[p] = "ran"
      /\ request.origin \in {"stage", "command"} /\ request.tiled \in BOOLEAN
    BY DEF ReadOutputs, UnwrapInv, UnwrapCall
<1>2. UNCHANGED <<runs, request, stagepc, reply, tilesdir>>
    BY DEF ReadOutputs
<1>3. d.unw = Tag(p) /\ (request.tiled => d.tiles = Tag(p))
    BY <1>1 DEF JobIsOwn
<1>4. tilesdir'[p].conncomp = None \/ tilesdir'[p].conncomp.pair = p
    BY <1>2 DEF UnwrapInv
<1>5. CASE d.unw \in {None, Torn}
    <2>1. job' = [job EXCEPT ![p] = "failed"] /\ UNCHANGED partfile
        BY <1>5 DEF ReadOutputs, ScratchDir
    <2>2. job'[p] = "failed" /\ job' = [job EXCEPT ![p] = job'[p]]
        BY <1>1, <2>1
    <2>3. JobIsOwn(p)'
        BY <1>1, <1>2, <2>2 DEF JobIsOwn, Tag
    <2> QED
        BY <1>1, <1>2, <1>4, <2>1, <2>2, <2>3, JobKeeps
<1>6. CASE d.unw \notin {None, Torn}
    <2>1. /\ job' = [job EXCEPT ![p] = "done"]
          /\ partfile' = [partfile EXCEPT ![p] =
                             Masked(request, d.unw, labels, request.tiled)]
        BY <1>6 DEF ReadOutputs, ScratchDir
    <2>2. job'[p] = "done" /\ job' = [job EXCEPT ![p] = job'[p]]
        BY <1>1, <2>1
    <2>3. /\ DOMAIN partfile' = Igrams
          /\ partfile'[p] = Masked(request, Tag(p), labels, request.tiled)
          /\ \A q \in Igrams : q # p => partfile'[q] = partfile[q]
        BY <1>1, <1>3, <2>1
    <2>4. labels \in {Tag(p), OneLabel} \/ (request.origin = "command" /\ labels.pair = p)
        BY <1>1 DEF JobIsOwn, UnwrapInv
    <2>5. ResultOf(p, partfile'[p])
        <3>1. request.tiled => tilesdir[p].tiles = Tag(p)
            BY <1>3
        <3> HIDE DEF labels
        <3>2. \A x \in BOOLEAN : x = request.tiled =>
                 ResultOf(p, Masked(request, Tag(p), labels, x))
            BY <2>4, <3>1, MaskedIsResult
        <3>3. ResultOf(p, Masked(request, Tag(p), labels, request.tiled))
            BY <3>2, <1>1
        <3> QED
            BY <3>3, <2>3 DEF labels
    <2>6. ResultOf(p, partfile[p])'
        BY <1>2, <2>5 DEF ResultOf, Tag, JobMask, ScratchDir
    <2>7. JobIsOwn(p)'
        BY <1>1, <1>2, <2>2 DEF JobIsOwn, Tag
    <2> QED
        BY <1>1, <1>2, <1>4, <2>2, <2>3, <2>6, <2>7, JobKeeps
<1> QED
    BY <1>5, <1>6

LEMMA SaveKeeps ==
    ASSUME UnwrapInv, SaveProduct
    PROVE  UnwrapInv'
<1>1. /\ stagepc = "jobs" /\ \A p \in Igrams : job[p] \in {"done", "failed"}
      /\ product' = [p \in Igrams |-> IF job[p] = "done" THEN partfile[p] ELSE NoResult]
      /\ partfile' = [p \in Igrams |-> NoResult] /\ stagepc' = "saved"
      /\ UNCHANGED <<installed, runs, request, job, tilesdir, stats, reply>>
    BY DEF SaveProduct
<1>2. ~reply.given /\ \A p \in Igrams : JobIsOwn(p)
    BY <1>1 DEF UnwrapInv
<1>3. \A p \in Igrams : JobIsOwn(p)'
    BY <1>1, <1>2 DEF JobIsOwn, Tag
<1>4. ASSUME NEW p \in Igrams PROVE SavedIsOwn(p)'
    <2>1. CASE job[p] = "done"
        <3>1. ResultOf(p, partfile[p]) /\ product'[p] = partfile[p]
            BY <1>1, <2>1 DEF UnwrapInv
        <3>2. ResultOf(p, product'[p])
            BY <3>1
        <3>3. ResultOf(p, product[p])'
            BY <1>1, <3>2 DEF ResultOf, Tag, JobMask, ScratchDir
        <3> QED
            BY <1>1, <2>1, <3>3 DEF SavedIsOwn
    <2>2. CASE job[p] = "failed"
        BY <1>1, <2>2 DEF SavedIsOwn
    <2> QED
        BY <1>1, <2>1, <2>2
<1> QED
    BY <1>1, <1>2, <1>3, <1>4 DEF UnwrapInv, AnswerIsOwn

LEMMA StatsKeep ==
    ASSUME UnwrapInv, WriteStats
    PROVE  UnwrapInv'
<1>1. /\ stagepc = "saved" /\ stats' = [run |-> runs, failed |-> Failed, ok |-> Failed = {}]
      /\ reply' = [given |-> TRUE, ok |-> Failed = {}, stats |-> runs] /\ stagepc' = "idle"
      /\ UNCHANGED <<installed, runs, request, job, tilesdir, partfile, product>>
    BY DEF WriteStats
<1>2. \A p \in Igrams : SavedIsOwn(p)
    BY <1>1 DEF UnwrapInv
<1>3. \A p \in Igrams : IF p \in stats'.failed THEN product'[p] = NoResult
                        ELSE ResultOf(p, product[p])'
    BY <1>1, <1>2 DEF SavedIsOwn, Failed, ResultOf, Tag, JobMask, ScratchDir
<1>4. AnswerIsOwn'
    BY <1>1, <1>3 DEF AnswerIsOwn
<1> QED
    BY <1>1, <1>4 DEF UnwrapInv

LEMMA UnwrapStep == UnwrapInv /\ [UnwrapStageNext]_unwrapstagevars => UnwrapInv'
<1> SUFFICES ASSUME UnwrapInv, [UnwrapStageNext]_unwrapstagevars PROVE UnwrapInv'
    OBVIOUS
<1>1. CASE UnwrapDies
    <2>1. /\ stagepc' = "idle" /\ ~reply.given
          /\ UNCHANGED <<installed, runs, request, job, tilesdir, partfile, product, stats, reply>>
        BY <1>1 DEF UnwrapDies, UnwrapInv
    <2> QED
        BY <2>1 DEF UnwrapInv, AnswerIsOwn
<1>2. CASE UNCHANGED unwrapstagevars
    <2>1. UNCHANGED <<runs, request, stagepc, job, tilesdir, partfile, product, stats, reply>>
        BY <1>2 DEF unwrapstagevars
    <2>2. \A p \in Igrams : JobIsOwn(p) => JobIsOwn(p)'
        BY <2>1 DEF JobIsOwn, Tag
    <2>3. \A p \in Igrams : SavedIsOwn(p) => SavedIsOwn(p)'
        BY <2>1 DEF SavedIsOwn, ResultOf, Tag, JobMask, ScratchDir
    <2>4. AnswerIsOwn'
        BY <2>1 DEF UnwrapInv, AnswerIsOwn, ResultOf, Tag, JobMask, ScratchDir
    <2>5. stagepc' = "jobs" => \A p \in Igrams : job'[p] = "done" => ResultOf(p, partfile[p])'
        BY <2>1 DEF UnwrapInv, ResultOf, Tag, JobMask, ScratchDir
    <2> QED
        BY <2>1, <2>2, <2>3, <2>4, <2>5 DEF UnwrapInv
<1>3. CASE \E r \in UnwrapCalls : RunUnwrap(r)
    BY <1>3, UnwrapRunKeeps
<1>4. CASE \E p \in Igrams :
              \/ JobTaken(p) \/ LibraryUnwraps(p) \/ JobRaises(p) \/ SnaphuFails(p)
              \/ ReadOutputs(p)
              \/ \E labelled \in BOOLEAN : SnaphuRuns(p, labelled)
    BY <1>4, TakenKeeps, LibraryKeeps, RaiseKeeps, SnaphuFailKeeps, ReadKeeps, SnaphuKeeps
<1> QED
    BY <1>1, <1>2, <1>3, <1>4, SaveKeeps, StatsKeep DEF UnwrapStageNext

\* What the unwrapping answers for a pair was unwrapped in this run from this
\* pair, for any set of pairs, engines and calls (unwrap/api.py, the adapters).
THEOREM AnswerIsOwnHolds == UnwrapStageSpec => []AnswerIsOwn
<1>1. UnwrapInv => AnswerIsOwn
    BY DEF UnwrapInv
<1> QED
    BY <1>1, UnwrapStarts, UnwrapStep, PTL DEF UnwrapStageSpec

-----------------------------------------------------------------------------
(* The panels of the dock: done is done, and what is shown is used.         *)
(*                                                                          *)
(* Tells is what an envelope that says ok tells of the disk.  It is true when the*)
(* process ends, and stays true while the answer is under way and shown, since no*)
(* command removes a configuration or a candidate list (FilesGrow).  The tables*)
(* show what the dock remembers (TablesShow): the row that is clicked is the row*)
(* that is used.                                                            *)

PathRec == [of : MaybeProject, what : PathKinds, run : Nat, tilde : BOOLEAN]

Endings == {"ok", "failed", "blocked", "cached"}

Payload ==
    [kind : {"none", "error", "lost", "stacks", "plan", "logs"}]
        \union [kind : {"search"}, path : PathRec]
        \union [kind : {"run"}, ended : Endings, path : PathRec]
        \union [kind : {"points"}, rows : RankedPoints]
        \union [kind : {"sites"}, rows : Sites]

Proc == [code : Nat, out : [ok : BOOLEAN, data : Payload]]

Answer ==
    [ok : BOOLEAN, data : Payload,
     error : {"none", "CANCELLED", "TIMEOUT", "INVALID_JSON", "CLI_ERROR", "CLI_NOT_FOUND"}]

Message == [cmd : Buttons \union {"idle"}, config : MaybeProject, answer : Answer]

\* What the payload of a command that did its work tells of the disk, when
\* the configurations `confs` are there and the candidates `found`.
Tells(command, project, d, confs, found) ==
    CASE command = "search" -> /\ d.kind = "search" /\ d.path.of \in Projects
                               /\ found[d.path.of] # "none"
      [] command = "run" -> d.kind = "run" /\ d.ended = "ok"
      [] command = "init" -> project \in confs
      [] command = "refpoint" -> d.kind = "points" /\ d.rows # << >>
      [] OTHER -> d.kind \notin {"none", "error"}

DockTypes ==
    /\ settings \in Settings
    /\ stored.config \in MaybeProject
    /\ configFiles \subseteq Projects
    /\ searched \in [Projects -> {"none", "empty", "some"}]
    /\ summary \in [Projects -> Payload]
    /\ jobs \in 0 .. MaxJobs /\ typings \in 0 .. MaxTypings
    /\ field \in MaybeProject /\ opened \in MaybeProject
    /\ shown.word \in {"idle", "running", "done", "failed"}

JobTypes ==
    /\ DOMAIN dockJob = {"cmd", "config", "path", "phase", "proc", "stopped", "id"}
    /\ dockJob.cmd \in Buttons \union {"idle"} /\ dockJob.config \in MaybeProject
    /\ dockJob.id \in Nat
    /\ dockJob.cmd = "init" => dockJob.config \in Projects
    /\ dockJob.phase \in {"none", "started", "exited"} /\ dockJob.proc \in Proc

InboxTypes == inbox \in Seq(Message)

Pending == Len(inbox) + (IF dockJob.phase = "none" THEN 0 ELSE 1) <= jobs

ProcTells ==
    dockJob.proc.out.ok => Tells(dockJob.cmd, dockJob.config, dockJob.proc.out.data, configFiles, searched)

InboxTells ==
    \A i \in 1 .. Len(inbox) :
        inbox[i].answer.ok =>
            Tells(inbox[i].cmd, inbox[i].config, inbox[i].answer.data, configFiles, searched)

ShownTells ==
    shown.word = "done" =>
        /\ Tells(shown.cmd, shown.config, shown.answer, configFiles, searched)
        /\ shown.cmd = "refpoint" => refpoints = shown.answer.rows

\* Every table shows what the dock remembers.
TablesShow ==
    artifacts = ArtifactRows(lastRun) /\ refpoints = lastRefpoints /\ sites = lastSites

PanelsInv ==
    /\ DockTypes /\ JobTypes /\ InboxTypes /\ Pending
    /\ ProcTells /\ InboxTells /\ ShownTells /\ TablesShow

LEMMA PathsAre ==
    /\ NoProject \in MaybeProject /\ Projects \subseteq MaybeProject
    /\ \A p \in MaybeProject, w \in PathKinds, n \in Nat :
          FilePath(p, w, n) \in PathRec /\ FilePath(p, w, n).of = p
    /\ \A f \in PathRec : MaskedPath(f) \in PathRec /\ MaskedPath(f).of = f.of
<1>1. NoProject \in MaybeProject /\ Projects \subseteq MaybeProject
    BY DEF MaybeProject
<1>2. \A p \in MaybeProject, w \in PathKinds, n \in Nat :
          FilePath(p, w, n) \in PathRec /\ FilePath(p, w, n).of = p
    BY DEF FilePath, PathRec
<1>3. \A f \in PathRec : MaskedPath(f) \in PathRec /\ MaskedPath(f).of = f.of
    BY DEF MaskedPath, PathRec
<1> QED
    BY <1>1, <1>2, <1>3

\* Masking changes no payload but in its paths.
LEMMA MaskingKeeps ==
    ASSUME NEW d \in Payload
    PROVE  /\ MaskedData(d) \in Payload /\ MaskedData(d).kind = d.kind
           /\ d.kind = "search" => MaskedData(d).path.of = d.path.of
           /\ d.kind = "run" => MaskedData(d).ended = d.ended
           /\ d.kind \in {"points", "sites"} => MaskedData(d).rows = d.rows
<1>1. CASE d \in [kind : {"none", "error", "lost", "stacks", "plan", "logs"}]
    <2>1. DOMAIN d = {"kind"}
        BY <1>1
    <2>2. MaskedData(d) = d
        BY <2>1 DEF MaskedData
    <2> QED
        BY <1>1, <2>2
<1>2. CASE d \in [kind : {"search"}, path : PathRec]
    <2>1. MaskedData(d) = [d EXCEPT !.path = MaskedPath(@)] /\ d.path \in PathRec
        BY <1>2 DEF MaskedData
    <2>2. /\ MaskedData(d) \in [kind : {"search"}, path : PathRec]
          /\ MaskedData(d).path = MaskedPath(d.path)
        BY <1>2, <2>1, PathsAre
    <2> QED
        BY <1>2, <2>1, <2>2, PathsAre DEF Payload
<1>3. CASE d \in [kind : {"run"}, ended : Endings, path : PathRec]
    <2>1. MaskedData(d) = [d EXCEPT !.path = MaskedPath(@)] /\ d.path \in PathRec
        BY <1>3 DEF MaskedData
    <2>2. /\ MaskedData(d) \in [kind : {"run"}, ended : Endings, path : PathRec]
          /\ MaskedData(d).ended = d.ended
        BY <1>3, <2>1, PathsAre
    <2> QED
        BY <1>3, <2>1, <2>2 DEF Payload
<1>4. CASE d \in [kind : {"points"}, rows : RankedPoints] \union [kind : {"sites"}, rows : Sites]
    <2>1. DOMAIN d = {"kind", "rows"}
        BY <1>4
    <2>2. MaskedData(d) = d
        BY <2>1 DEF MaskedData
    <2> QED
        BY <1>4, <2>2
<1> QED
    BY <1>1, <1>2, <1>3, <1>4 DEF Payload

LEMMA EmitIs ==
    ASSUME NEW ok \in BOOLEAN, NEW d \in Payload
    PROVE  /\ Reported(ok, d) \in Proc /\ Reported(ok, d).out.ok = ok
           /\ Reported(ok, d).out.data = MaskedData(d)
           /\ Judged(ok, d) \in Proc /\ Judged(ok, d).out.ok = ok
           /\ Judged(ok, d).out.data = MaskedData(d)
<1>1. MaskedData(d) \in Payload
    BY MaskingKeeps
<1>2. Emit(ok, d) = [ok |-> ok, data |-> MaskedData(d)]
    BY DEF Emit
<1>3. Emit(ok, d) \in [ok : BOOLEAN, data : Payload]
    BY <1>1, <1>2
<1> QED
    BY <1>2, <1>3 DEF Reported, Judged, Proc

LEMMA FailuresAre ==
    /\ NoPayload \in Payload /\ ErrorData \in Payload /\ NoEnvelope.data \in Payload
    /\ Refused \in Proc /\ ~Refused.out.ok
    /\ ActionFailed \in Proc /\ ~ActionFailed.out.ok
    /\ Unexpected \in Proc /\ ~Unexpected.out.ok
    /\ Lost(0) \in Proc /\ ~Lost(0).out.ok
<1>1. NoPayload \in Payload /\ ErrorData \in Payload /\ NoEnvelope.data \in Payload
    BY DEF NoPayload, ErrorData, NoEnvelope, Payload
<1>2. \A d \in Payload : /\ Emit(FALSE, d) \in [ok : BOOLEAN, data : Payload]
                         /\ ~Emit(FALSE, d).ok
    BY MaskingKeeps DEF Emit
<1>3. NoEnvelope \in [ok : BOOLEAN, data : Payload] /\ ~NoEnvelope.ok
    BY <1>1 DEF NoEnvelope
<1> QED
    BY <1>1, <1>2, <1>3 DEF Refused, ActionFailed, Unexpected, Lost, Proc

LEMMA FailureIs ==
    ASSUME NEW e \in {"CANCELLED", "TIMEOUT", "INVALID_JSON", "CLI_ERROR", "CLI_NOT_FOUND"}
    PROVE  Failure(e) \in Answer /\ ~Failure(e).ok
<1> DEFINE Reasons ==
        {"none", "CANCELLED", "TIMEOUT", "INVALID_JSON", "CLI_ERROR", "CLI_NOT_FOUND"}
<1>1. NoPayload \in Payload /\ e \in Reasons
    BY FailuresAre
<1> HIDE DEF Reasons
<1>2. Failure(e) = [ok |-> FALSE, data |-> NoPayload, error |-> e]
    BY DEF Failure
<1>3. Failure(e) \in [ok : BOOLEAN, data : Payload, error : Reasons] /\ ~Failure(e).ok
    BY <1>1, <1>2
<1> QED
    BY <1>3 DEF Answer, Reasons

\* The answer of a process is no better than its envelope.
LEMMA ResponseIs ==
    ASSUME NEW proc \in Proc, NEW stopped
    PROVE  /\ Response(proc, stopped) \in Answer
           /\ Response(proc, stopped).ok => /\ proc.out.ok
                                            /\ Response(proc, stopped).data = proc.out.data
<1>1. /\ Failure("CANCELLED") \in Answer /\ ~Failure("CANCELLED").ok
      /\ Failure("TIMEOUT") \in Answer /\ ~Failure("TIMEOUT").ok
      /\ Failure("INVALID_JSON") \in Answer /\ ~Failure("INVALID_JSON").ok
      /\ Failure("CLI_ERROR") \in Answer /\ ~Failure("CLI_ERROR").ok
    BY FailureIs
<1>2. proc.out.ok \in BOOLEAN /\ proc.out.data \in Payload
    BY DEF Proc
<1>3. CASE stopped = "cancelled"
    <2>1. Response(proc, stopped) = Failure("CANCELLED")
        BY <1>3 DEF Response
    <2> QED
        BY <1>1, <2>1
<1>4. CASE stopped = "timeout"
    <2>1. Response(proc, stopped) = Failure("TIMEOUT")
        BY <1>4 DEF Response
    <2> QED
        BY <1>1, <2>1
<1>5. CASE stopped = "no" /\ proc.out = NoEnvelope
    <2>1. \/ Response(proc, stopped) = Failure("INVALID_JSON")
          \/ Response(proc, stopped) = Failure("CLI_ERROR")
        BY <1>5 DEF Response
    <2> QED
        BY <1>1, <2>1
<1>6. CASE stopped \notin {"cancelled", "timeout"} /\ ~(stopped = "no" /\ proc.out = NoEnvelope)
    <2>1. Response(proc, stopped) = [ok |-> proc.out.ok, data |-> proc.out.data, error |-> "none"]
        BY <1>6 DEF Response
    <2>2. [ok |-> proc.out.ok, data |-> proc.out.data, error |-> "none"] \in Answer
        BY <1>2 DEF Answer
    <2> QED
        BY <2>1, <2>2
<1> QED
    BY <1>3, <1>4, <1>5, <1>6

\* Nothing a command told is undone: configurations and candidates stay.
FilesGrow ==
    /\ configFiles \subseteq configFiles' /\ configFiles' \subseteq Projects
    /\ searched' \in [Projects -> {"none", "empty", "some"}]
    /\ \A p \in Projects : searched[p] # "none" => searched'[p] # "none"
    /\ summary' \in [Projects -> Payload]

LEMMA TellsStays ==
    ASSUME NEW command, NEW project, NEW d, NEW confs, NEW found,
           NEW more, NEW later,
           Tells(command, project, d, confs, found), confs \subseteq more,
           \A p \in Projects : found[p] # "none" => later[p] # "none"
    PROVE  Tells(command, project, d, more, later)
BY DEF Tells

\* The process ends, and what it says is so.
LEMMA EndKeeps ==
    ASSUME PanelsInv, dockJob.phase = "started", NEW proc \in Proc, Ends(proc), FilesGrow,
           proc.out.ok => Tells(dockJob.cmd, dockJob.config, proc.out.data, configFiles', searched')
    PROVE  PanelsInv'
<1> USE DEF PanelsInv
<1>1. dockJob' = [dockJob EXCEPT !.phase = "exited", !.proc = proc]
    BY DEF Ends
<1>2. /\ DOMAIN dockJob' = DOMAIN dockJob /\ dockJob'.cmd = dockJob.cmd
      /\ dockJob'.config = dockJob.config /\ dockJob'.id = dockJob.id
      /\ dockJob'.phase = "exited" /\ dockJob'.proc = proc
    BY <1>1 DEF JobTypes
<1>3. DockTypes' /\ InboxTypes'
    BY DEF DockTypes, InboxTypes, Ends, FilesGrow, fields
<1>4. JobTypes'
    BY <1>2 DEF JobTypes
<1>5. Pending'
    BY <1>2 DEF Pending, Ends
<1>6. ProcTells'
    BY <1>2 DEF ProcTells
<1>7. InboxTells' /\ ShownTells'
    BY TellsStays DEF InboxTells, ShownTells, Ends, FilesGrow, refPanel
<1>8. TablesShow'
    BY DEF TablesShow, Ends, runPanel, refPanel, sitePanel
<1> QED
    BY <1>3, <1>4, <1>5, <1>6, <1>7, <1>8

LEMMA SameFiles ==
    ASSUME PanelsInv, UNCHANGED <<configFiles, searched>>, summary' \in [Projects -> Payload]
    PROVE  FilesGrow
BY DEF PanelsInv, DockTypes, FilesGrow

LEMMA ReportKeeps ==
    ASSUME PanelsInv, dockJob.phase = "started", UNCHANGED <<configFiles, searched>>,
           summary' \in [Projects -> Payload],
           NEW ok \in BOOLEAN, NEW d \in Payload,
           Ends(Reported(ok, d)) \/ Ends(Judged(ok, d)),
           ok => Tells(dockJob.cmd, dockJob.config, MaskedData(d), configFiles, searched)
    PROVE  PanelsInv'
BY EmitIs, EndKeeps, SameFiles

LEMMA CliFailKeeps ==
    ASSUME PanelsInv, dockJob.phase = "started", UNCHANGED files,
           Ends(Refused) \/ Ends(ActionFailed) \/ Ends(Unexpected)
    PROVE  PanelsInv'
<1>1. UNCHANGED <<configFiles, searched>> /\ summary' \in [Projects -> Payload]
    BY DEF files, PanelsInv, DockTypes
<1> QED
    BY <1>1, FailuresAre, EndKeeps, SameFiles

LEMMA InitKeeps == ASSUME PanelsInv, CliInit PROVE PanelsInv'
<1>1. /\ dockJob.phase = "started" /\ dockJob.cmd = "init" /\ dockJob.config \in Projects
      /\ Ends(Reported(TRUE, NoPayload))
      /\ configFiles' = configFiles \union {dockJob.config} /\ searched' = searched
      /\ summary' = summary
    BY DEF CliInit, CliRuns, PanelsInv, JobTypes
<1>2. FilesGrow
    BY <1>1 DEF FilesGrow, PanelsInv, DockTypes
<1>3. Reported(TRUE, NoPayload) \in Proc
    BY EmitIs, FailuresAre
<1>4. Tells("init", dockJob.config, Reported(TRUE, NoPayload).out.data, configFiles', searched')
    BY <1>1 DEF Tells
<1> QED
    BY <1>1, <1>2, <1>3, <1>4, EndKeeps

LEMMA SearchKeeps == ASSUME PanelsInv, CliSearch PROVE PanelsInv'
<1>1. dockJob.phase = "started" /\ dockJob.cmd = "search"
    BY DEF CliSearch, CliRuns
<1>2. CASE dockJob.config \notin configFiles
    BY <1>1, <1>2, CliFailKeeps DEF CliSearch, files
<1>3. CASE dockJob.config \in configFiles
    <2> DEFINE file == FilePath(dockJob.config, "candidates", 0)
               d == [kind |-> "search", path |-> file]
    <2>1. PICK n \in {"empty", "some"} : \E ok \in BOOLEAN :
            /\ Ends(Reported(ok, d))
            /\ searched' = [searched EXCEPT ![dockJob.config] = n]
            /\ configFiles' = configFiles /\ summary' = summary
        BY <1>3 DEF CliSearch
    <2>2. PICK ok \in BOOLEAN : Ends(Reported(ok, d))
        BY <2>1
    <2>3. dockJob.config \in Projects
        BY <1>3 DEF PanelsInv, DockTypes
    <2>4. FilesGrow /\ searched'[dockJob.config] = n
        BY <2>1, <2>3 DEF FilesGrow, PanelsInv, DockTypes
    <2>5. file \in PathRec /\ file.of = dockJob.config
        BY <2>3, PathsAre DEF PathKinds
    <2>6. d \in Payload /\ d.kind = "search" /\ d.path = file
        BY <2>5 DEF Payload
    <2> HIDE DEF d, file
    <2>7. Reported(ok, d) \in Proc /\ Reported(ok, d).out.data = MaskedData(d)
        BY <2>6, EmitIs
    <2>8. MaskedData(d).kind = "search" /\ MaskedData(d).path.of = dockJob.config
        BY <2>5, <2>6, MaskingKeeps
    <2>9. Tells("search", dockJob.config, Reported(ok, d).out.data, configFiles', searched')
        BY <2>1, <2>3, <2>4, <2>7, <2>8 DEF Tells
    <2> QED
        BY <1>1, <2>2, <2>4, <2>7, <2>9, EndKeeps
<1> QED
    BY <1>2, <1>3

LEMMA ReportsKeep ==
    ASSUME PanelsInv, CliPrecheck \/ CliPlan \/ CliDiagnose
    PROVE  PanelsInv'
<1>1. \A k \in {"stacks", "plan", "logs"} :
        /\ [kind |-> k] \in Payload
        /\ \A c \in {"precheck", "plan", "diagnose"} :
              Tells(c, dockJob.config, MaskedData([kind |-> k]), configFiles, searched)
    <2> TAKE k \in {"stacks", "plan", "logs"}
    <2>1. [kind |-> k] \in Payload /\ [kind |-> k].kind = k
        BY DEF Payload
    <2>2. MaskedData([kind |-> k]).kind = k
        BY <2>1, MaskingKeeps
    <2> QED
        BY <2>1, <2>2 DEF Tells
<1>2. /\ dockJob.phase = "started" /\ dockJob.cmd \in {"precheck", "plan", "diagnose"}
      /\ UNCHANGED files /\ UNCHANGED <<configFiles, searched>>
      /\ summary' \in [Projects -> Payload]
    BY DEF CliPrecheck, CliPlan, CliDiagnose, CliRuns, files, PanelsInv, DockTypes
<1>3. CASE CliPrecheck
    BY <1>1, <1>2, <1>3, CliFailKeeps, ReportKeeps DEF CliPrecheck
<1>4. CASE CliPlan
    BY <1>1, <1>2, <1>4, CliFailKeeps, ReportKeeps DEF CliPlan
<1>5. CASE CliDiagnose
    BY <1>1, <1>2, <1>5, CliFailKeeps, ReportKeeps DEF CliDiagnose
<1> QED
    BY <1>3, <1>4, <1>5

\* What a run has to tell, and leaves in its work directory.
LEMMA RunResultsAre ==
    ASSUME PanelsInv, dockJob.config \in Projects, NEW d \in RunResults(dockJob.config)
    PROVE  d \in Payload /\ d.kind = "run"
<1> DEFINE p == dockJob.config
<1>1. \A n \in EarlierRuns(p) : n \in Nat
    <2>1. summary[p] \in Payload
        BY DEF PanelsInv, DockTypes
    <2>2. summary[p].kind = "run" =>
            summary[p] \in [kind : {"run"}, ended : Endings, path : PathRec]
        BY <2>1 DEF Payload
    <2>3. summary[p].kind = "run" => summary[p].path.run \in Nat
        BY <2>2 DEF PathRec
    <2> QED
        BY <2>3 DEF EarlierRuns
<1>2. \A e \in Endings, n \in Nat : RunData(p, e, n) \in Payload /\ RunData(p, e, n).kind = "run"
    <2>1. \A n \in Nat : FilePath(p, "workdir", n) \in PathRec
        BY PathsAre DEF PathKinds
    <2> QED
        BY <2>1 DEF RunData, Payload
<1>3. dockJob.id \in Nat
    BY DEF PanelsInv, JobTypes
<1>4. PICK e \in Endings, n \in Nat : d = RunData(p, e, n)
    BY <1>1, <1>3 DEF RunResults, Endings
<1> QED
    BY <1>2, <1>4

LEMMA SummarisedKeeps ==
    ASSUME PanelsInv, dockJob.config \in Projects, NEW d \in Payload, Summarised(d)
    PROVE  UNCHANGED <<configFiles, searched>> /\ summary' \in [Projects -> Payload]
BY MaskingKeeps DEF Summarised, PanelsInv, DockTypes

LEMMA CliRunKeeps == ASSUME PanelsInv, CliRun PROVE PanelsInv'
<1>1. dockJob.phase = "started" /\ dockJob.cmd = "run"
    BY DEF CliRun, CliRuns
<1>2. CASE dockJob.config \notin configFiles
    BY <1>1, <1>2, CliFailKeeps DEF CliRun
<1>3. CASE dockJob.config \in configFiles
    <2>1. dockJob.config \in Projects
        BY <1>3 DEF PanelsInv, DockTypes
    <2>2. PICK d \in RunResults(dockJob.config) : Ends(Judged(d.ended = "ok", d)) /\ Summarised(d)
        BY <1>3 DEF CliRun
    <2>3. d \in Payload /\ d.kind = "run"
        BY <2>1, RunResultsAre
    <2>4. UNCHANGED <<configFiles, searched>> /\ summary' \in [Projects -> Payload]
        BY <2>1, <2>2, <2>3, SummarisedKeeps
    <2>5. d.ended = "ok" => Tells("run", dockJob.config, MaskedData(d), configFiles, searched)
        BY <2>3, MaskingKeeps DEF Tells
    <2>6. (d.ended = "ok") \in BOOLEAN
        OBVIOUS
    <2> QED
        BY <1>1, <2>2, <2>3, <2>4, <2>5, <2>6, ReportKeeps
<1> QED
    BY <1>2, <1>3

LEMMA TablesKeep ==
    ASSUME PanelsInv, CliRefpoint \/ CliValidate
    PROVE  PanelsInv'
<1>1. /\ dockJob.phase = "started" /\ UNCHANGED files /\ UNCHANGED <<configFiles, searched>>
      /\ summary' \in [Projects -> Payload]
    BY DEF CliRefpoint, CliValidate, CliRuns, files, PanelsInv, DockTypes
<1>2. CASE Ends(ActionFailed)
    BY <1>1, <1>2, CliFailKeeps
<1>3. CASE CliRefpoint /\ ~Ends(ActionFailed)
    <2>1. PICK ps \in RankedPoints : Ends(Reported(ps # << >>, [kind |-> "points", rows |-> ps]))
        BY <1>3 DEF CliRefpoint
    <2> DEFINE d == [kind |-> "points", rows |-> ps]
    <2>2. d \in Payload /\ d.kind = "points" /\ d.rows = ps
        BY DEF Payload
    <2>3. Ends(Reported(ps # << >>, d))
        BY <2>1
    <2> HIDE DEF d
    <2>4. MaskedData(d).kind = "points" /\ MaskedData(d).rows = ps
        BY <2>2, MaskingKeeps
    <2>5. ps # << >> => Tells("refpoint", dockJob.config, MaskedData(d), configFiles, searched)
        BY <2>4 DEF Tells
    <2>6. (ps # << >>) \in BOOLEAN /\ dockJob.cmd = "refpoint"
        BY <1>3 DEF CliRefpoint, CliRuns
    <2> QED
        BY <1>1, <2>2, <2>3, <2>5, <2>6, ReportKeeps
<1>4. CASE CliValidate /\ ~Ends(ActionFailed)
    <2>1. PICK ss \in Sites : \E ok \in BOOLEAN :
                Ends(Reported(ok, [kind |-> "sites", rows |-> ss]))
        BY <1>4 DEF CliValidate
    <2> DEFINE d == [kind |-> "sites", rows |-> ss]
    <2>2. d \in Payload /\ d.kind = "sites"
        BY DEF Payload
    <2>3. PICK ok \in BOOLEAN : Ends(Reported(ok, d))
        BY <2>1
    <2> HIDE DEF d
    <2>4. MaskedData(d).kind = "sites"
        BY <2>2, MaskingKeeps
    <2>5. dockJob.cmd = "validate" /\ Tells("validate", dockJob.config, MaskedData(d), configFiles, searched)
        BY <1>4, <2>4 DEF Tells, CliValidate, CliRuns
    <2> QED
        BY <1>1, <2>2, <2>3, <2>5, ReportKeeps
<1> QED
    BY <1>2, <1>3, <1>4

LEMMA RaisesKeeps == ASSUME PanelsInv, CliRaises PROVE PanelsInv'
BY CliFailKeeps DEF CliRaises, CliRuns, files

\* A killed process leaves what it said before.
LEMMA StopKeeps ==
    ASSUME PanelsInv, NEW why, Stop(why) PROVE PanelsInv'
<1> USE DEF PanelsInv
<1>1. UNCHANGED <<configFiles, searched, settings, stored, jobs, typings, fields, inbox, shown,
                  runPanel, refPanel, sitePanel>>
    BY DEF Stop, Summarised, files
<1>9. summary' \in [Projects -> Payload]
    <2>1. CASE UNCHANGED files
        BY <2>1 DEF files, DockTypes
    <2>2. CASE ~UNCHANGED files
        <3>1. /\ dockJob.config \in Projects
              /\ \E d \in RunResults(dockJob.config) : Summarised(d)
            BY <2>2 DEF Stop, DockTypes
        <3> QED
            BY <3>1, RunResultsAre, SummarisedKeeps
    <2> QED
        BY <2>1, <2>2
<1>2. dockJob' = [dockJob EXCEPT !.stopped = why, !.phase = "exited"]
    BY DEF Stop
<1>3. /\ DOMAIN dockJob' = DOMAIN dockJob /\ dockJob'.cmd = dockJob.cmd
      /\ dockJob'.config = dockJob.config /\ dockJob'.id = dockJob.id
      /\ dockJob'.phase = "exited" /\ dockJob'.proc = dockJob.proc
    BY <1>2 DEF JobTypes
<1>4. DockTypes' /\ InboxTypes'
    BY <1>1, <1>9 DEF DockTypes, InboxTypes, fields
<1>5. JobTypes' /\ ProcTells'
    BY <1>1, <1>3 DEF JobTypes, ProcTells
<1>6. dockJob.phase # "none"
    BY DEF Stop
<1>7. Pending'
    BY <1>1, <1>3, <1>6 DEF Pending
<1>8. InboxTells' /\ ShownTells' /\ TablesShow'
    BY <1>1 DEF InboxTells, ShownTells, TablesShow, runPanel, refPanel, sitePanel
<1> QED
    BY <1>4, <1>5, <1>7, <1>8

LEMMA RestingJob ==
    /\ NoDockJob.phase = "none" /\ NoDockJob.proc \in Proc /\ ~NoDockJob.proc.out.ok
    /\ NoDockJob.cmd = "idle" /\ NoDockJob.config \in MaybeProject /\ NoDockJob.id \in Nat
    /\ DOMAIN NoDockJob = {"cmd", "config", "path", "phase", "proc", "stopped", "id"}
BY FailuresAre, PathsAre DEF NoDockJob

\* The thread is gone, its answer under way.
LEMMA AnswerKeeps ==
    ASSUME PanelsInv, NEW a \in Answer,
           a.ok => Tells(dockJob.cmd, dockJob.config, a.data, configFiles, searched),
           dockJob.phase # "none", dockJob' = NoDockJob,
           inbox' = Append(inbox, [cmd |-> dockJob.cmd, config |-> dockJob.config, answer |-> a]),
           UNCHANGED <<settings, stored, files, jobs, typings, fields, shown, runPanel, refPanel,
                       sitePanel>>
    PROVE  PanelsInv'
<1> USE DEF PanelsInv
<1> DEFINE m == [cmd |-> dockJob.cmd, config |-> dockJob.config, answer |-> a]
<1>1. m \in Message /\ m.cmd = dockJob.cmd /\ m.config = dockJob.config /\ m.answer = a
    BY DEF Message, JobTypes
<1>2. inbox' = Append(inbox, m)
    OBVIOUS
<1> HIDE DEF m
<1>3. /\ InboxTypes' /\ Len(inbox') = Len(inbox) + 1
      /\ \A i \in 1 .. Len(inbox) : inbox'[i] = inbox[i]
      /\ inbox'[Len(inbox) + 1] = m
    BY <1>1, <1>2 DEF InboxTypes
<1>4. DockTypes' /\ JobTypes' /\ ProcTells'
    BY RestingJob DEF DockTypes, JobTypes, ProcTells, fields, files
<1>5. Pending'
    BY <1>3, RestingJob DEF Pending, InboxTypes, DockTypes
<1>6. InboxTells'
    <2> SUFFICES ASSUME NEW i \in 1 .. Len(inbox'), inbox'[i].answer.ok
                 PROVE  Tells(inbox'[i].cmd, inbox'[i].config, inbox'[i].answer.data, configFiles, searched)
        BY DEF InboxTells, files
    <2>1. CASE i = Len(inbox) + 1
        BY <1>1, <1>3, <2>1
    <2>2. CASE i # Len(inbox) + 1
        <3>1. i \in 1 .. Len(inbox)
            BY <1>3, <2>2 DEF InboxTypes
        <3> QED
            BY <1>3, <3>1 DEF InboxTells
    <2> QED
        BY <2>1, <2>2
<1>7. ShownTells' /\ TablesShow'
    BY DEF ShownTells, TablesShow, files, runPanel, refPanel, sitePanel
<1> QED
    BY <1>3, <1>4, <1>5, <1>6, <1>7

LEMMA NotFoundKeeps == ASSUME PanelsInv, NotFound PROVE PanelsInv'
BY AnswerKeeps, FailureIs DEF NotFound

LEMMA ThreadKeeps == ASSUME PanelsInv, ThreadAnswers PROVE PanelsInv'
<1>1. dockJob.proc \in Proc /\ ProcTells
    BY DEF PanelsInv, JobTypes
<1>2. /\ Response(dockJob.proc, dockJob.stopped) \in Answer
      /\ Response(dockJob.proc, dockJob.stopped).ok =>
            /\ dockJob.proc.out.ok
            /\ Response(dockJob.proc, dockJob.stopped).data = dockJob.proc.out.data
    BY <1>1, ResponseIs
<1> QED
    BY <1>1, <1>2, AnswerKeeps DEF ThreadAnswers, ProcTells

\* A button starts a job.
LEMMA StartingKeeps ==
    ASSUME PanelsInv, NEW command \in Buttons, NEW project \in MaybeProject, NEW file,
           command = "init" => project \in Projects,
           Starting(command, project, file)
    PROVE  PanelsInv'
<1> USE DEF PanelsInv
<1>1. dockJob' = [NoDockJob EXCEPT !.cmd = command, !.config = project, !.path = file,
                           !.phase = "started", !.id = jobs + 1]
    BY DEF Starting
<1>2. /\ DOMAIN dockJob' = DOMAIN NoDockJob /\ dockJob'.cmd = command
      /\ dockJob'.config = project /\ dockJob'.id = jobs + 1
      /\ dockJob'.phase = "started" /\ dockJob'.proc = NoDockJob.proc
    BY <1>1, RestingJob
<1>3. /\ jobs \in Nat /\ jobs' = jobs + 1 /\ jobs' \in 0 .. MaxJobs
      /\ dockJob.phase = "none" /\ inbox' = inbox
    BY PanelBoundAssumption DEF Starting, DockTypes
<1>4. DockTypes'
    BY <1>3 DEF DockTypes, Starting, files, fields
<1>5. JobTypes' /\ ProcTells'
    BY <1>2, <1>3, RestingJob DEF JobTypes, ProcTells
<1>6. InboxTypes' /\ Pending'
    BY <1>2, <1>3 DEF InboxTypes, Pending
<1>7. InboxTells' /\ ShownTells' /\ TablesShow'
    BY DEF InboxTells, ShownTells, TablesShow, Starting, files, runPanel, refPanel, sitePanel
<1> QED
    BY <1>4, <1>5, <1>6, <1>7

\* What the user does without the CLI.
LEMMA QuietKeeps ==
    ASSUME PanelsInv, Quiet, DockTypes', UNCHANGED refpoints, TablesShow'
    PROVE  PanelsInv'
<1> USE DEF PanelsInv, Quiet, files
<1>1. JobTypes' /\ InboxTypes' /\ Pending' /\ ProcTells' /\ InboxTells'
    BY DEF JobTypes, InboxTypes, Pending, ProcTells, InboxTells
<1>2. ShownTells'
    BY DEF ShownTells
<1> QED
    BY <1>1, <1>2

LEMMA PlaceKeeps ==
    ASSUME PanelsInv, EnvBox \/ AoiPanel \/ ConfigPanel PROVE PanelsInv'
<1> USE DEF PanelsInv
<1>1. MaybeProject = Projects \union {NoProject} /\ field \in MaybeProject
    BY DEF MaybeProject, DockTypes
<1>2. CASE SaveSettings
    <2>1. DockTypes'
        BY <1>2, InterpretersAssumption, PanelBoundAssumption
        DEF DockTypes, SaveSettings, Typing, Quiet, files, fields
    <2> QED
        BY <1>2, <2>1, QuietKeeps DEF SaveSettings, TablesShow, runPanel, refPanel, sitePanel
<1>3. CASE ClickSearch \/ ClickPrecheck \/ ClickInit
    BY <1>1, <1>3, StartingKeeps DEF ClickSearch, ClickPrecheck, ClickInit, Buttons
<1>4. ASSUME NEW p \in Projects, TypeCandidates(p) PROVE PanelsInv'
    <2>1. DockTypes'
        BY <1>4, PanelBoundAssumption DEF DockTypes, TypeCandidates, Typing, Quiet, files
    <2> QED
        BY <1>4, <2>1, QuietKeeps DEF TypeCandidates, TablesShow, runPanel, refPanel, sitePanel
<1>5. CASE OpenConfig
    <2>1. DockTypes'
        BY <1>5, PanelBoundAssumption DEF DockTypes, OpenConfig, Typing, Quiet, files
    <2> QED
        BY <1>5, <2>1, QuietKeeps DEF OpenConfig, TablesShow, runPanel, refPanel, sitePanel
<1>6. ASSUME NEW p \in MaybeProject, TypeConfig(p) PROVE PanelsInv'
    <2>1. DockTypes'
        BY <1>6, PanelBoundAssumption DEF DockTypes, TypeConfig, Typing, Quiet, files
    <2> QED
        BY <1>6, <2>1, QuietKeeps DEF TypeConfig, TablesShow, runPanel, refPanel, sitePanel
<1> QED
    BY <1>2, <1>3, <1>4, <1>5, <1>6 DEF EnvBox, AoiPanel, ConfigPanel

LEMMA ResultsKeep ==
    ASSUME PanelsInv, RunPanel \/ ResultsPanel \/ RefpointPanel \/ ValidatePanel
    PROVE  PanelsInv'
<1> USE DEF PanelsInv
<1>1. /\ MaybeProject = Projects \union {NoProject} /\ field \in MaybeProject
      /\ NoProject \in MaybeProject
    BY DEF MaybeProject, DockTypes
<1>2. CASE RunPanel \/ ClickRefpoint \/ ClickValidate
    BY <1>1, <1>2, StartingKeeps
    DEF RunPanel, ClickPlan, ClickRun, ClickDiagnose, ClickRefpoint, ClickValidate, Buttons
<1>3. ASSUME Quiet, UNCHANGED <<settings, stored, fields>>,
             Typing \/ UNCHANGED typings
      PROVE  DockTypes'
    BY <1>3, PanelBoundAssumption DEF DockTypes, Typing, Quiet, files, fields
<1>4. CASE ClickRefresh
    BY <1>3, <1>4, QuietKeeps DEF ClickRefresh, Refreshed, TablesShow, refPanel, sitePanel
<1>5. ASSUME NEW r \in {1, 2}, LoadSelected(r) PROVE PanelsInv'
    BY <1>3, <1>5, QuietKeeps DEF LoadSelected, TablesShow, refPanel, sitePanel
<1>6. CASE LoadAllRasters
    BY <1>3, <1>6, QuietKeeps DEF LoadAllRasters, TablesShow, refPanel, sitePanel
<1>7. ASSUME NEW pt, PickOnMap(pt) PROVE PanelsInv'
    BY <1>3, <1>7, QuietKeeps DEF PickOnMap, TablesShow, runPanel, sitePanel
<1>8. ASSUME NEW r \in {1, 2}, ApplyRefpoint(r) PROVE PanelsInv'
    BY <1>3, <1>8, QuietKeeps DEF ApplyRefpoint, TablesShow, runPanel, sitePanel
<1>9. ASSUME NEW r \in {1, 2}, PlotSelected(r) PROVE PanelsInv'
    BY <1>3, <1>9, QuietKeeps DEF PlotSelected, TablesShow, runPanel, refPanel
<1> QED
    BY <1>2, <1>4, <1>5, <1>6, <1>7, <1>8, <1>9 DEF ResultsPanel, RefpointPanel, ValidatePanel

\* The next answer is shown, and its table filled.
LEMMA DrainKeeps == ASSUME PanelsInv, Drain PROVE PanelsInv'
<1> USE DEF PanelsInv
<1> DEFINE m == Head(inbox)
<1>1. /\ inbox # << >> /\ inbox \in Seq(Message) /\ inbox' = Tail(inbox)
      /\ shown' = [cmd |-> m.cmd, config |-> m.config, answer |-> m.answer.data,
                    word |-> IF m.answer.ok THEN "done" ELSE "failed"]
      /\ UNCHANGED <<settings, stored, files, configFiles, searched, summary, jobs, typings, dockJob>>
    BY DEF Drain, InboxTypes, files
<1>2. /\ CASE m.cmd = "init" -> InitAnswered(m.config, m.answer)
           [] m.cmd = "search" -> SearchAnswered(m.answer)
           [] m.cmd = "run" -> RunAnswered(m.answer)
           [] m.cmd = "refpoint" -> RefpointAnswered(m.answer)
           [] m.cmd = "validate" -> ValidateAnswered(m.answer)
           [] OTHER -> OtherAnswered
    BY DEF Drain
<1>3. /\ m \in Message /\ m = inbox[1] /\ Len(inbox) \in Nat /\ Len(inbox) > 0
      /\ Tail(inbox) \in Seq(Message) /\ Len(Tail(inbox)) = Len(inbox) - 1
      /\ \A i \in 1 .. Len(Tail(inbox)) : Tail(inbox)[i] = inbox[i + 1]
    BY <1>1
<1>4. m.config \in MaybeProject /\ m.answer \in Answer /\ m.answer.data \in Payload
    BY <1>3 DEF Message, Answer
<1>5. m.answer.ok => Tells(m.cmd, m.config, m.answer.data, configFiles, searched)
    BY <1>3 DEF InboxTells
<1> HIDE DEF m
<1>6. InboxTypes' /\ InboxTells'
    <2>1. \A i \in 1 .. Len(inbox') : i + 1 \in 1 .. Len(inbox) /\ inbox'[i] = inbox[i + 1]
        BY <1>1, <1>3
    <2> QED
        BY <1>1, <1>3, <2>1 DEF InboxTypes, InboxTells
<1>7. JobTypes' /\ ProcTells' /\ Pending'
    BY <1>1, <1>3 DEF JobTypes, ProcTells, Pending, DockTypes
<1>8. field' \in MaybeProject /\ opened' \in MaybeProject
    BY <1>2, <1>4
    DEF DockTypes, InitAnswered, SearchAnswered, RunAnswered, RefpointAnswered,
        ValidateAnswered, OtherAnswered, fields
<1>9. DockTypes'
    BY <1>1, <1>8 DEF DockTypes
<1>10. TablesShow'
    BY <1>2
    DEF TablesShow, InitAnswered, SearchAnswered, RunAnswered, Refreshed, RefpointAnswered,
        ValidateAnswered, OtherAnswered, runPanel, refPanel, sitePanel
<1>11. ShownTells'
    <2>1. shown'.cmd = m.cmd /\ shown'.config = m.config /\ shown'.answer = m.answer.data
          /\ (shown'.word = "done" => m.answer.ok)
        BY <1>1
    <2>2. CASE m.cmd = "refpoint" /\ m.answer.ok
        <3>1. m.answer.data.kind = "points"
            BY <1>5, <2>2 DEF Tells
        <3>2. refpoints' = m.answer.data.rows
            BY <1>2, <2>2, <3>1 DEF RefpointAnswered, RowsOf
        <3> QED
            BY <1>1, <1>5, <2>1, <2>2, <3>2 DEF ShownTells
    <2>3. CASE ~(m.cmd = "refpoint" /\ m.answer.ok)
        BY <1>1, <1>5, <2>1, <2>3 DEF ShownTells
    <2> QED
        BY <2>2, <2>3
<1> QED
    BY <1>6, <1>7, <1>9, <1>10, <1>11

LEMMA RestartKeeps == ASSUME PanelsInv, Restart PROVE PanelsInv'
<1> USE DEF PanelsInv
<1>1. DockTypes'
    BY PanelBoundAssumption DEF DockTypes, Restart, NothingShown, Typing, files, MaybeProject
<1>2. JobTypes' /\ InboxTypes' /\ Pending' /\ ProcTells' /\ InboxTells'
    BY DEF JobTypes, InboxTypes, Pending, ProcTells, InboxTells, Restart, files
<1>3. ShownTells'
    BY DEF ShownTells, Restart, NothingShown
<1>4. TablesShow'
    BY DEF TablesShow, Restart, NewPanels, ArtifactRows, NoPayload
<1> QED
    BY <1>1, <1>2, <1>3, <1>4

LEMMA PanelsInductive ==
    /\ PanelsInit => PanelsInv
    /\ PanelsInv /\ [PanelsNext]_panelvars => PanelsInv'
<1>1. ASSUME PanelsInit PROVE PanelsInv
    <2> USE <1>1 DEF PanelsInit, NothingShown
    <2>1. DockTypes
        BY InterpretersAssumption, PanelBoundAssumption, FailuresAre DEF DockTypes, MaybeProject
    <2>2. JobTypes /\ ProcTells
        BY RestingJob DEF JobTypes, ProcTells
    <2>3. InboxTypes /\ Pending /\ InboxTells
        BY RestingJob DEF InboxTypes, Pending, InboxTells
    <2>4. ShownTells /\ TablesShow
        BY DEF ShownTells, TablesShow, ArtifactRows, NoPayload
    <2> QED
        BY <2>1, <2>2, <2>3, <2>4 DEF PanelsInv
<1>2. ASSUME PanelsInv, [PanelsNext]_panelvars PROVE PanelsInv'
    <2>1. CASE Process
        BY <1>2, <2>1, NotFoundKeeps, InitKeeps, SearchKeeps, ReportsKeep, CliRunKeeps,
           TablesKeep, RaisesKeeps, StopKeeps, ThreadKeeps
        DEF Process
    <2>2. CASE UNCHANGED panelvars
        BY <1>2, <2>2
        DEF panelvars, files, fields, runPanel, refPanel, sitePanel, PanelsInv, DockTypes,
            JobTypes, InboxTypes, Pending, ProcTells, InboxTells, ShownTells, TablesShow
    <2> QED
        BY <1>2, <2>1, <2>2, PlaceKeeps, ResultsKeep, DrainKeeps, RestartKeeps DEF PanelsNext
<1> QED
    BY <1>1, <1>2

LEMMA PanelsInvHolds == PanelsSpec => []PanelsInv
<1>1. PanelsInit => PanelsInv
    BY PanelsInductive
<1>2. PanelsInv /\ [PanelsNext]_panelvars => PanelsInv'
    BY PanelsInductive
<1> QED
    BY <1>1, <1>2, PTL DEF PanelsSpec

\* The variables of the panels have their types; no more answers are under way
\* than jobs were started (dock_widget.py).
THEOREM PanelsTypes == PanelsSpec => []PanelsTypeOK
<1>1. PanelsInv => PanelsTypeOK
    <2> SUFFICES ASSUME PanelsInv PROVE PanelsTypeOK
        OBVIOUS
    <2>1. Len(inbox) \in Nat
        BY DEF PanelsInv, InboxTypes
    <2>2. Len(inbox) <= MaxJobs
        BY <2>1, PanelBoundAssumption DEF PanelsInv, DockTypes, Pending
    <2> QED
        BY <2>2 DEF PanelsInv, DockTypes, JobTypes, PanelsTypeOK
<1> QED
    BY <1>1, PanelsInvHolds, PTL

\* The status line says "done" only of a command that did its work, for any
\* projects, points and interpreters (dock_widget.py, cli_client.py, and the
\* commands' envelopes).
THEOREM DoneIsDoneHolds == PanelsSpec => []DoneIsDone
<1>1. PanelsInv => DoneIsDone
    BY DEF PanelsInv, ShownTells, Tells, DoneIsDone
<1> QED
    BY <1>1, PanelsInvHolds, PTL

\* Load, apply and plot act on the row the user sees (dock_widget.py:1554-1575,
\* 1693-1707, 1799-1843).
THEOREM WhatIsShownIsUsedHolds == PanelsSpec => WhatIsShownIsUsed
<1> DEFINE UsesShown ==
        /\ \A file \in layers' \ layers : \E r \in DOMAIN artifacts :
            artifacts[r].raster /\ artifacts[r].path = file
        /\ reference' \notin {reference, NoPoint} =>
            reference' = picked \/ \E r \in DOMAIN refpoints : refpoints[r] = reference'
        /\ plotted' \notin {plotted, << >>} => \E r \in DOMAIN sites : plotted' = << sites[r] >>
<1>1. ASSUME PanelsInv, [PanelsNext]_panelvars PROVE [UsesShown]_panelvars
    <2> SUFFICES ASSUME PanelsNext PROVE UsesShown
        BY <1>1
    <2>1. /\ artifacts = ArtifactRows(lastRun) /\ refpoints = lastRefpoints
          /\ sites = lastSites
        BY <1>1 DEF PanelsInv, TablesShow
    <2>2. CASE UNCHANGED <<layers, reference, plotted>>
        BY <2>2
    <2>3. ASSUME NEW r \in {1, 2}, LoadSelected(r) PROVE UsesShown
        BY <2>1, <2>3 DEF LoadSelected, Layer, refPanel, sitePanel
    <2>4. CASE LoadAllRasters
        BY <2>1, <2>4 DEF LoadAllRasters, Layer, refPanel, sitePanel
    <2>5. ASSUME NEW r \in {1, 2}, ApplyRefpoint(r) PROVE UsesShown
        BY <2>1, <2>5 DEF ApplyRefpoint, runPanel, sitePanel
    <2>6. ASSUME NEW r \in {1, 2}, PlotSelected(r) PROVE UsesShown
        BY <2>1, <2>6 DEF PlotSelected, runPanel, refPanel
    <2>7. CASE Restart
        BY <2>7 DEF Restart, NewPanels
    <2>8. CASE Process
        BY <2>2, <2>8
        DEF Process, NotFound, CliInit, CliSearch, CliPrecheck, CliPlan, CliRun, CliDiagnose,
            CliRefpoint, CliValidate, CliRaises, Stop, ThreadAnswers, Ends, runPanel, refPanel,
            sitePanel
    <2>9. CASE Drain
        <3>1. UNCHANGED <<layers, reference, plotted>>
            BY <2>9
            DEF Drain, InitAnswered, SearchAnswered, RunAnswered, Refreshed, RefpointAnswered,
                ValidateAnswered, OtherAnswered, runPanel, refPanel, sitePanel
        <3> QED
            BY <2>2, <3>1
    <2>10. CASE EnvBox \/ AoiPanel \/ ConfigPanel \/ RunPanel
        BY <2>2, <2>10
        DEF EnvBox, SaveSettings, AoiPanel, ClickSearch, ClickPrecheck, TypeCandidates,
            ConfigPanel, ClickInit, OpenConfig, TypeConfig, RunPanel, ClickPlan, ClickRun,
            ClickDiagnose, Starting, runPanel, refPanel, sitePanel
    <2>11. CASE ClickRefresh \/ ClickRefpoint \/ ClickValidate \/ \E pt : PickOnMap(pt)
        BY <2>2, <2>11
        DEF ClickRefresh, Refreshed, ClickRefpoint, ClickValidate, PickOnMap, Starting,
            runPanel, refPanel, sitePanel
    <2> QED
        BY <2>3, <2>4, <2>5, <2>6, <2>7, <2>8, <2>9, <2>10, <2>11
        DEF PanelsNext, ResultsPanel, RefpointPanel, ValidatePanel
<1> QED
    BY <1>1, PanelsInvHolds, PTL DEF PanelsSpec, WhatIsShownIsUsed

-----------------------------------------------------------------------------
(* Diagnosis: a failure in a log gets into the record, and a look sees what *)
(* the record says.                                                         *)
(*                                                                          *)
(* A text gives findings of its own log only, of which none is explained by *)
(* another (TextSays).  Within an attempt logs are added and never changed, *)
(* so that a look has found what the logs it has read say (LookTells).      *)

AnyText == LogTexts \union {NoText}

AnyFinding == [rule : Ids \union {UnknownRule}, scope : LogNames]

DiagTypes ==
    /\ attempt \in Nat
    /\ logs \in [LogNames -> AnyText]
    /\ look \in [at : {"none", "reading", "done", "traceback"},
                 engine : KBEngines \union {NoEngine}, assume : BOOLEAN,
                 files : SUBSET LogNames, left : SUBSET LogNames,
                 found : SUBSET AnyFinding, since : Nat]
    /\ look.left \subseteq look.files
    /\ look.since <= attempt

RecordTells ==
    stands = "failed" =>
        /\ rec.found = DiagnoseLogs(CheckEngine(runsOn))
        /\ rec.hint = RecordedHint(rec.exc, rec.found)

\* What the logs that the look has read so far say.
SaidBy(names) == UNION { DiagnoseText(n, logs[n], look.engine, FALSE) : n \in names }

LookTells ==
    /\ look.at \in {"reading", "done"} =>
         /\ Consistent(look.found)
         /\ look.since = attempt => \A n \in look.files : logs[n] # NoText
         /\ look.since = attempt /\ ~look.assume =>
              look.found = SaidBy(look.files \ look.left)
    /\ look.at = "reading" => \A f \in look.found : f.scope \notin look.left
    /\ look.at = "done" =>
         /\ look.left = {}
         /\ look.assume /\ look.files # {} => look.found # {}

DiagInv == DiagTypes /\ RecordTells /\ LookTells

LEMMA KBEntryIs == \A e \in KB : e.id \in Ids /\ EntryOf(e.id) = e
BY KBAssumption DEF Ids, EntryOf

\* Some of the entries that hit are left, and none of them explains another.
LEMMA MatchesLeft ==
    ASSUME NEW t, NEW entries \in SUBSET KB
    PROVE  /\ MatchEntries(t, entries) \subseteq { e \in entries : e.id \in t.hits }
           /\ \A e, f \in MatchEntries(t, entries) : e.id \notin f.supersedes
           /\ (\E e \in entries : e.id \in t.hits) => MatchEntries(t, entries) # {}
<1> DEFINE hits == { e \in entries : e.id \in t.hits }
<1>1. MatchEntries(t, entries) = { e \in hits : \A f \in hits : e.id \notin f.supersedes }
    BY DEF MatchEntries
<1>2. ASSUME hits # {}
      PROVE  MatchEntries(t, entries) # {}
    <2>1. hits \in SUBSET KB
        OBVIOUS
    <2>2. PICK e \in hits : \A f \in hits : e.id \notin f.supersedes
        BY <1>2, <2>1, SupersessionAssumption
    <2> QED
        BY <1>1, <2>2
<1> QED
    BY <1>1, <1>2

LEMMA TextSays ==
    ASSUME NEW n \in LogNames, NEW t \in AnyText, NEW wanted, NEW assume \in BOOLEAN
    PROVE  LET found == DiagnoseText(n, t, wanted, assume) IN
             /\ found \in SUBSET AnyFinding
             /\ \A f \in found : f.scope = n
             /\ Consistent(found)
             /\ ShowsFailure(t) \/ assume => found # {}
<1> DEFINE eng == IF wanted # NoEngine THEN wanted ELSE DetectEngine(n, t)
           matches == MatchesFor(t, eng)
           found == DiagnoseText(n, t, wanted, assume)
<1>1. found = IF matches # {} THEN { Finding(e.id, n) : e \in matches }
              ELSE IF EventsFor(t, eng) \/ assume THEN {Finding(UnknownRule, n)} ELSE {}
    BY DEF DiagnoseText
<1>2. t.hits \subseteq Ids
    <2>1. t \in LogTexts => t.hits \subseteq Ids
        BY KBAssumption
    <2>2. NoText.hits = {}
        BY DEF NoText
    <2> QED
        BY <2>1, <2>2 DEF AnyText
<1>3. /\ matches \subseteq KB
      /\ \A e, f \in matches : e.id \notin f.supersedes
      /\ t.hits # {} => matches # {}
    <2> DEFINE own == MatchEntries(t, EntriesForEngine(eng))
               all == MatchEntries(t, KB)
    <2>1. EntriesForEngine(eng) \in SUBSET KB
        BY DEF EntriesForEngine
    <2>2. /\ own \subseteq KB
          /\ \A e, f \in own : e.id \notin f.supersedes
        BY <2>1, MatchesLeft
    <2>3. /\ all \subseteq KB
          /\ \A e, f \in all : e.id \notin f.supersedes
          /\ (\E e \in KB : e.id \in t.hits) => all # {}
        BY MatchesLeft
    <2>4. t.hits # {} => \E e \in KB : e.id \in t.hits
        BY <1>2 DEF Ids
    <2>5. matches = IF own = {} THEN all ELSE own
        BY DEF MatchesFor
    <2> HIDE DEF own, all, matches
    <2> QED
        BY <2>2, <2>3, <2>4, <2>5
<1> HIDE DEF matches, eng
<1>4. CASE matches # {}
    <2>1. found = { [rule |-> e.id, scope |-> n] : e \in matches }
        BY <1>1, <1>4 DEF Finding
    <2> HIDE DEF found
    <2>2. Consistent(found)
        <3> SUFFICES ASSUME NEW f \in found, NEW g \in found
                     PROVE  f.rule \notin EntryOf(g.rule).supersedes
            BY DEF Consistent
        <3>1. PICK d \in matches : f = [rule |-> d.id, scope |-> n]
            BY <2>1
        <3>2. PICK e \in matches : g = [rule |-> e.id, scope |-> n]
            BY <2>1
        <3>3. EntryOf(g.rule) = e
            BY <1>3, <3>2, KBEntryIs
        <3> QED
            BY <1>3, <3>1, <3>2, <3>3
    <2>3. ASSUME NEW f \in found
          PROVE  f \in AnyFinding /\ f.scope = n
        <3>1. PICK e \in matches : f = [rule |-> e.id, scope |-> n]
            BY <2>1
        <3> QED
            BY <1>3, <3>1, KBEntryIs DEF AnyFinding
    <2>4. found # {}
        BY <1>4, <2>1
    <2> QED
        BY <2>2, <2>3, <2>4 DEF found
<1>5. CASE matches = {}
    <2>1. found = IF EventsFor(t, eng) \/ assume THEN {[rule |-> UnknownRule, scope |-> n]} ELSE {}
        BY <1>1, <1>5 DEF Finding
    <2> HIDE DEF found
    <2>2. Consistent(found)
        BY <2>1 DEF Consistent
    <2>3. ShowsFailure(t) => EventsFor(t, eng)
        BY <1>3, <1>5 DEF ShowsFailure, EventsFor
    <2>4. \A f \in found : f \in AnyFinding /\ f.scope = n
        BY <2>1 DEF AnyFinding
    <2>5. ShowsFailure(t) \/ assume => found # {}
        BY <2>1, <2>3
    <2> QED
        BY <2>2, <2>4, <2>5 DEF found
<1> QED
    BY <1>4, <1>5

LEMMA DiagStarts == DiagInit => DiagInv
<1> SUFFICES ASSUME DiagInit
             PROVE  DiagInv
    OBVIOUS
<1>1. logs \in [LogNames -> AnyText]
    BY DEF DiagInit, Emptied, AnyText
<1> QED
    BY <1>1 DEF DiagInit, DiagInv, DiagTypes, RecordTells, LookTells, NoLook, NoEngine

\* The first and the last of some names are among them.
LEMMA NamesEnds ==
    ASSUME NEW names \in SUBSET LogNames, names # {}
    PROVE  Min(names) \in names /\ Max(names) \in names
<1>1. PICK n \in Nat : LogNames = 1 .. n
    BY KBAssumption, FS_CardinalityType
<1>2. PICK x \in names : \A y \in names : x <= y
    <2>1. names \in SUBSET Nat
        BY <1>1
    <2> QED
        BY <2>1, LeastOf
<1>3. PICK z \in names : \A y \in names : y <= z
    <2> DEFINE rest == { n - y : y \in names }
    <2>1. rest \in SUBSET Nat /\ rest # {}
        BY <1>1
    <2>2. PICK a \in rest : \A b \in rest : a <= b
        <3> HIDE DEF rest
        <3> QED
            BY <2>1, LeastOf
    <2>3. PICK z \in names : a = n - z
        BY <2>2
    <2>4. \A y \in names : n - z <= n - y
        BY <2>2, <2>3
    <2> QED
        BY <1>1, <2>4
<1>4. Min(names) = CHOOSE m \in names : \A y \in names : m <= y
    BY DEF Min
<1>5. Max(names) = CHOOSE m \in names : \A y \in names : m >= y
    BY DEF Max
<1>6. \A y \in names : z >= y
    BY <1>1, <1>3
<1> QED
    BY <1>2, <1>4, <1>5, <1>6

LEMMA LogsSay ==
    ASSUME logs \in [LogNames -> AnyText], NEW wanted
    PROVE  /\ DiagnoseLogs(wanted) \in SUBSET AnyFinding
           /\ Consistent(DiagnoseLogs(wanted))
           /\ \A f \in DiagnoseLogs(wanted) : logs[f.scope] # NoText
           /\ \A n \in LogNames : ShowsFailure(logs[n]) =>
                \E f \in DiagnoseLogs(wanted) : f.scope = n
<1> DEFINE said(n) == DiagnoseText(n, logs[n], wanted, FALSE)
<1>1. \A n \in LogNames : /\ said(n) \in SUBSET AnyFinding
                          /\ \A f \in said(n) : f.scope = n
                          /\ Consistent(said(n))
                          /\ ShowsFailure(logs[n]) => said(n) # {}
    BY TextSays
<1>2. DiagnoseLogs(wanted) = UNION { said(n) : n \in LogFiles }
    BY DEF DiagnoseLogs
<1>3. ~ShowsFailure(NoText)
    BY DEF ShowsFailure, NoText
<1>4. LogFiles = { n \in LogNames : logs[n] # NoText }
    BY DEF LogFiles
<1> HIDE DEF said
<1>5. Consistent(DiagnoseLogs(wanted))
    BY <1>1, <1>2, <1>4 DEF Consistent
<1> QED
    BY <1>1, <1>2, <1>3, <1>4, <1>5

\* A record and a look that hold make the property.
LEMMA DiagExplains == DiagInv => FailureIsExplained
<1> SUFFICES ASSUME DiagInv
             PROVE  FailureIsExplained
    OBVIOUS
<1> USE DEF DiagInv
<1>1. ASSUME look.at = "done", stands = "failed", look.since = attempt,
             look.files = LogFiles, ~look.assume,
             look.engine = AdvisedEngine(runsOn), AdvisedEngine(runsOn) = CheckEngine(runsOn)
      PROVE  look.found = rec.found
    BY <1>1 DEF LookTells, RecordTells, SaidBy, DiagnoseLogs
<1>2. stands = "failed" /\ rec.exc.hint = NoHint /\ rec.exc.attached = {} =>
        rec.hint = RetryHint(rec.found)
    BY DEF RecordTells, RecordedHint
<1>3. stands = "failed" =>
        /\ \A n \in LogNames : ShowsFailure(logs[n]) => \E f \in rec.found : f.scope = n
        /\ \A f \in rec.found : logs[f.scope] # NoText
        /\ Consistent(rec.found)
    BY LogsSay DEF RecordTells, DiagTypes
<1>4. look.at = "done" =>
        /\ look.assume /\ look.files # {} => look.found # {}
        /\ Consistent(look.found)
    BY DEF LookTells
<1> QED
    BY <1>1, <1>2, <1>3, <1>4 DEF FailureIsExplained

LEMMA LookRests ==
    ASSUME LookTells, UNCHANGED <<look, logs, attempt>>
    PROVE  LookTells'
<1>1. SaidBy(look.files \ look.left)' = SaidBy(look.files \ look.left)
    BY DEF SaidBy
<1> QED
    BY <1>1 DEF LookTells

LEMMA DiagStep == DiagInv /\ [DiagNext]_diagvars => DiagInv'
<1> SUFFICES ASSUME DiagInv, [DiagNext]_diagvars
             PROVE  DiagInv'
    OBVIOUS
<1> USE DEF DiagInv
<1>1. CASE TryStage
    <2>1. logs' \in [LogNames -> AnyText]
        BY <1>1 DEF TryStage, Emptied, AnyText
    <2>2. look' = look /\ attempt' = attempt + 1 /\ stands' = "running"
        BY <1>1 DEF TryStage
    <2>3. DiagTypes' /\ look'.since # attempt'
        BY <2>1, <2>2 DEF DiagTypes
    <2> QED
        BY <2>2, <2>3 DEF RecordTells, LookTells
<1>2. CASE StageSucceeds
    <2>1. stands' = "ok" /\ UNCHANGED <<runsOn, attempt, logs, rec, look>>
        BY <1>2 DEF StageSucceeds
    <2> QED
        BY <2>1, LookRests DEF RecordTells, DiagTypes
<1>3. ASSUME NEW n \in LogNames, NEW t \in LogTexts, WriteLog(n, t)
      PROVE  DiagInv'
    <2>1. /\ look' = look /\ attempt' = attempt /\ stands' = "running" /\ logs[n] = NoText
          /\ logs' = [logs EXCEPT ![n] = t]
        BY <1>3 DEF WriteLog
    <2>2. DiagTypes'
        BY <2>1 DEF DiagTypes, AnyText
    <2>3. \A m \in LogNames : logs[m] # NoText => logs'[m] = logs[m]
        BY <2>1 DEF DiagTypes
    <2>4. ASSUME look.at \in {"reading", "done"}, look.since = attempt
          PROVE  \A m \in look.files : logs'[m] = logs[m] /\ logs'[m] # NoText
        BY <2>3, <2>4 DEF LookTells, DiagTypes
    <2>5. ASSUME look.at \in {"reading", "done"}, look.since = attempt
          PROVE  SaidBy(look.files \ look.left)' = SaidBy(look.files \ look.left)
        BY <2>1, <2>4, <2>5 DEF SaidBy
    <2>6. LookTells'
        BY <2>1, <2>4, <2>5 DEF LookTells
    <2> QED
        BY <2>1, <2>2, <2>6 DEF RecordTells
<1>4. ASSUME NEW exc \in Raised, OnFailure(exc)
      PROVE  DiagInv'
    <2>1. UNCHANGED <<runsOn, attempt, logs, look>>
        BY <1>4 DEF OnFailure
    <2>2. DiagTypes' /\ LookTells'
        BY <2>1, LookRests DEF DiagTypes
    <2>3. DiagnoseLogs(CheckEngine(runsOn))' = DiagnoseLogs(CheckEngine(runsOn))
        BY <2>1 DEF DiagnoseLogs, LogFiles
    <2>4. rec' = [found |-> DiagnoseLogs(CheckEngine(runsOn)),
                  hint |-> RecordedHint(exc, DiagnoseLogs(CheckEngine(runsOn))), exc |-> exc]
        BY <1>4 DEF OnFailure
    <2>5. RecordTells'
        BY <2>3, <2>4 DEF RecordTells
    <2> QED
        BY <2>2, <2>5
<1>5. ASSUME NEW eng \in {NoEngine, AdvisedEngine(runsOn)}, NEW assume \in BOOLEAN,
             LookUp(eng, assume)
      PROVE  DiagInv'
    <2>1. UNCHANGED <<stands, runsOn, attempt, logs, rec>>
        BY <1>5 DEF LookUp
    <2>2. look' = [at |-> "reading", engine |-> eng, assume |-> assume, files |-> LogFiles,
                   left |-> LogFiles, found |-> {}, since |-> attempt]
        BY <1>5 DEF LookUp, NoLook
    <2>3. eng \in KBEngines \union {NoEngine}
        BY DEF AdvisedEngine, KBEngines
    <2>4. LogFiles \in SUBSET LogNames /\ \A n \in LogFiles : logs[n] # NoText
        BY DEF LogFiles
    <2>5. DiagTypes'
        BY <2>1, <2>2, <2>3, <2>4 DEF DiagTypes
    <2>6. Consistent({}) /\ SaidBy({})' = {}
        BY DEF Consistent, SaidBy
    <2>7. look'.files \ look'.left = {}
        BY <2>2
    <2>8. LookTells'
        BY <2>1, <2>2, <2>4, <2>6, <2>7 DEF LookTells
    <2>9. RecordTells'
        BY <2>1 DEF RecordTells, DiagnoseLogs, LogFiles
    <2> QED
        BY <2>5, <2>8, <2>9
<1>6. CASE ReadNext
    <2> DEFINE n == Min(look.left)
               assume == look.assume /\ Cardinality(look.files) = 1
               text == DiagnoseText(n, logs[n], look.engine, assume)
    <2>1. /\ UNCHANGED <<stands, runsOn, attempt, logs, rec>>
          /\ look.at = "reading" /\ look.left # {}
        BY <1>6 DEF ReadNext
    <2>2. n \in look.left /\ n \in LogNames
        BY <2>1, NamesEnds DEF DiagTypes
    <2>3. RecordTells'
        BY <2>1 DEF RecordTells, DiagnoseLogs, LogFiles
    <2>4. CASE look' = [look EXCEPT !.at = "traceback"]
        BY <2>1, <2>3, <2>4 DEF DiagTypes, LookTells
    <2>5. CASE look' = [look EXCEPT !.left = @ \ {n}, !.found = @ \union text]
        <3>1. /\ look'.at = "reading" /\ look'.engine = look.engine /\ look'.files = look.files
              /\ look'.assume = look.assume /\ look'.since = look.since
              /\ look'.left = look.left \ {n} /\ look'.found = look.found \union text
            BY <2>1, <2>5 DEF DiagTypes
        <3>2. logs[n] \in AnyText /\ assume \in BOOLEAN
            BY <2>2 DEF DiagTypes
        <3>3. /\ text \in SUBSET AnyFinding /\ Consistent(text)
              /\ \A f \in text : f.scope = n
            BY <2>2, <3>2, TextSays
        <3>4. look.assume = FALSE => text = DiagnoseText(n, logs[n], look.engine, FALSE)
            OBVIOUS
        <3> HIDE DEF text, assume, n
        <3>5. DiagTypes'
            BY <2>1, <2>5, <3>1, <3>3 DEF DiagTypes
        <3>6. Consistent(look.found \union text)
            BY <2>1, <2>2, <3>3 DEF Consistent, LookTells
        <3>7. SaidBy(look.files \ look.left)' =
                SaidBy(look.files \ look.left)
                    \union DiagnoseText(n, logs[n], look.engine, FALSE)
            <4>1. look'.files \ look'.left = (look.files \ look.left) \union {n}
                BY <2>2, <3>1 DEF DiagTypes
            <4>2. SaidBy(look.files \ look.left)' =
                    UNION { DiagnoseText(m, logs[m], look.engine, FALSE) :
                              m \in (look.files \ look.left) \union {n} }
                BY <2>1, <3>1, <4>1 DEF SaidBy
            <4> QED
                BY <4>2 DEF SaidBy
        <3>8. LookTells'
            BY <2>1, <2>2, <3>1, <3>3, <3>4, <3>6, <3>7 DEF LookTells, DiagTypes
        <3> QED
            BY <2>3, <3>5, <3>8
    <2> QED
        BY <1>6, <2>4, <2>5 DEF ReadNext
<1>7. CASE LookEnds
    <2>1. /\ UNCHANGED <<stands, runsOn, attempt, logs, rec>>
          /\ look.at = "reading" /\ look.left = {}
        BY <1>7 DEF LookEnds
    <2>2. RecordTells'
        BY <2>1 DEF RecordTells, DiagnoseLogs, LogFiles
    <2>3. ASSUME NEW found \in SUBSET AnyFinding, Consistent(found),
                 look' = [look EXCEPT !.at = "done", !.found = found],
                 look.assume /\ look.files # {} => found # {},
                 ~look.assume => found = look.found
          PROVE  DiagTypes' /\ LookTells'
        <3>1. /\ look'.at = "done" /\ look'.found = found /\ look'.left = {}
              /\ look'.files = look.files /\ look'.assume = look.assume
              /\ look'.since = look.since /\ look'.engine = look.engine
            BY <2>1, <2>3 DEF DiagTypes
        <3>2. SaidBy(look.files \ look.left)' = SaidBy(look.files \ look.left)
            BY <2>1, <3>1 DEF SaidBy
        <3>3. DiagTypes'
            BY <2>1, <2>3, <3>1 DEF DiagTypes
        <3> QED
            BY <2>1, <2>3, <3>1, <3>2, <3>3 DEF LookTells
    <2>4. CASE look' = [look EXCEPT !.at = "traceback"]
        BY <2>1, <2>2, <2>4 DEF DiagTypes, LookTells
    <2>5. CASE /\ look.found # {} \/ ~look.assume \/ look.files = {}
               /\ look' = [look EXCEPT !.at = "done"]
        <3>1. look' = [look EXCEPT !.at = "done", !.found = look.found]
            BY <2>5 DEF DiagTypes
        <3>2. look.found \in SUBSET AnyFinding /\ Consistent(look.found)
            BY <2>1 DEF DiagTypes, LookTells
        <3> QED
            BY <2>2, <2>3, <2>5, <3>1, <3>2
    <2>6. CASE /\ ~(look.found # {} \/ ~look.assume \/ look.files = {})
               /\ look' = [look EXCEPT !.at = "done",
                                       !.found = {Finding(UnknownRule, Max(look.files))}]
        <3>1. Max(look.files) \in LogNames
            BY <2>6, NamesEnds DEF DiagTypes
        <3>2. {Finding(UnknownRule, Max(look.files))} \in SUBSET AnyFinding
            BY <3>1 DEF Finding, AnyFinding
        <3>3. Consistent({Finding(UnknownRule, Max(look.files))})
            BY DEF Finding, Consistent
        <3> QED
            BY <2>2, <2>3, <2>6, <3>2, <3>3
    <2> QED
        BY <1>7, <2>4, <2>5, <2>6 DEF LookEnds
<1>8. CASE UNCHANGED diagvars
    <2>1. RecordTells'
        BY <1>8 DEF diagvars, RecordTells, DiagnoseLogs, LogFiles
    <2> QED
        BY <1>8, <2>1, LookRests DEF diagvars, DiagTypes
<1> QED
    BY <1>1, <1>2, <1>3, <1>4, <1>5, <1>6, <1>7, <1>8 DEF DiagNext

\* A failure that is in a log is in the record, with its cause, and whoever
\* follows the advice of the record sees what it saw: for any knowledge base in
\* which entries do not supersede one another in a circle, any logs, any number
\* of attempts (diagnose/api.py, matcher.py, executor.py).
THEOREM FailureIsExplainedHolds == DiagSpec => []FailureIsExplained
BY DiagStarts, DiagStep, DiagExplains, PTL DEF DiagSpec

-----------------------------------------------------------------------------
(* The components together.                                                 *)

LEMMA MintPyAlone == SafetySpec => MintPySpec
<1>1. SafetyInit => MintPyInit
    BY DEF SafetyInit
<1>2. [SafetyNext]_safetyvars => [MintPyNext]_mintpyvars
    BY DEF SafetyNext, safetyvars
<1> QED
    BY <1>1, <1>2, PTL DEF SafetySpec, MintPySpec

LEMMA GraphAlone == SafetySpec => GraphSpec
<1>1. SafetyInit => GraphInit
    BY DEF SafetyInit
<1>2. [SafetyNext]_safetyvars => [GraphNext]_graphvars
    BY DEF SafetyNext, safetyvars
<1> QED
    BY <1>1, <1>2, PTL DEF SafetySpec, GraphSpec

LEMMA StoreAlone == SafetySpec => StoreSpec
<1>1. SafetyInit => StoreInit
    BY DEF SafetyInit
<1>2. [SafetyNext]_safetyvars => [StoreNext]_storevars
    BY DEF SafetyNext, safetyvars
<1> QED
    BY <1>1, <1>2, PTL DEF SafetySpec, StoreSpec

LEMMA FormAlone == SafetySpec => FormSpec
<1>1. SafetyInit => FormInit
    BY DEF SafetyInit
<1>2. [SafetyNext]_safetyvars => [FormNext]_formvars
    BY DEF SafetyNext, safetyvars
<1> QED
    BY <1>1, <1>2, PTL DEF SafetySpec, FormSpec

LEMMA UnwrappingAlone == SafetySpec => UnwrapStageSpec
<1>1. SafetyInit => UnwrapStageInit
    BY DEF SafetyInit
<1>2. [SafetyNext]_safetyvars => [UnwrapStageNext]_unwrapstagevars
    BY DEF SafetyNext, safetyvars
<1> QED
    BY <1>1, <1>2, PTL DEF SafetySpec, UnwrapStageSpec

LEMMA PanelsAlone == SafetySpec => PanelsSpec
<1>1. SafetyInit => PanelsInit
    BY DEF SafetyInit
<1>2. [SafetyNext]_safetyvars => [PanelsNext]_panelvars
    BY DEF SafetyNext, safetyvars
<1> QED
    BY <1>1, <1>2, PTL DEF SafetySpec, PanelsSpec

LEMMA DiagnosisAlone == SafetySpec => DiagSpec
<1>1. SafetyInit => DiagInit
    BY DEF SafetyInit
<1>2. [SafetyNext]_safetyvars => [DiagNext]_diagvars
    BY DEF SafetyNext, safetyvars
<1> QED
    BY <1>1, <1>2, PTL DEF SafetySpec, DiagSpec

LEMMA TilesAlone == SafetySpec => UnwrapSpec
<1>1. SafetyInit => UnwrapInit
    BY DEF SafetyInit
<1>2. [SafetyNext]_safetyvars => [UnwrapNext]_unwrapvars
    BY DEF SafetyNext, safetyvars
<1> QED
    BY <1>1, <1>2, PTL DEF SafetySpec, UnwrapSpec

LEMMA NetworkAlone == SafetySpec => NetworkSpec
<1>1. SafetyInit => NetworkInit
    BY DEF SafetyInit, NetworkInit, NetworkRest
<1>2. [SafetyNext]_safetyvars => [NetworkNext]_netvars
    BY DEF SafetyNext, safetyvars
<1> QED
    BY <1>1, <1>2, PTL DEF SafetySpec, NetworkSpec

LEMMA SweepAlone == SafetySpec => []FrontIsHonest /\ []GridIsCovered
<1> DEFINE Resting == part # "sweep" /\ rows = << >> /\ front = NotRanked
<1>1. SafetyInit => (SweepInv \/ Resting) /\ grid \in Grids
    BY SweepStarts DEF SafetyInit, SweepInit, SweepRest
<1>2. [SafetyNext]_safetyvars => [SweepNext]_sweepvars
    BY DEF SafetyNext, safetyvars
<1>3. SweepInv /\ [SafetyNext]_safetyvars => SweepInv'
    BY <1>2, SweepStep
<1>4. Resting /\ [SafetyNext]_safetyvars => Resting'
    BY DEF SafetyNext, safetyvars, sweepvars
<1>5. grid \in Grids /\ [SafetyNext]_safetyvars => (grid \in Grids)'
    BY <1>2 DEF SweepNext, RunPoint, RefusePoint, RankRows, sweepvars
<1>6. Resting => FrontIsHonest
    BY DEF FrontIsHonest
<1> QED
    BY <1>1, <1>3, <1>4, <1>5, <1>6, FrontTells, CoversGrid, PTL DEF SafetySpec

LEMMA GcAlone == SafetySpec => [](GcCore /\ BudgetInv) /\ [][RunStep \/ Gc]_allvars
<1>1. SafetyInit => GcCore /\ BudgetInv
    <2>1. SafetyInit => DiskInit \/ GcInit
        BY DEF SafetyInit
    <2>2. GcInit => GcCore /\ BudgetInv
        BY SafeStart DEF GcCore, GcInit, GcIdle, BudgetInv, Watching
    <2> QED
        BY <2>1, <2>2, DiskStart
<1>2. [SafetyNext]_safetyvars => [RunStep \/ Gc]_allvars
    BY DEF SafetyNext, safetyvars
<1> QED
    BY <1>1, <1>2, GcCoreStep, BudgetStep, PTL DEF SafetySpec

\* What runs one of the components is a run of each, the others at rest: what was
\* proved of them holds of it.  For gc, that includes the start of gc in any
\* directory of MCCacheGc, with nobody or one run in it.
THEOREM SafetyIsTyped == SafetySpec => []SafetyTypeOK
<1>1. GcCore => GcTypeOK
    BY DEF GcCore, GcBase, GcFlow, GcTypeOK
<1>2. GcTypeOK /\ MintPyTypeOK /\ PanelsTypeOK => SafetyTypeOK
    BY DEF SafetyTypeOK
<1> QED
    BY <1>1, <1>2, GcAlone, MintPyAlone, PanelsAlone, MintPyTypes, PanelsTypes, PTL

\* So is every safety property of theirs: what the run "safety" checks of a small
\* instance holds of every instance.
THEOREM SafetyHolds ==
    SafetySpec =>
        /\ [](BudgetSpares /\ StrategyFits /\ ReportedChain /\ PlanIsKept
               /\ SlicesAreTheirOwn /\ FrontIsHonest /\ GridIsCovered /\ NetworkAdds
               /\ SavedIsUsed /\ FailureIsExplained /\ AnswerIsOwn /\ DoneIsDone)
        /\ LongHeldKept /\ WhatIsShownIsUsed
<1>1. SafetySpec => []BudgetSpares /\ LongHeldKept
    BY GcAlone, BudgetSays, SparedStep, PTL DEF LongHeldKept
<1>2. SafetySpec => []StrategyFits /\ []ReportedChain /\ []PlanIsKept
    BY TilesAlone, StrategyFitsHolds, MintPyAlone, ReportedChainHolds, GraphAlone,
       PlanIsKeptHolds, PTL
<1>3. SafetySpec => []SlicesAreTheirOwn /\ []FrontIsHonest /\ []GridIsCovered
            /\ []SavedIsUsed
    BY StoreAlone, SlicesAreTheirOwnHolds, SweepAlone, FormAlone, SavedIsUsedHolds, PTL
<1>4. SafetySpec => []NetworkAdds /\ []FailureIsExplained /\ []AnswerIsOwn /\ []DoneIsDone
    BY NetworkAlone, NetworkAddsHolds, DiagnosisAlone, FailureIsExplainedHolds, UnwrappingAlone, AnswerIsOwnHolds,
       PanelsAlone, DoneIsDoneHolds, PTL
<1>5. SafetySpec => WhatIsShownIsUsed
    BY PanelsAlone, WhatIsShownIsUsedHolds, PTL
<1> QED
    BY <1>1, <1>2, <1>3, <1>4, <1>5, PTL
=============================================================================
