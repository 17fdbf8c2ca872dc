---------------------------- MODULE Parts_proofs ----------------------------
(***************************************************************************)
(* Proofs about three components that share no variable: the sub-cache of   *)
(* pairs, the cache of auxiliary downloads, and the dock of QGIS with its   *)
(* client.  A section each has the inductive invariant, a lemma per phase   *)
(* or action, and the theorems; the last one carries the theorems over to   *)
(* the specification of MCParts, which runs one of the three.               *)
(***************************************************************************)
EXTENDS MCParts, FiniteSetTheorems, TLAPS

-----------------------------------------------------------------------------
(* PairCache: what is reused is what was asked for, and a failure or a      *)
(* death loses no other pair; for any stack of pairs, any number of workers *)
(* and any set of hashes.                                                   *)
(*                                                                         *)
(* A file that is being written has a hash that no row holds (Writing), so  *)
(* a row that matches a whole file names its content (RowTruth); a pair     *)
(* that is reused or stored has a row that matches (Entered); so what is    *)
(* placed in the stack is what was asked for (Placed), and each phase       *)
(* leaves no pair in a state that the following ones do not treat (Fated).  *)

\* What can have become of a pair of the stack, by phase of the stage.
Fates(st) ==
    CASE st \in {"idle", "wipe", "lookup"} -> {"none"}
      [] st = "pool" -> {"queued", "running", "part", "reused", "placed", "failed"}
      [] st \in {"take", "write"} -> {"part", "reused", "placed", "failed"}
      [] st = "reuse" -> {"reused", "retry", "placed", "failed"}
      [] OTHER -> {"placed", "failed"}

Fated(p) == fate[p] \in IF p \in Asked THEN Fates(stage) ELSE {"none"}

RowTruth(p) ==
    /\ file[p].ok => file[p].at # NoStamp
    /\ file[p].ok /\ rows[p].at = file[p].at => rows[p].id = file[p].id
    /\ file[p].ok /\ entries[p].at = file[p].at => entries[p].id = file[p].id

Writing(p) ==
    p \in cur =>
        /\ stage = "write" /\ partial /\ fate[p] = "part"
        /\ file[p].id = ask[p] /\ ~file[p].ok
        /\ file[p].at \notin {rows[p].at, NoStamp}
        /\ unw[p] = ask[p]

Placed(p) == fate[p] = "placed" => unw[p] = ask[p]

Entered(p) ==
    partial /\ fate[p] \in {"placed", "reused"} =>
        /\ entries[p].id = ask[p] /\ entries[p].at = file[p].at
        /\ file[p] # NoFile

\* A result that is there and wanted is not computed again.
Reused(p) ==
    /\ p \in Asked /\ stage \in {"pool", "take", "write", "reuse", "save"}
    /\ legible /\ LookupHit(p) /\ file[p].ok
    => fate[p] \in {"reused", "placed"}

PairGood(p) ==
    /\ Fated(p) /\ RowTruth(p) /\ Writing(p) /\ Placed(p) /\ Entered(p)
    /\ Reused(p)

StageGood ==
    /\ stage = "idle" => Asked = {}
    /\ ~partial => stage \notin {"write", "reuse", "save", "prune"}
    /\ ~partial /\ stage \notin {"idle", "wipe"} => rows = NoEntries
    /\ again => partial /\ stage \notin {"idle", "wipe", "lookup"}
    /\ again \/ ~partial => With("reused") = {}
    /\ partial /\ stage \in {"prune", "ended"} => rows = entries /\ legible
    /\ partial /\ stage = "ended" =>
         \A p \in Pairs : file[p] # NoFile => entries[p] # NoEntry

PairInv ==
    /\ PairTypeOK
    /\ \A p \in Pairs : PairGood(p)
    /\ StageGood

LEMMA PairInitInv == PairInit => PairInv
<1> SUFFICES ASSUME PairInit PROVE PairInv
  OBVIOUS
<1>1. PairTypeOK
  BY DEF PairInit, PairTypeOK, NoFile, NoEntries, NoEntry, NoPairs, PairFile, PairEntry,
     MaybeId, StagePhase, PairFate
<1>2. Asked = {}
  BY DEF PairInit, Asked, NoPairs
<1>3. \A p \in Pairs : PairGood(p)
  BY <1>2 DEF PairInit, PairGood, Fated, RowTruth, Writing, Placed, Entered, Reused,
     NoFile
<1>4. StageGood
  BY <1>2 DEF PairInit, StageGood, With
<1> QED
  BY <1>1, <1>3, <1>4 DEF PairInv

\* Types.
LEMMA PairTypeNext == PairTypeOK /\ [PairNext]_pairvars => PairTypeOK'
<1> SUFFICES ASSUME PairTypeOK, [PairNext]_pairvars PROVE PairTypeOK'
  OBVIOUS
<1> USE DEF PairTypeOK
<1>0. /\ NoFile \in PairFile /\ NoEntry \in PairEntry /\ NoPairs \in [Pairs -> MaybeId]
      /\ NoEntries \in [Pairs -> PairEntry] /\ Stacks \subseteq [Pairs -> MaybeId]
  BY StackAssumption DEF NoFile, NoEntry, NoPairs, NoEntries, PairFile, PairEntry, MaybeId
<1>1. ASSUME NEW want \in Stacks, NEW sub \in BOOLEAN, BeginStage(want, sub)
      PROVE  PairTypeOK'
  BY <1>0, <1>1 DEF BeginStage, StagePhase
<1>2. CASE Wipe \/ Wiped
  BY <1>0, <1>2 DEF Wipe, Wiped, StagePhase, runvars
<1>3. CASE Lookup
  <2>1. entries' \in [Pairs -> PairEntry]
    BY <1>0, <1>3 DEF Lookup, Registered
  <2>2. fate' \in [Pairs -> PairFate]
    BY <1>3 DEF Lookup, PairFate
  <2> QED
    BY <1>3, <2>1, <2>2 DEF Lookup, StagePhase
<1>4. ASSUME NEW p \in Pairs, JobStarts(p) \/ JobEnds(p)
      PROVE  PairTypeOK'
  BY <1>4 DEF JobStarts, JobEnds, PairFate
<1>5. ASSUME NEW p \in Pairs, TakePart(p)
      PROVE  PairTypeOK'
  <2>1. file' \in [Pairs -> PairFile]
    <3>1. CASE ~partial
      BY <1>5, <3>1 DEF TakePart
    <3>2. CASE partial
      <4>1. PICK t \in FileStamps :
               file' = [file EXCEPT ![p] = [id |-> ask[p], ok |-> FALSE, at |-> t]]
        BY <1>5, <3>2 DEF TakePart, First, FreshStamps
      <4> QED
        BY <4>1 DEF PairFile
    <3> QED
      BY <3>1, <3>2
  <2>2. /\ unw' \in [Pairs -> MaybeId] /\ fate' \in [Pairs -> PairFate]
        /\ cur' \in SUBSET Pairs /\ stage' \in StagePhase
    BY <1>5 DEF TakePart, PairFate, StagePhase
  <2> QED
    BY <1>5, <2>1, <2>2 DEF TakePart
<1>6. ASSUME NEW p \in Pairs, StorePart(p)
      PROVE  PairTypeOK'
  <2>1. file' \in [Pairs -> PairFile]
    BY <1>6 DEF StorePart, PairFile
  <2>2. entries' \in [Pairs -> PairEntry]
    BY <1>6 DEF StorePart, PairFile, PairEntry, StampNow
  <2> QED
    BY <1>6, <2>1, <2>2 DEF StorePart, PairFate, StagePhase
<1>7. ASSUME NEW p \in Pairs, LoadReused(p)
      PROVE  PairTypeOK'
  <2>1. unw' \in [Pairs -> MaybeId]
    BY <1>7 DEF LoadReused, PairFile, MaybeId
  <2>2. entries' \in [Pairs -> PairEntry] /\ fate' \in [Pairs -> PairFate]
    BY <1>0, <1>7 DEF LoadReused, PairFate, Unloadable
  <2> QED
    BY <1>7, <2>1, <2>2 DEF LoadReused
<1>8. CASE PoolDrained \/ AllTaken \/ AllLoaded \/ SaveManifest \/ AllPruned
  BY <1>8 DEF PoolDrained, AllTaken, AllLoaded, SaveManifest, AllPruned, StagePhase,
     PairFate
<1>9. ASSUME NEW p \in Pairs, PruneFile(p) \/ Rot(p)
      PROVE  PairTypeOK'
  <2>1. CASE PruneFile(p)
    BY <1>0, <2>1 DEF PruneFile, runvars
  <2>2. CASE Rot(p)
    <3>1. file' \in [Pairs -> PairFile]
      BY <2>2 DEF Rot, PairFile
    <3> QED
      BY <2>2, <3>1 DEF Rot, runvars
  <2> QED
    BY <1>9, <2>1, <2>2
<1>10. CASE Leave \/ Die \/ RotManifest
  BY <1>0, <1>10 DEF Leave, Die, Gone, RotManifest, store, runvars, StagePhase, PairFate
<1>11. CASE UNCHANGED pairvars
  BY <1>11 DEF pairvars
<1> QED
  BY <1>1, <1>2, <1>3, <1>4, <1>5, <1>6, <1>7, <1>8, <1>9, <1>10, <1>11
     DEF PairNext, PairWork

(* Every action keeps PairGood and StageGood.                               *)

Goods == (\A p \in Pairs : PairGood(p)) /\ StageGood

LEMMA BeginGood ==
    ASSUME PairInv, NEW want \in Stacks, NEW sub \in BOOLEAN, BeginStage(want, sub)
    PROVE  Goods'
<1> USE DEF PairInv, BeginStage
<1>1. \A p \in Pairs : fate[p] = "none"
  BY DEF PairGood, Fated, Fates
<1>2. ASSUME NEW p \in Pairs PROVE PairGood(p)'
  BY <1>1 DEF PairGood, Fated, Fates, RowTruth, Writing, Placed, Entered, Reused
<1>3. StageGood'
  BY <1>1 DEF StageGood, With
<1> QED
  BY <1>2, <1>3 DEF Goods

LEMMA WipeGood ==
    ASSUME PairInv, Wipe \/ Wiped
    PROVE  Goods'
<1> USE DEF PairInv
<1>1. \A p \in Pairs : fate[p] = "none"
  BY DEF Wipe, Wiped, PairGood, Fated, Fates
<1>2. ASSUME NEW p \in Pairs PROVE PairGood(p)'
  <2>1. /\ UNCHANGED <<fate, ask, partial, entries, cur, unw>>
        /\ stage' \in {"wipe", "lookup"} /\ stage = "wipe"
        /\ file'[p] \in {file[p], NoFile} /\ rows'[p] \in {rows[p], NoEntry}
    BY DEF Wipe, Wiped, runvars, PairTypeOK, NoEntries
  <2> QED
    BY <1>1, <2>1 DEF PairGood, Fated, Fates, RowTruth, Writing, Placed, Entered, Reused,
       NoFile, NoEntry, NoStamp, Asked
<1>3. StageGood'
  BY <1>1 DEF StageGood, With, Wipe, Wiped, runvars
<1> QED
  BY <1>2, <1>3 DEF Goods

LEMMA LookupGood ==
    ASSUME PairInv, Lookup
    PROVE  Goods'
<1> USE DEF PairInv
<1>1. ASSUME NEW p \in Pairs PROVE PairGood(p)'
  <2>1. /\ UNCHANGED <<file, rows, legible, ask, partial, cur, unw>>
        /\ stage = "lookup" /\ stage' = "pool"
    BY DEF Lookup
  <2>2. \/ /\ p \in Asked /\ partial /\ legible /\ LookupHit(p)
           /\ fate'[p] = "reused" /\ entries'[p] = rows[p]
        \/ /\ p \in Asked /\ ~(partial /\ legible /\ LookupHit(p))
           /\ fate'[p] = "queued" /\ entries'[p] = NoEntry
        \/ p \notin Asked /\ fate'[p] = "none" /\ entries'[p] = NoEntry
    BY DEF Lookup, Registered
  <2>3. /\ Fated(p)' /\ Placed(p)' /\ Entered(p)'
    BY <2>1, <2>2 DEF Fated, Fates, Asked, Placed, Entered, LookupHit
  <2>4. RowTruth(p)' /\ Writing(p)'
    BY <2>1, <2>2 DEF PairGood, RowTruth, Writing, NoEntry, NoStamp
  <2>5. Reused(p)'
    <3>1. partial \/ rows[p] = NoEntry
      BY <2>1 DEF StageGood, NoEntries
    <3> QED
      BY <2>1, <2>2, <3>1 DEF Reused, LookupHit, Asked, NoEntry
  <2> QED
    BY <2>3, <2>4, <2>5 DEF PairGood
<1>2. StageGood'
  <2>1. ~partial => \A p \in Pairs : fate'[p] # "reused"
    BY DEF Lookup
  <2> QED
    BY <2>1 DEF StageGood, With, Lookup
<1> QED
  BY <1>1, <1>2 DEF Goods

\* The steps of a pair that change what became of it, and nothing else.
LEMMA JobGood ==
    ASSUME PairInv, NEW p \in Pairs, JobStarts(p) \/ JobEnds(p)
    PROVE  Goods'
<1> USE DEF PairInv
<1>1. /\ UNCHANGED <<file, rows, legible, stage, ask, partial, again, entries, unw, cur>>
      /\ stage = "pool" /\ fate[p] \in {"queued", "running"}
      /\ fate'[p] \in {"running", "part", "failed"}
      /\ \A q \in Pairs : q # p => fate'[q] = fate[q]
  BY DEF JobStarts, JobEnds, First, With, PairTypeOK
<1>2. ASSUME NEW q \in Pairs PROVE PairGood(q)'
  BY <1>1 DEF PairGood, Fated, Fates, RowTruth, Writing, Placed, Entered, Reused, Asked,
     LookupHit
<1>3. StageGood'
  BY <1>1 DEF StageGood, With, Asked
<1> QED
  BY <1>2, <1>3 DEF Goods

\* The steps from one phase to the next that treat no pair.
LEMMA PhaseGood ==
    ASSUME PairInv, PoolDrained \/ AllTaken
    PROVE  Goods'
<1> USE DEF PairInv
<1>1. UNCHANGED <<file, rows, legible, ask, partial, again, fate, entries, unw, cur>>
  BY DEF PoolDrained, AllTaken
<1>2. ASSUME NEW p \in Pairs PROVE Fated(p)'
  <2>1. Fated(p) /\ (again \/ ~partial => fate[p] # "reused")
    BY DEF PairGood, StageGood, With
  <2>2. CASE PoolDrained
    BY <1>1, <2>1, <2>2 DEF PoolDrained, With, Fated, Fates, Asked
  <2>3. CASE AllTaken
    BY <1>1, <2>1, <2>3 DEF AllTaken, With, Fated, Fates, Asked
  <2> QED
    BY <2>2, <2>3
<1>3. ASSUME NEW p \in Pairs PROVE PairGood(p)'
  BY <1>1, <1>2 DEF PairGood, RowTruth, Writing, Placed, Entered, Reused, Asked, LookupHit,
     PoolDrained, AllTaken
<1>4. StageGood'
  BY <1>1 DEF StageGood, With, Asked, PoolDrained, AllTaken
<1> QED
  BY <1>3, <1>4 DEF Goods

LEMMA TakeGood ==
    ASSUME PairInv, NEW p \in Pairs, TakePart(p)
    PROVE  Goods'
<1> USE DEF PairInv
<1>1. /\ UNCHANGED <<rows, legible, ask, partial, again, entries>>
      /\ stage = "take" /\ fate[p] = "part" /\ p \in Asked /\ cur \subseteq Pairs
      /\ unw'[p] = ask[p] /\ \A q \in Pairs : q # p => unw'[q] = unw[q]
  <2>1. stage = "take" /\ fate[p] = "part"
    BY DEF TakePart, First, With
  <2>2. p \in Asked
    BY <2>1 DEF PairGood, Fated
  <2> QED
    BY <2>1, <2>2 DEF TakePart, PairTypeOK
<1>2. cur = {}
  BY <1>1 DEF PairGood, Writing
<1>3. CASE partial
  <2>1. PICK t \in FreshStamps(p) :
           file' = [file EXCEPT ![p] = [id |-> ask[p], ok |-> FALSE, at |-> t]]
    BY <1>3 DEF TakePart, First
  <2>2. t \notin {file[p].at, rows[p].at, entries[p].at, NoStamp}
    BY StampAssumption DEF FreshStamps
  <2>3. /\ fate' = fate /\ cur' = {p} /\ stage' = "write"
        /\ file'[p] = [id |-> ask[p], ok |-> FALSE, at |-> t]
        /\ \A q \in Pairs : q # p => file'[q] = file[q]
    BY <1>3, <2>1 DEF TakePart, PairTypeOK
  <2>4. ASSUME NEW q \in Pairs PROVE PairGood(q)'
    BY <1>1, <1>2, <1>3, <2>2, <2>3 DEF PairGood, Fated, Fates, RowTruth, Writing, Placed,
       Entered, Reused, Asked, LookupHit
  <2>5. StageGood'
    BY <1>1, <1>3, <2>3 DEF StageGood, With, Asked
  <2> QED
    BY <2>4, <2>5 DEF Goods
<1>4. CASE ~partial
  <2>1. /\ UNCHANGED <<file, cur, stage>> /\ fate'[p] = "placed"
        /\ \A q \in Pairs : q # p => fate'[q] = fate[q]
    BY <1>4 DEF TakePart, PairTypeOK
  <2>2. ASSUME NEW q \in Pairs PROVE PairGood(q)'
    BY <1>1, <1>2, <1>4, <2>1 DEF PairGood, Fated, Fates, RowTruth, Writing, Placed,
       Entered, Reused, Asked, LookupHit
  <2>3. StageGood'
    BY <1>1, <1>4, <2>1 DEF StageGood, With, Asked
  <2> QED
    BY <2>2, <2>3 DEF Goods
<1> QED
  BY <1>3, <1>4

LEMMA StoreGood ==
    ASSUME PairInv, NEW p \in Pairs, StorePart(p)
    PROVE  Goods'
<1> USE DEF PairInv
<1>1. /\ UNCHANGED <<rows, legible, ask, partial, again, unw>>
      /\ p \in cur /\ cur' = {} /\ stage' = "take"
      /\ fate'[p] = "placed" /\ entries'[p] = [id |-> ask[p], at |-> file[p].at]
      /\ file'[p] = [file[p] EXCEPT !.ok = TRUE]
      /\ \A q \in Pairs : q # p =>
           file'[q] = file[q] /\ fate'[q] = fate[q] /\ entries'[q] = entries[q]
  BY DEF StorePart, StampNow, PairTypeOK
<1>2. /\ file'[p].ok /\ file'[p].at = file[p].at /\ file'[p].id = file[p].id
      /\ file'[p] # NoFile
  BY <1>1 DEF PairTypeOK, PairFile, NoFile
<1>3. /\ stage = "write" /\ partial /\ fate[p] = "part" /\ file[p].id = ask[p]
      /\ file[p].at \notin {rows[p].at, NoStamp} /\ unw[p] = ask[p]
  BY <1>1 DEF PairGood, Writing
<1>4. p \in Asked
  BY <1>3 DEF PairGood, Fated
<1>5. ASSUME NEW q \in Pairs PROVE PairGood(q)'
  <2>1. CASE q = p
    <3>1. Fated(p)' /\ Placed(p)' /\ Writing(p)' /\ Reused(p)'
      BY <1>1, <1>3, <1>4 DEF Fated, Fates, Placed, Writing, Reused, Asked
    <3>2. RowTruth(p)' /\ Entered(p)'
      BY <1>1, <1>2, <1>3 DEF RowTruth, Entered
    <3> QED
      BY <2>1, <3>1, <3>2 DEF PairGood
  <2>2. CASE q # p
    BY <1>1, <1>3, <2>2 DEF PairGood, Fated, Fates, RowTruth, Writing, Placed, Entered,
       Reused, Asked, LookupHit
  <2> QED
    BY <2>1, <2>2
<1>6. StageGood'
  BY <1>1, <1>3 DEF StageGood, With, Asked
<1> QED
  BY <1>5, <1>6 DEF Goods

LEMMA LoadGood ==
    ASSUME PairInv, NEW p \in Pairs, LoadReused(p)
    PROVE  Goods'
<1> USE DEF PairInv
<1>1. /\ UNCHANGED <<file, rows, legible, stage, ask, partial, again, cur>>
      /\ stage = "reuse" /\ fate[p] = "reused"
      /\ \A q \in Pairs : q # p =>
           unw'[q] = unw[q] /\ fate'[q] = fate[q] /\ entries'[q] = entries[q]
      /\ \/ /\ file[p].ok /\ unw'[p] = file[p].id /\ fate'[p] = "placed"
            /\ entries'[p] = entries[p]
         \/ /\ ~file[p].ok /\ fate'[p] = "retry" /\ entries'[p] = NoEntry
            /\ unw'[p] = unw[p]
  BY DEF LoadReused, Loads, Unloadable, First, With, PairTypeOK
<1>2. partial /\ p \notin cur
  BY <1>1 DEF StageGood, With, PairGood, Writing
<1>3. entries[p].id = ask[p] /\ entries[p].at = file[p].at
  BY <1>1, <1>2 DEF PairGood, Entered
<1>4. file[p].ok => file[p].id = ask[p]
  BY <1>3 DEF PairGood, RowTruth
<1>5. ASSUME NEW q \in Pairs PROVE PairGood(q)'
  <2>1. CASE q = p
    BY <1>1, <1>2, <1>3, <1>4, <2>1 DEF PairGood, Fated, Fates, RowTruth, Writing, Placed,
       Entered, Reused, Asked, LookupHit
  <2>2. CASE q # p
    BY <1>1, <2>2 DEF PairGood, Fated, Fates, RowTruth, Writing, Placed, Entered, Reused,
       Asked, LookupHit
  <2> QED
    BY <2>1, <2>2
<1>6. StageGood'
  BY <1>1 DEF StageGood, With, Asked
<1> QED
  BY <1>5, <1>6 DEF Goods

LEMMA LoadedGood ==
    ASSUME PairInv, AllLoaded
    PROVE  Goods'
<1> USE DEF PairInv
<1>1. /\ UNCHANGED <<file, rows, legible, ask, partial, entries, unw, cur>>
      /\ stage = "reuse" /\ \A p \in Pairs : fate[p] # "reused"
  BY DEF AllLoaded, With
<1>2. partial
  BY <1>1 DEF StageGood
<1>3. CASE With("retry") = {}
  <2>1. stage' = "save" /\ UNCHANGED <<again, fate>> /\ \A p \in Pairs : fate[p] # "retry"
    BY <1>3 DEF AllLoaded, With
  <2>2. ASSUME NEW p \in Pairs PROVE PairGood(p)'
    BY <1>1, <2>1 DEF PairGood, Fated, Fates, RowTruth, Writing, Placed, Entered, Reused,
       Asked, LookupHit
  <2>3. StageGood'
    BY <1>1, <1>2, <2>1 DEF StageGood, With, Asked
  <2> QED
    BY <2>2, <2>3 DEF Goods
<1>4. CASE With("retry") # {}
  <2>1. /\ stage' = "pool" /\ again' = TRUE
        /\ \A p \in Pairs : fate'[p] = IF fate[p] = "retry" THEN "queued" ELSE fate[p]
    BY <1>4 DEF AllLoaded
  <2>2. ASSUME NEW p \in Pairs PROVE PairGood(p)'
    BY <1>1, <2>1 DEF PairGood, Fated, Fates, RowTruth, Writing, Placed, Entered, Reused,
       Asked, LookupHit
  <2>3. StageGood'
    BY <1>1, <1>2, <2>1 DEF StageGood, With, Asked
  <2> QED
    BY <2>2, <2>3 DEF Goods
<1> QED
  BY <1>3, <1>4

LEMMA SaveGood ==
    ASSUME PairInv, SaveManifest
    PROVE  Goods'
<1> USE DEF PairInv, SaveManifest
<1>1. ASSUME NEW p \in Pairs PROVE PairGood(p)'
  BY DEF PairGood, Fated, Fates, RowTruth, Writing, Placed, Entered, Reused, Asked
<1>2. StageGood'
  BY DEF StageGood, With, Asked
<1> QED
  BY <1>1, <1>2 DEF Goods

LEMMA PruneGood ==
    ASSUME PairInv, NEW p \in Pairs, PruneFile(p)
    PROVE  Goods'
<1> USE DEF PairInv
<1>1. /\ UNCHANGED <<rows, legible, stage, ask, partial, again, fate, entries, unw, cur>>
      /\ stage = "prune" /\ entries[p] = NoEntry /\ file'[p] = NoFile
      /\ \A q \in Pairs : q # p => file'[q] = file[q]
  BY DEF PruneFile, Pruned, runvars, PairTypeOK
<1>2. fate[p] # "placed"
  <2>1. ASSUME fate[p] = "placed" PROVE FALSE
    <3>1. partial /\ entries[p].id = ask[p]
      BY <1>1, <2>1 DEF PairGood, Entered, StageGood
    <3>2. ask[p] # NoIdentity
      BY <2>1 DEF PairGood, Fated, Asked
    <3> QED
      BY <1>1, <3>1, <3>2 DEF NoEntry
  <2> QED
    BY <2>1
<1>3. fate[p] # "reused"
  BY <1>1 DEF PairGood, Fated, Fates
<1>4. ASSUME NEW q \in Pairs PROVE PairGood(q)'
  <2>1. CASE q = p
    <3>1. ~file'[p].ok
      BY <1>1 DEF NoFile
    <3>2. p \notin cur
      BY <1>1 DEF PairGood, Writing
    <3>3. Fated(p)' /\ Placed(p)' /\ Writing(p)' /\ Entered(p)'
      BY <1>1, <1>2, <1>3, <3>2, <2>1
         DEF PruneFile, runvars, PairGood, Fated, Asked, Placed, Writing, Entered
    <3>4. RowTruth(p)' /\ Reused(p)'
      BY <3>1 DEF RowTruth, Reused
    <3> QED
      BY <2>1, <3>3, <3>4 DEF PairGood
  <2>2. CASE q # p
    BY <1>1, <2>2 DEF PruneFile, runvars, PairGood, Fated, RowTruth, Writing, Placed,
       Entered, Reused, Asked, LookupHit
  <2> QED
    BY <2>1, <2>2
<1>5. StageGood'
  BY <1>1 DEF StageGood, With, Asked
<1> QED
  BY <1>4, <1>5 DEF Goods

LEMMA PrunedGood ==
    ASSUME PairInv, AllPruned
    PROVE  Goods'
<1> USE DEF PairInv, AllPruned
<1>1. ASSUME NEW p \in Pairs PROVE PairGood(p)'
  BY DEF PairGood, Fated, Fates, RowTruth, Writing, Placed, Entered, Reused, Asked
<1>2. StageGood'
  BY DEF StageGood, With, Asked, Pruned
<1> QED
  BY <1>1, <1>2 DEF Goods

LEMMA GoneGood ==
    ASSUME PairInv, Gone
    PROVE  Goods'
<1> USE DEF PairInv, Gone
<1>1. Asked' = {}
  BY DEF Asked, NoPairs
<1>2. ASSUME NEW p \in Pairs PROVE PairGood(p)'
  BY <1>1 DEF PairGood, Fated, RowTruth, Writing, Placed, Entered, Reused, store,
     NoEntries, NoEntry
<1>3. StageGood'
  BY <1>1 DEF StageGood, With
<1> QED
  BY <1>2, <1>3 DEF Goods

LEMMA RotGood ==
    ASSUME PairInv, RotManifest \/ \E p \in Pairs : Rot(p)
    PROVE  Goods'
<1> USE DEF PairInv
<1>1. /\ UNCHANGED <<rows, stage, ask, partial, again, fate, entries, unw, cur>>
      /\ stage \in {"idle", "pool"} /\ (stage # "idle" => legible' = legible)
  BY DEF RotManifest, Rot, runvars
<1>2. \A q \in Pairs : /\ file'[q].at = file[q].at /\ file'[q].id = file[q].id
                       /\ file'[q].ok => file[q].ok
                       /\ file[q] # NoFile => file'[q] # NoFile
  <2>1. CASE RotManifest
    BY <2>1 DEF RotManifest
  <2>2. ASSUME NEW p \in Pairs, Rot(p), NEW q \in Pairs
        PROVE  /\ file'[q].at = file[q].at /\ file'[q].id = file[q].id
               /\ file'[q].ok => file[q].ok
               /\ file[q] # NoFile => file'[q] # NoFile
    <3>1. CASE q # p
      BY <2>2, <3>1 DEF Rot, PairTypeOK
    <3>2. CASE q = p
      <4>1. file[p].ok /\ file'[p] = [file[p] EXCEPT !.ok = FALSE] /\ file[p] \in PairFile
        BY <2>2 DEF Rot, PairTypeOK
      <4>2. file[p].at # NoStamp
        BY <4>1 DEF PairGood, RowTruth
      <4>3. file'[p].at = file[p].at /\ file'[p].id = file[p].id /\ ~file'[p].ok
        BY <4>1 DEF PairFile
      <4> QED
        BY <3>2, <4>2, <4>3 DEF NoFile
    <3> QED
      BY <3>1, <3>2
  <2> QED
    BY <2>1, <2>2
<1>3. ASSUME NEW q \in Pairs PROVE PairGood(q)'
  <2>1. Fated(q)' /\ Placed(q)' /\ Writing(q)' /\ Entered(q)'
    BY <1>1, <1>2 DEF PairGood, Fated, Asked, Placed, Writing, Entered
  <2>2. RowTruth(q)' /\ Reused(q)'
    BY <1>1, <1>2 DEF PairGood, RowTruth, Reused, Asked, LookupHit, NoFile
  <2> QED
    BY <2>1, <2>2 DEF PairGood
<1>4. StageGood'
  BY <1>1 DEF StageGood, With, Asked
<1> QED
  BY <1>3, <1>4 DEF Goods

LEMMA PairNextInv == PairInv /\ [PairNext]_pairvars => PairInv'
<1> SUFFICES ASSUME PairInv, [PairNext]_pairvars PROVE PairInv'
  OBVIOUS
<1>1. PairTypeOK'
  BY PairTypeNext DEF PairInv
<1>2. CASE UNCHANGED pairvars
  BY <1>1, <1>2 DEF pairvars, PairInv, PairGood, Fated, RowTruth, Writing, Placed, Entered,
     Reused, StageGood, Asked, With, LookupHit
<1>3. CASE PairNext
  <2>1. Goods'
    BY <1>3, BeginGood, WipeGood, LookupGood, JobGood, PhaseGood, TakeGood, StoreGood,
       LoadGood, LoadedGood, SaveGood, PruneGood, PrunedGood, GoneGood, RotGood
       DEF PairNext, PairWork, Leave, Die
  <2> QED
    BY <1>1, <2>1 DEF PairInv, Goods
<1> QED
  BY <1>2, <1>3

LEMMA PairInvariant == PairSpec => []PairInv
  BY PairInitInv, PairNextInv, PTL DEF PairSpec

\* Every variable of the stage and of its sub-cache stays in its range.
THEOREM PairTypes == PairSpec => []PairTypeOK
  BY PairInvariant, PTL DEF PairInv

\* A row of pairs/manifest.json whose hash matches a whole file was written
\* for the content of that file (PairCache.store, lookup).
THEOREM TrueRows == PairSpec => []RowsAreTrue
<1>1. PairInv => RowsAreTrue
  BY DEF PairInv, PairGood, RowTruth, RowsAreTrue
<1> QED
  BY <1>1, PairInvariant, PTL

\* A stack without a failed pair holds, at every pair, the result that this
\* run asked for, computed now or reused (run_unwrap, PairCache.lookup).
THEOREM AskedIsAssembled == PairSpec => []AssembledIsAsked
<1>1. PairInv => AssembledIsAsked
  <2> SUFFICES ASSUME PairInv, stage \in {"save", "prune", "ended"}, With("failed") = {},
                      NEW p \in Asked
               PROVE  unw[p] = ask[p]
    BY DEF AssembledIsAsked
  <2>1. p \in Pairs /\ Fated(p) /\ Placed(p)
    BY DEF PairInv, PairGood, Asked
  <2>2. fate[p] = "placed"
    BY <2>1 DEF Fated, Fates, With
  <2> QED
    BY <2>1, <2>2 DEF Placed
<1> QED
  BY <1>1, PairInvariant, PTL

\* What did not fail is found by the next run that asks the same, and pairs/
\* holds nothing else (run_unwrap saves before it raises; PairCache.save).
THEOREM RestIsKept == PairSpec => []FailureKeepsTheRest
<1>1. PairInv => FailureKeepsTheRest
  <2> SUFFICES ASSUME PairInv, stage = "ended", partial
               PROVE  /\ \A p \in Asked : fate[p] # "failed" => legible /\ LookupHit(p)
                      /\ \A p \in Pairs : file[p] # NoFile => rows[p] # NoEntry
    BY DEF FailureKeepsTheRest
  <2>1. rows = entries /\ legible
    BY DEF PairInv, StageGood
  <2>2. ASSUME NEW p \in Asked, fate[p] # "failed" PROVE LookupHit(p)
    <3>1. p \in Pairs /\ Fated(p) /\ Entered(p)
      BY DEF PairInv, PairGood, Asked
    <3>2. fate[p] = "placed"
      BY <2>2, <3>1 DEF Fated, Fates
    <3> QED
      BY <2>1, <3>1, <3>2 DEF Entered, LookupHit
  <2> QED
    BY <2>1, <2>2 DEF PairInv, StageGood
<1> QED
  BY <1>1, PairInvariant, PTL

\* No step of a run loses a result that it wants and that the manifest vouches
\* for (PairCache.save prunes; a failed or dying run; the second round).
THEOREM WantedStays == PairSpec => WantedIsKept
<1>1. ASSUME PairInv, [PairNext]_pairvars, NEW p \in Asked PROVE NotLost(p)
  <2> SUFFICES ASSUME stage # "wipe", legible, LookupHit(p), file[p].ok, ~Rot(p)
               PROVE  /\ legible' /\ rows'[p].id = ask[p]
                      /\ file'[p].ok /\ file'[p].at = rows'[p].at
    BY DEF NotLost
  <2> USE <1>1 DEF PairInv
  <2>0. /\ p \in Pairs /\ ask[p] # NoIdentity /\ stage # "idle"
        /\ rows[p].id = ask[p] /\ file[p].at = rows[p].at
    BY DEF Asked, StageGood, LookupHit
  <2>1. partial
    BY <2>0 DEF StageGood, NoEntries, NoEntry
  <2>2. stage \in {"pool", "take", "write", "reuse", "save"} =>
          fate[p] \in {"reused", "placed"}
    BY <2>0 DEF PairGood, Reused
  <2>3. CASE UNCHANGED <<file, rows, legible>>
    BY <2>0, <2>3
  <2>4. ASSUME NEW q \in Pairs, TakePart(q) PROVE q # p
    BY <2>2, <2>4 DEF TakePart, First, With
  <2>5. ASSUME NEW q \in Pairs, StorePart(q) PROVE q # p
    BY <2>2, <2>5 DEF StorePart, PairGood, Writing
  <2>6. ASSUME NEW q \in Pairs, TakePart(q) \/ StorePart(q)
        PROVE  UNCHANGED <<rows, legible>> /\ file'[p] = file[p]
    BY <2>0, <2>4, <2>5, <2>6 DEF TakePart, StorePart, PairTypeOK
  <2>7. ASSUME SaveManifest
        PROVE  legible' /\ rows'[p] = entries[p] /\ file' = file
               /\ entries[p].id = ask[p] /\ entries[p].at = file[p].at
    <3>1. fate[p] \in {"reused", "placed"}
      BY <2>2, <2>7 DEF SaveManifest
    <3>2. Entered(p)
      BY <2>0 DEF PairGood
    <3> QED
      BY <2>1, <2>7, <3>1, <3>2 DEF SaveManifest, Entered
  <2>8. ASSUME NEW q \in Pairs, PruneFile(q)
        PROVE  UNCHANGED <<rows, legible>> /\ file'[p] = file[p]
    <3>1. rows = entries /\ entries[q] = NoEntry
      BY <2>1, <2>8 DEF PruneFile, Pruned, StageGood
    <3>2. q # p
      BY <2>0, <3>1 DEF NoEntry
    <3> QED
      BY <2>0, <2>8, <3>2 DEF PruneFile, PairTypeOK
  <2>9. ASSUME NEW q \in Pairs, Rot(q)
        PROVE  UNCHANGED <<rows, legible>> /\ file'[p] = file[p]
    <3>1. q # p
      BY <2>9
    <3> QED
      BY <2>0, <2>9, <3>1 DEF Rot, PairTypeOK
  <2>10. ~Wipe /\ ~RotManifest
    BY <2>0 DEF Wipe, RotManifest
  <2>11. CASE UNCHANGED pairvars
    BY <2>3, <2>11 DEF pairvars
  <2> QED
    <3>1. \/ UNCHANGED <<file, rows, legible>>
          \/ \E q \in Pairs : TakePart(q) \/ StorePart(q) \/ PruneFile(q) \/ Rot(q)
          \/ SaveManifest
      BY <2>10, <2>11, <1>1 DEF PairNext, PairWork, pairvars, BeginStage, Wiped, Lookup, JobStarts,
         JobEnds, PoolDrained, AllTaken, LoadReused, AllLoaded, AllPruned, Leave, Die, Gone,
         store
    <3> QED
      BY <2>0, <2>3, <2>6, <2>7, <2>8, <2>9, <3>1
<1>2. PairInv /\ [PairNext]_pairvars => [\A p \in Asked : NotLost(p)]_pairvars
  BY <1>1
<1> QED
  BY <1>2, PairInvariant, PTL DEF PairSpec, WantedIsKept

-----------------------------------------------------------------------------
(* AuxCache: one process at the entry, for any set of processes.            *)
(*                                                                         *)
(* As long as no lock of a live process was unlinked, the lock file names   *)
(* the one process that is inside (OwnLock), so a process that saw no       *)
(* marker when it took the lock is the only one who could have written one  *)
(* since (NoMarker), and the entry it removes is a broken one.              *)

\* The lock file is the one of the process that is inside.
OwnLock == \A c \in Fetchers : Inside(c) => lockfile.by = c

\* Nobody else has filled the entry since this process looked.
NoMarker == \A c \in Fetchers : step[c] \in {"fetch", "discard", "rename"} => ~Marked

Orderly == OwnLock /\ NoMarker /\ (Marked => Whole)

AuxInv == AuxTypeOK /\ (~stolen => Orderly)

LEMMA AuxInitInv == AuxInit => AuxInv
<1> SUFFICES ASSUME AuxInit PROVE AuxInv
  OBVIOUS
<1>1. AuxTypeOK
  BY DEF AuxInit, AuxTypeOK, Unlocked, FetchStep, Answer
<1>2. Orderly
  BY DEF AuxInit, Orderly, OwnLock, NoMarker, Inside, Marked
<1> QED
  BY <1>1, <1>2 DEF AuxInv

LEMMA AuxTypeStep == AuxTypeOK /\ [AuxNext]_auxvars => AuxTypeOK'
<1> SUFFICES ASSUME AuxTypeOK, [AuxNext]_auxvars PROVE AuxTypeOK'
  OBVIOUS
<1> USE FetcherAssumption DEF AuxTypeOK, FetchStep, Answer, Goes, Answers, Unlocked
<1>1. ASSUME NEW c \in Fetchers, Call(c) PROVE AuxTypeOK'
  BY <1>1 DEF Call
<1>2. ASSUME NEW c \in Fetchers, Acquire(c) PROVE AuxTypeOK'
  BY <1>2 DEF Acquire
<1>3. ASSUME NEW c \in Fetchers, Judge(c) PROVE AuxTypeOK'
  BY <1>3 DEF Judge
<1>4. ASSUME NEW c \in Fetchers, Steal(c) PROVE AuxTypeOK'
  BY <1>4 DEF Steal, Unlink, LockRemoved
<1>5. ASSUME NEW c \in Fetchers, Timeout(c) PROVE AuxTypeOK'
  BY <1>5 DEF Timeout, GivesUp
<1>6. ASSUME NEW c \in Fetchers, Check(c) PROVE AuxTypeOK'
  BY <1>6 DEF Check
<1>7. ASSUME NEW c \in Fetchers, Fetch(c) PROVE AuxTypeOK'
  BY <1>7 DEF Fetch
<1>8. ASSUME NEW c \in Fetchers, Discard(c) PROVE AuxTypeOK'
  <2>1. listed' \in [Fetchers -> SUBSET {"files", "marker"}]
    <3>1. CASE UNCHANGED listed
      BY <3>1
    <3>2. ASSUME NEW f \in listed[c], listed' = [listed EXCEPT ![c] = @ \ {f}]
          PROVE  listed' \in [Fetchers -> SUBSET {"files", "marker"}]
      <4>1. listed[c] \ {f} \in SUBSET {"files", "marker"}
        OBVIOUS
      <4> QED
        BY <3>2, <4>1
    <3> QED
      BY <1>8, <3>1, <3>2 DEF Discard
  <2>2. shelf' \subseteq {"files", "marker"}
    BY <1>8 DEF Discard
  <2>3. step' \in [Fetchers -> FetchStep]
    BY <1>8 DEF Discard
  <2> QED
    BY <1>8, <2>1, <2>2, <2>3 DEF Discard
<1>9. ASSUME NEW c \in Fetchers, Publish(c) PROVE AuxTypeOK'
  BY <1>9 DEF Publish
<1>10. ASSUME NEW c \in Fetchers, ReleaseEntry(c) PROVE AuxTypeOK'
  BY <1>10 DEF ReleaseEntry, Unlink, LockRemoved
<1>11. ASSUME NEW c \in Fetchers, FetcherDies(c) PROVE AuxTypeOK'
  BY <1>11 DEF FetcherDies
<1>12. CASE LockAges
  BY <1>12 DEF LockAges
<1>13. CASE UNCHANGED auxvars
  BY <1>13 DEF auxvars
<1> QED
  BY <1>1, <1>2, <1>3, <1>4, <1>5, <1>6, <1>7, <1>8, <1>9, <1>10, <1>11, <1>12, <1>13
  DEF AuxNext, FetchWork

\* Unlinking a lock and noticing nothing: nobody else was inside.
LEMMA UnlinkHonest ==
    ASSUME NEW c \in Fetchers, AuxTypeOK, OwnLock, Unlink(c), ~stolen'
    PROVE  \A d \in Fetchers \ {c} : ~Inside(d)
BY DEF Unlink, OwnLock

LEMMA OrderlyStep == AuxTypeOK /\ ~stolen' /\ Orderly /\ [AuxNext]_auxvars => Orderly'
<1> SUFFICES ASSUME AuxTypeOK, ~stolen', Orderly, [AuxNext]_auxvars PROVE Orderly'
  OBVIOUS
<1> USE DEF AuxTypeOK, Orderly, OwnLock, NoMarker, Inside, Marked, Whole, Goes, Unlocked
<1>1. ASSUME NEW c \in Fetchers, Call(c) PROVE Orderly'
  BY <1>1 DEF Call
<1>2. ASSUME NEW c \in Fetchers, Acquire(c) PROVE Orderly'
  BY <1>2, FetcherAssumption DEF Acquire
<1>3. ASSUME NEW c \in Fetchers, Judge(c) PROVE Orderly'
  BY <1>3 DEF Judge
<1>4. ASSUME NEW c \in Fetchers, Steal(c) PROVE Orderly'
  <2>1. \A d \in Fetchers : ~Inside(d)
    BY <1>4, UnlinkHonest DEF Steal
  <2> QED
    BY <1>4, <2>1 DEF Steal
<1>5. ASSUME NEW c \in Fetchers, Timeout(c) PROVE Orderly'
  BY <1>5 DEF Timeout, GivesUp
<1>6. ASSUME NEW c \in Fetchers, Check(c) PROVE Orderly'
  BY <1>6 DEF Check, FilledMeanwhile
<1>7. ASSUME NEW c \in Fetchers, Fetch(c) PROVE Orderly'
  BY <1>7 DEF Fetch
<1>8. ASSUME NEW c \in Fetchers, Discard(c) PROVE Orderly'
  BY <1>8 DEF Discard
<1>9. ASSUME NEW c \in Fetchers, Publish(c) PROVE Orderly'
  BY <1>9 DEF Publish
<1>10. ASSUME NEW c \in Fetchers, ReleaseEntry(c) PROVE Orderly'
  <2>1. \A d \in Fetchers \ {c} : ~Inside(d)
    BY <1>10, UnlinkHonest DEF ReleaseEntry
  <2> QED
    BY <1>10, <2>1 DEF ReleaseEntry
<1>11. ASSUME NEW c \in Fetchers, FetcherDies(c) PROVE Orderly'
  BY <1>11 DEF FetcherDies
<1>12. CASE LockAges
  BY <1>12 DEF LockAges
<1>13. CASE UNCHANGED auxvars
  BY <1>13 DEF auxvars
<1> QED
  BY <1>1, <1>2, <1>3, <1>4, <1>5, <1>6, <1>7, <1>8, <1>9, <1>10, <1>11, <1>12, <1>13
  DEF AuxNext, FetchWork

\* What was once stolen stays so.
LEMMA StolenStays == stolen /\ [AuxNext]_auxvars => stolen'
BY DEF AuxNext, FetchWork, Call, Acquire, Judge, Steal, Timeout, Check, Fetch, Discard,
       Publish, ReleaseEntry, FetcherDies, LockAges, Unlink, auxvars

LEMMA AuxInvariant == AuxSpec => []AuxInv
<1>1. AuxInit => AuxInv
  BY AuxInitInv
<1>2. AuxInv /\ [AuxNext]_auxvars => AuxInv'
  BY AuxTypeStep, OrderlyStep, StolenStays DEF AuxInv
<1> QED
  BY <1>1, <1>2, PTL DEF AuxSpec

\* The variables of aux_cache.py's locks and entries stay in their ranges.
THEOREM AuxTypes == AuxSpec => []AuxTypeOK
<1>1. AuxInv => AuxTypeOK
  BY DEF AuxInv
<1> QED
  BY <1>1, AuxInvariant, PTL

LEMMA AtMostOne ==
    ASSUME NEW S, \A x \in S, y \in S : x = y
    PROVE  Cardinality(S) <= 1
<1>1. CASE S = {}
  BY <1>1, FS_EmptySet
<1>2. CASE S # {}
  <2>1. PICK x \in S : TRUE
    BY <1>2
  <2>2. S = {x}
    BY <2>1
  <2> QED
    BY <2>2, FS_Singleton
<1> QED
  BY <1>1, <1>2

\* cached_fetch: while no live process's lock was judged stale, one process at
\* a time is between taking the lock and releasing it, `.complete` stands for
\* a whole entry, and what rmtree removes to make room is not a whole entry.
THEOREM OneAtTheEntryHolds == AuxSpec => []OneAtTheEntry
<1>1. AuxInv => OneAtTheEntry
  <2> SUFFICES ASSUME AuxInv, ~stolen
               PROVE  /\ Cardinality({c \in Fetchers : Inside(c)}) <= 1
                      /\ Marked => Whole
                      /\ \A c \in Fetchers : step[c] = "discard" => ~Marked
    BY DEF OneAtTheEntry
  <2>1. \A x \in {c \in Fetchers : Inside(c)}, y \in {c \in Fetchers : Inside(c)} : x = y
    BY DEF AuxInv, Orderly, OwnLock
  <2>2. Cardinality({c \in Fetchers : Inside(c)}) <= 1
    BY <2>1, AtMostOne
  <2> QED
    BY <2>2 DEF AuxInv, Orderly, NoMarker
<1> QED
  BY <1>1, AuxInvariant, PTL

-----------------------------------------------------------------------------
(* QgisDock: every job is answered, for any number of jobs.                 *)
(*                                                                         *)
(* One job lives at a time (OneAtATime), and it puts its response on the    *)
(* queue last: the responses on the queue are those of the jobs that are    *)
(* over and not shown yet (QueueTrue, NoneLost), in order (QueueInOrder), so*)
(* the next one that the GUI takes is of the next job (ShownInOrder).  The  *)
(* note of a cancel stays until it is the answer (StopNoted).               *)

\* The jobs run one after the other.
OneAtATime ==
    \A j \in DockJobs : /\ (thread[j] = "none") <=> (j > started)
                        /\ j < started => thread[j] = "dead"

Told(j) == thread[j] \in {"put", "dead"}

Done(j) == [kind |-> "done", job |-> j]

\* What is on the queue is of jobs that were started; a response is of a job
\* that has put it there and was not shown yet.
QueueTrue ==
    \A i \in DOMAIN queue :
        /\ queue[i].job <= started
        /\ queue[i].kind = "done" => queue[i].job > Len(shown) /\ Told(queue[i].job)

QueueInOrder ==
    \A i \in DOMAIN queue : \A k \in DOMAIN queue :
        queue[i].kind = "done" /\ i < k => queue[k].job > queue[i].job

ShownInOrder ==
    /\ Len(shown) <= started
    /\ \A i \in DOMAIN shown : shown[i] = i
    /\ \A j \in DockJobs : j <= Len(shown) => Told(j)

NoneLost ==
    \A j \in DockJobs :
        Told(j) => j <= Len(shown) \/ \E i \in DOMAIN queue : queue[i] = Done(j)

StatusTrue == status \in {0, started} /\ (status # 0 => status > Len(shown))

\* A cancel that signalled is noted until it is the answer.
StopNoted ==
    \A j \in DockJobs :
        signalled[j] => \/ HasProcess(j) /\ wantStop[j]
                        \/ /\ thread[j] \in {"report", "put", "dead"}
                           /\ reply[j] = "CANCELLED"

InTurn ==
    OneAtATime /\ QueueTrue /\ QueueInOrder /\ ShownInOrder /\ NoneLost /\ StatusTrue

DockInv == DockTypeOK /\ InTurn /\ StopNoted

LEMMA QueueFacts ==
    ASSUME NEW S, NEW q \in Seq(S)
    PROVE  /\ Len(q) \in Nat /\ DOMAIN q = 1 .. Len(q) /\ \A i \in DOMAIN q : q[i] \in S
           /\ q # << >> => /\ Head(q) = q[1] /\ Head(q) \in S /\ 1 \in DOMAIN q
                           /\ Tail(q) \in Seq(S) /\ DOMAIN Tail(q) = 1 .. (Len(q) - 1)
                           /\ \A i \in 1 .. (Len(q) - 1) : Tail(q)[i] = q[i + 1]
OBVIOUS

LEMMA AppendFacts ==
    ASSUME NEW S, NEW q \in Seq(S), NEW e \in S
    PROVE  /\ Append(q, e) \in Seq(S) /\ Append(q, e) = q \o <<e>>
           /\ DOMAIN Append(q, e) = 1 .. (Len(q) + 1) /\ Append(q, e)[Len(q) + 1] = e
           /\ \A i \in 1 .. Len(q) : Append(q, e)[i] = q[i]
OBVIOUS

LEMMA MessagesAre ==
    /\ \A m \in Message : m.job \in DockJobs /\ m.kind \in {"line", "done"}
                          /\ m = [kind |-> m.kind, job |-> m.job]
    /\ \A j \in DockJobs : /\ Done(j) \in Message /\ Done(j).job = j /\ Done(j).kind = "done"
                           /\ [kind |-> "line", job |-> j] \in Message
BY DEF Message, Done

JobTypes ==
    /\ cmd \in [DockJobs -> Commands \union {"none"}]
    /\ thread \in [DockJobs -> ThreadState]
    /\ wantStop \in [DockJobs -> BOOLEAN]
    /\ signalled \in [DockJobs -> BOOLEAN]
    /\ reply \in [DockJobs -> Response]

ProcessTypes ==
    /\ leader \in [DockJobs -> {"none", "up", "exited", "waited"}]
    /\ engine \in [DockJobs -> {"none", "holding", "quiet"}]
    /\ killer \in [DockJobs -> BOOLEAN]

GuiTypes ==
    /\ started \in 0 .. MaxJobs /\ client \in 0 .. MaxJobs /\ status \in 0 .. MaxJobs
    /\ fields \subseteq {"config", "candidates", "series", "truth"}
    /\ unloaded \in BOOLEAN

QueueTypes == queue \in Seq(Message) /\ shown \in Seq(DockJobs)

LEMMA DockTypesAre == DockTypeOK <=> JobTypes /\ ProcessTypes /\ GuiTypes /\ QueueTypes
BY DEF DockTypeOK, JobTypes, ProcessTypes, GuiTypes, QueueTypes

LEMMA JobTypesStep == JobTypes /\ GuiTypes /\ DockNext => JobTypes'
<1> SUFFICES ASSUME JobTypes, GuiTypes, DockNext PROVE JobTypes'
    OBVIOUS
<1> USE DEF JobTypes
<1>1. ASSUME NEW c \in Commands, Click(c) PROVE JobTypes'
    BY <1>1 DEF Click, Moves, ThreadState
<1>2. CASE Drain \/ \E f \in UNION {Needs(c) : c \in Commands} : TypeField(f)
    BY <1>2 DEF TypeField, Drain
<1>3. CASE Cancel \/ Shutdown
    <2>1. CancelClient /\ UNCHANGED <<cmd, thread, reply>>
        BY <1>3 DEF Cancel, Shutdown
    <2>2. wantStop' \in [DockJobs -> BOOLEAN] /\ signalled' \in [DockJobs -> BOOLEAN]
        BY <2>1 DEF CancelClient, Noted
    <2> QED
        BY <2>1, <2>2
<1>4. ASSUME NEW j \in DockJobs, Worker(j) PROVE JobTypes'
    <2>1. CASE MakeClient(j) \/ Waited(j) \/ Kills(j) \/ Report(j) \/ ThreadEnds(j)
        BY <2>1 DEF MakeClient, Waited, Kills, Report, ThreadEnds, Moves, ThreadState
    <2>2. CASE Popen(j)
        BY <2>2 DEF Popen, Moves, ThreadState, Response
    <2>3. CASE Register(j)
        BY <2>3 DEF Register, Moves, ThreadState
    <2>4. CASE TimesOut(j)
        BY <2>4 DEF TimesOut, Moves, ThreadState, Response
    <2>5. CASE Joined(j)
        <3>1. PICK r \in {"ok", "not ok", "CLI_ERROR"} :
                 reply' = [reply EXCEPT ![j] = IF wantStop[j] THEN "CANCELLED"
                                               ELSE IF @ = "TIMEOUT" THEN @ ELSE r]
            BY <2>5 DEF Joined
        <3>2. reply' \in [DockJobs -> Response]
            BY <3>1 DEF Response
        <3> QED
            BY <2>5, <3>2 DEF Joined, Moves, ThreadState
    <2> QED
        BY <1>4, <2>1, <2>2, <2>3, <2>4, <2>5 DEF Worker
<1>5. ASSUME NEW j \in DockJobs,
             LineRead(j) \/ EngineStarts(j) \/ EngineEnds(j) \/ LeaderExits(j) \/ Escalate(j)
      PROVE  JobTypes'
    BY <1>5 DEF LineRead, EngineStarts, EngineEnds, LeaderExits, Escalate
<1> QED
    BY <1>1, <1>2, <1>3, <1>4, <1>5 DEF DockNext

LEMMA ProcessTypesStep == ProcessTypes /\ DockNext => ProcessTypes'
<1> SUFFICES ASSUME ProcessTypes, DockNext PROVE ProcessTypes'
    OBVIOUS
<1> USE DEF ProcessTypes, procs
<1>1. CASE \/ Drain \/ \E f \in UNION {Needs(c) : c \in Commands} : TypeField(f)
           \/ \E c \in Commands : Click(c)
           \/ \E j \in DockJobs : LineRead(j)
    BY <1>1 DEF TypeField, Drain, Click, LineRead
<1>2. CASE Cancel \/ Shutdown
    <2>1. CancelClient /\ UNCHANGED <<leader, engine>>
        BY <1>2 DEF Cancel, Shutdown
    <2>2. killer' \in [DockJobs -> BOOLEAN]
        BY <2>1 DEF CancelClient
    <2> QED
        BY <2>1, <2>2
<1>3. ASSUME NEW j \in DockJobs, Worker(j) PROVE ProcessTypes'
    <2>1. CASE Popen(j) \/ Waited(j) \/ Kills(j)
        BY <2>1 DEF Popen, Waited, Kills, EngineKilled
    <2>2. CASE MakeClient(j) \/ Register(j) \/ TimesOut(j) \/ Joined(j) \/ Report(j) \/ ThreadEnds(j)
        BY <2>2 DEF MakeClient, Register, TimesOut, Joined, Report, ThreadEnds
    <2> QED
        BY <1>3, <2>1, <2>2 DEF Worker
<1>4. ASSUME NEW j \in DockJobs, EngineStarts(j) \/ EngineEnds(j) \/ LeaderExits(j)
      PROVE  ProcessTypes'
    BY <1>4 DEF EngineStarts, EngineEnds, LeaderExits
<1>5. ASSUME NEW j \in DockJobs, Escalate(j) PROVE ProcessTypes'
    BY <1>5 DEF Escalate, KillGroup
<1> QED
    BY <1>1, <1>2, <1>3, <1>4, <1>5 DEF DockNext

LEMMA GuiTypesStep == GuiTypes /\ DockNext => GuiTypes'
<1> SUFFICES ASSUME GuiTypes, DockNext PROVE GuiTypes'
    OBVIOUS
<1> USE JobAssumption DEF GuiTypes
<1>1. ASSUME NEW c \in Commands, Click(c) PROVE GuiTypes'
    BY <1>1 DEF Click
<1>2. ASSUME NEW f \in UNION {Needs(c) : c \in Commands}, TypeField(f) PROVE GuiTypes'
    <2>1. PICK c \in Commands : f \in Needs(c)
        OBVIOUS
    <2>2. f \in {"config", "candidates", "series", "truth"}
        <3> HIDE DEF GuiTypes
        <3> QED
            BY <2>1 DEF Needs
    <2> QED
        BY <1>2, <2>2 DEF TypeField
<1>3. CASE Drain
    <2>2. UNCHANGED <<started, client, unloaded>> /\ status' \in {status, 0}
        BY <1>3 DEF Drain
    <2>3. \/ fields' = fields
          \/ fields' = fields \union Yields(cmd[Head(queue).job])
        BY <1>3 DEF Drain
    <2>4. Yields(cmd[Head(queue).job]) \subseteq {"config", "candidates", "series", "truth"}
        BY DEF Yields
    <2>5. fields' \subseteq {"config", "candidates", "series", "truth"}
        BY <2>3, <2>4
    <2>6. status' \in 0 .. MaxJobs
        BY <2>2
    <2> QED
        BY <2>2, <2>5, <2>6
<1>4. CASE Cancel \/ Shutdown
    BY <1>4 DEF Cancel, Shutdown, gui
<1>5. ASSUME NEW j \in DockJobs, Worker(j) PROVE GuiTypes'
    <2>1. CASE MakeClient(j)
        <3>1. client' \in {client, j} /\ UNCHANGED <<started, status, fields, unloaded>>
            BY <2>1 DEF MakeClient
        <3> QED
            BY <3>1 DEF DockJobs
    <2>2. CASE ~MakeClient(j)
        <3>1. UNCHANGED gui
            BY <1>5, <2>2 DEF Worker, Popen, Register, Waited, TimesOut, Kills, Joined, Report,
               ThreadEnds
        <3> QED
            BY <3>1 DEF gui
    <2> QED
        BY <2>1, <2>2
<1>6. ASSUME NEW j \in DockJobs,
             LineRead(j) \/ EngineStarts(j) \/ EngineEnds(j) \/ LeaderExits(j) \/ Escalate(j)
      PROVE  GuiTypes'
    BY <1>6 DEF LineRead, EngineStarts, EngineEnds, LeaderExits, Escalate, gui
<1> QED
    BY <1>1, <1>2, <1>3, <1>4, <1>5, <1>6 DEF DockNext

LEMMA QueueTypesStep == QueueTypes /\ DockNext => QueueTypes'
<1> SUFFICES ASSUME QueueTypes, DockNext PROVE QueueTypes'
    OBVIOUS
<1> USE DEF QueueTypes, gui
<1>1. CASE Drain
    <2>1. queue # <<>> /\ queue' = Tail(queue)
        BY <1>1 DEF Drain
    <2>2. queue' \in Seq(Message) /\ Head(queue).job \in DockJobs
        BY <2>1, QueueFacts, MessagesAre
    <2>3. shown' = shown \/ shown' = Append(shown, Head(queue).job)
        BY <1>1 DEF Drain
    <2> QED
        BY <2>2, <2>3, AppendFacts
<1>2. ASSUME NEW j \in DockJobs, LineRead(j) \/ Report(j) PROVE QueueTypes'
    <2>1. PICK e \in Message : queue' = Append(queue, e)
        <3>1. CASE LineRead(j)
            BY <3>1, MessagesAre DEF LineRead
        <3>2. CASE Report(j)
            <4>1. queue' = queue \o << Done(j) >> /\ Done(j) \in Message
                BY <3>2, MessagesAre DEF Report, Reported, Done
            <4> QED
                BY <4>1, AppendFacts
        <3> QED
            BY <1>2, <3>1, <3>2
    <2>2. queue' \in Seq(Message)
        BY <2>1, AppendFacts
    <2> QED
        BY <1>2, <2>2 DEF LineRead, Report
<1>3. ASSUME NEW j \in DockJobs, Worker(j), ~Report(j) PROVE QueueTypes'
    BY <1>3 DEF Worker, MakeClient, Popen, Register, Waited, TimesOut, Kills, Joined, ThreadEnds
<1>4. CASE \/ \E f \in UNION {Needs(c) : c \in Commands} : TypeField(f)
           \/ \E c \in Commands : Click(c)
           \/ Cancel \/ Shutdown
    BY <1>4 DEF TypeField, Click, Cancel, Shutdown
<1>5. ASSUME NEW j \in DockJobs, EngineStarts(j) \/ EngineEnds(j) \/ LeaderExits(j) \/ Escalate(j)
      PROVE  QueueTypes'
    BY <1>5 DEF EngineStarts, EngineEnds, LeaderExits, Escalate
<1> QED
    BY <1>1, <1>2, <1>3, <1>4, <1>5 DEF DockNext

LEMMA DockTypeStep == DockTypeOK /\ [DockNext]_dockvars => DockTypeOK'
<1>1. ASSUME DockTypeOK, DockNext PROVE DockTypeOK'
    <2>1. JobTypes /\ ProcessTypes /\ GuiTypes /\ QueueTypes
        BY <1>1, DockTypesAre
    <2>2. JobTypes' /\ ProcessTypes' /\ GuiTypes' /\ QueueTypes'
        BY <1>1, <2>1, JobTypesStep, ProcessTypesStep, GuiTypesStep, QueueTypesStep
    <2> QED
        BY <2>2 DEF DockTypeOK, JobTypes, ProcessTypes, GuiTypes, QueueTypes
<1>2. DockTypeOK /\ UNCHANGED dockvars => DockTypeOK'
    BY DEF DockTypeOK, dockvars
<1> QED
    BY <1>1, <1>2

LEMMA DockInitInv == DockInit => DockInv
<1> SUFFICES ASSUME DockInit PROVE DockInv
    OBVIOUS
<1>1. DockTypeOK
    <2>1. JobTypes
        BY DEF DockInit, JobTypes, ThreadState, Response
    <2>2. ProcessTypes
        BY DEF DockInit, ProcessTypes
    <2>3. GuiTypes
        <3>1. started = 0 /\ client = 0 /\ status = 0 /\ fields = {} /\ unloaded = FALSE
            BY DEF DockInit
        <3>2. 0 \in 0 .. MaxJobs /\ FALSE \in BOOLEAN
            BY JobAssumption
        <3> QED
            BY <3>1, <3>2 DEF GuiTypes
    <2>4. QueueTypes
        BY DEF DockInit, QueueTypes
    <2> QED
        BY <2>1, <2>2, <2>3, <2>4, DockTypesAre
<1>2. InTurn
    BY JobAssumption DEF DockInit, InTurn, OneAtATime, QueueTrue, QueueInOrder, ShownInOrder,
       NoneLost, StatusTrue, Told, DockJobs
<1>3. StopNoted
    BY DEF DockInit, StopNoted
<1> QED
    BY <1>1, <1>2, <1>3 DEF DockInv

\* A step of a job that has not told its answer yet, and does not now.
LEMMA QuietInTurn ==
    ASSUME DockTypeOK, InTurn, NEW j \in DockJobs, thread[j] \notin {"none", "put", "dead"},
           thread' = thread \/ \E to \in ThreadState \ {"none", "put", "dead"} : Moves(j, to),
           UNCHANGED <<started, queue, shown, status>>
    PROVE  InTurn'
<1>1. \A k \in DockJobs : /\ (thread'[k] = "none") <=> (thread[k] = "none")
                          /\ (thread'[k] = "dead") <=> (thread[k] = "dead")
                          /\ (thread'[k] = "put") <=> (thread[k] = "put")
    BY DEF DockTypeOK, Moves
<1>2. OneAtATime'
    BY <1>1 DEF InTurn, OneAtATime
<1>3. \A k \in DockJobs : Told(k)' <=> Told(k)
    BY <1>1 DEF Told
<1>4. \A i \in DOMAIN queue : queue[i].job \in DockJobs
    BY QueueFacts, MessagesAre DEF DockTypeOK
<1>5. QueueTrue'
    BY <1>3, <1>4 DEF InTurn, QueueTrue
<1>6. ShownInOrder' /\ NoneLost'
    BY <1>3 DEF InTurn, ShownInOrder, NoneLost
<1> QED
    BY <1>2, <1>5, <1>6 DEF InTurn, QueueInOrder, StatusTrue

LEMMA ClickInTurn ==
    ASSUME DockTypeOK, InTurn, NEW c \in Commands, Click(c)
    PROVE  InTurn'
<1>1. started \in Nat /\ started + 1 \in DockJobs /\ started' = started + 1
    BY JobAssumption DEF DockTypeOK, Click, DockJobs
<1>2. \A k \in DockJobs : thread'[k] = IF k = started + 1 THEN "spawned" ELSE thread[k]
    BY <1>1 DEF Click, Moves, DockTypeOK
<1>3. thread[started + 1] = "none" /\ (started > 0 => thread[started] = "dead")
    <2>1. thread[started + 1] = "none"
        BY <1>1 DEF InTurn, OneAtATime
    <2>2. ASSUME started > 0 PROVE thread[started] = "dead"
        <3>1. started \in DockJobs /\ ~(started > started)
            BY <2>2, JobAssumption DEF DockJobs, DockTypeOK
        <3>2. thread[started] # "none" /\ ~Alive(started)
            BY <2>2, <3>1 DEF InTurn, OneAtATime, Click
        <3> QED
            BY <3>2 DEF Alive
    <2> QED
        BY <2>1, <2>2
<1>4. OneAtATime'
    BY <1>1, <1>2, <1>3 DEF InTurn, OneAtATime, DockJobs
<1>5. \A k \in DockJobs : Told(k)' <=> Told(k)
    BY <1>2, <1>3 DEF Told
<1>6. UNCHANGED <<queue, shown>> /\ status' = started + 1
    BY DEF Click
<1>7. \A i \in DOMAIN queue : queue[i].job \in DockJobs
    BY QueueFacts, MessagesAre DEF DockTypeOK
<1>8. QueueTrue'
    BY <1>1, <1>5, <1>6, <1>7 DEF InTurn, QueueTrue, DockJobs
<1>9. Len(shown) \in Nat
    BY DEF DockTypeOK
<1>10. ShownInOrder' /\ NoneLost' /\ StatusTrue'
    BY <1>1, <1>5, <1>6, <1>9 DEF InTurn, ShownInOrder, NoneLost, StatusTrue
<1> QED
    BY <1>4, <1>6, <1>8, <1>10 DEF InTurn, QueueInOrder

LEMMA DrainInTurn ==
    ASSUME DockTypeOK, InTurn, Drain
    PROVE  InTurn'
<1> DEFINE m == Head(queue)
           n == Len(shown)
<1>1. queue \in Seq(Message) /\ queue # <<>> /\ queue' = Tail(queue)
    BY DEF Drain, DockTypeOK
<1>2. /\ m = queue[1] /\ 1 \in DOMAIN queue /\ m \in Message
      /\ \A i \in DOMAIN queue' : i + 1 \in DOMAIN queue /\ queue'[i] = queue[i + 1] /\ i \in Nat
      /\ \A i \in DOMAIN queue : i \in Nat /\ (i # 1 => i - 1 \in DOMAIN queue')
    BY <1>1
<1>3. UNCHANGED <<thread, started>>
    BY DEF Drain
<1>4. n \in Nat /\ shown \in Seq(DockJobs) /\ started \in 0 .. MaxJobs /\ MaxJobs \in Nat
    BY JobAssumption DEF DockTypeOK
<1>5. QueueInOrder'
    <2> HIDE DEF m, n
    <2> QED
        BY <1>2 DEF InTurn, QueueInOrder
<1>6. CASE m.kind = "line"
    <2>1. UNCHANGED <<shown, status>>
        BY <1>6 DEF Drain
    <2>2. QueueTrue'
        BY <1>2, <1>3, <2>1 DEF InTurn, QueueTrue, Told
    <2>3. NoneLost'
        <3> SUFFICES ASSUME NEW j \in DockJobs, Told(j), ~(j <= n)
                     PROVE  \E i \in DOMAIN queue' : queue'[i] = Done(j)
            BY <1>3, <2>1 DEF NoneLost, Told
        <3>1. PICK i \in DOMAIN queue : queue[i] = Done(j)
            BY DEF InTurn, NoneLost
        <3>2. i # 1
            BY <1>2, <1>6, <3>1 DEF Done
        <3>3. i - 1 \in DOMAIN queue' /\ queue'[i - 1] = queue[i]
            BY <1>2, <3>2
        <3> QED
            BY <3>1, <3>3
    <2> QED
        BY <1>3, <1>5, <2>1, <2>2, <2>3 DEF InTurn, OneAtATime, ShownInOrder, StatusTrue, Told
<1>7. CASE m.kind # "line"
    <2>1. shown' = Append(shown, m.job) /\ status' = 0
        BY <1>7 DEF Drain
    <2>2. m.kind = "done" /\ m.job \in DockJobs /\ m = Done(m.job)
        BY <1>2, <1>7 DEF Message, Done
    <2>3. m.job > n /\ Told(m.job) /\ m.job <= started
        BY <1>2, <2>2 DEF InTurn, QueueTrue
    <2>4. m.job = n + 1
        <3> SUFFICES ASSUME m.job > n + 1 PROVE FALSE
            BY <1>4, <2>2, <2>3 DEF DockJobs
        <3>1. n + 1 \in DockJobs /\ n + 1 < started
            BY <1>4, <2>2, <2>3 DEF DockJobs
        <3>2. Told(n + 1)
            BY <3>1 DEF InTurn, OneAtATime, Told
        <3>3. PICK i \in DOMAIN queue : queue[i] = Done(n + 1)
            BY <1>4, <3>1, <3>2 DEF InTurn, NoneLost
        <3>4. i # 1 /\ queue[i].job = n + 1
            BY <1>2, <3>3 DEF Done
        <3>5. i > 1
            BY <1>1, <3>4
        <3>6. queue[i].job > m.job
            BY <1>2, <2>2, <3>5 DEF InTurn, QueueInOrder
        <3> QED
            BY <1>4, <2>2, <3>4, <3>6 DEF DockJobs
    <2>5. Len(shown') = n + 1 /\ \A i \in DOMAIN shown' : shown'[i] = i
        BY <1>4, <2>1, <2>2, <2>4 DEF InTurn, ShownInOrder
    <2>6. ShownInOrder'
        BY <1>3, <1>4, <2>3, <2>4, <2>5 DEF InTurn, ShownInOrder, Told, DockJobs
    <2>7. QueueTrue'
        <3> SUFFICES ASSUME NEW i \in DOMAIN queue'
                     PROVE  /\ queue'[i].job <= started
                            /\ queue'[i].kind = "done" => queue'[i].job > n + 1 /\ Told(queue'[i].job)
            BY <1>3, <2>5 DEF QueueTrue, Told
        <3>1. i + 1 \in DOMAIN queue /\ queue'[i] = queue[i + 1] /\ 1 < i + 1
            BY <1>1, <1>2
        <3>2. queue[i + 1].job > m.job
            BY <1>2, <2>2, <3>1 DEF InTurn, QueueInOrder
        <3> QED
            BY <2>4, <3>1, <3>2 DEF InTurn, QueueTrue
    <2>8. NoneLost'
        <3> SUFFICES ASSUME NEW j \in DockJobs, Told(j), ~(j <= n + 1)
                     PROVE  \E i \in DOMAIN queue' : queue'[i] = Done(j)
            BY <1>3, <2>5 DEF NoneLost, Told
        <3>1. PICK i \in DOMAIN queue : queue[i] = Done(j)
            BY <1>4 DEF InTurn, NoneLost, DockJobs
        <3>2. i # 1
            BY <1>2, <1>4, <2>2, <2>4, <3>1 DEF Done
        <3>3. i - 1 \in DOMAIN queue' /\ queue'[i - 1] = queue[i]
            BY <1>2, <3>2
        <3> QED
            BY <3>1, <3>3
    <2> QED
        BY <1>3, <1>5, <2>1, <2>6, <2>7, <2>8 DEF InTurn, OneAtATime, StatusTrue
<1> QED
    BY <1>6, <1>7

\* The thread of a job adds a message to the queue.
LEMMA MessageInTurn ==
    ASSUME DockTypeOK, InTurn, NEW j \in DockJobs, LineRead(j) \/ Report(j)
    PROVE  InTurn'
<1> DEFINE e == IF LineRead(j) THEN [kind |-> "line", job |-> j] ELSE Done(j)
           z == Len(queue) + 1
<1>1. queue \in Seq(Message) /\ queue' = Append(queue, e) /\ e.job = j /\ e \in Message
    <2>1. queue \in Seq(Message) /\ e.job = j /\ e \in Message
        BY MessagesAre DEF DockTypeOK
    <2>2. CASE LineRead(j)
        BY <2>1, <2>2 DEF LineRead
    <2>3. CASE ~LineRead(j)
        BY <2>1, <2>3, AppendFacts DEF Report, Reported, Done
    <2> QED
        BY <2>1, <2>2, <2>3
<1>2. /\ DOMAIN queue = 1 .. Len(queue) /\ DOMAIN queue' = 1 .. z /\ queue'[z] = e
      /\ \A i \in DOMAIN queue : queue'[i] = queue[i] /\ queue[i] \in Message /\ i < z /\ i \in 1 .. z
      /\ \A i \in 1 .. z : i = z \/ i \in DOMAIN queue
      /\ Len(queue) \in Nat /\ z \in 1 .. z
    <2> HIDE DEF e
    <2> QED
        BY <1>1, AppendFacts, QueueFacts
<1>3. UNCHANGED <<started, shown, status>>
    BY DEF LineRead, Report, gui
<1>4. thread[j] \notin {"none", "put", "dead"} /\ j = started
    <2>1. thread[j] \notin {"none", "put", "dead"}
        BY DEF LineRead, Report, HasProcess
    <2>2. ~(j > started) /\ ~(j < started)
        BY <2>1 DEF InTurn, OneAtATime
    <2> QED
        BY <2>1, <2>2, JobAssumption DEF DockJobs, DockTypeOK
<1>5. \A k \in DockJobs : thread'[k] = IF k = j /\ ~LineRead(j) THEN "put" ELSE thread[k]
    BY DEF LineRead, Report, Moves, DockTypeOK
<1>6. OneAtATime'
    BY <1>3, <1>4, <1>5, JobAssumption DEF InTurn, OneAtATime, DockJobs
<1>7. \A k \in DockJobs : Told(k) => Told(k)'
    BY <1>5 DEF Told
<1>8. Len(shown) < j
    <2>1. ~(j <= Len(shown))
        BY <1>4 DEF InTurn, ShownInOrder, Told
    <2> QED
        BY <2>1 DEF DockTypeOK, DockJobs
<1>9. QueueTrue'
    <2> SUFFICES ASSUME NEW i \in 1 .. z
                 PROVE  /\ queue'[i].job <= started
                        /\ queue'[i].kind = "done" =>
                              /\ queue'[i].job > Len(shown)
                              /\ thread'[queue'[i].job] \in {"put", "dead"}
        BY <1>2, <1>3 DEF QueueTrue, Told
    <2>1. CASE i = z
        <3>1. started <= started
            BY JobAssumption DEF DockTypeOK
        <3>2. e.kind = "done" => thread'[j] \in {"put", "dead"}
            BY <1>5 DEF Done
        <3> QED
            BY <1>1, <1>2, <1>4, <1>8, <2>1, <3>1, <3>2 DEF DockJobs
    <2>2. CASE i \in DOMAIN queue
        <3>1. queue'[i] = queue[i] /\ queue[i].job \in DockJobs
            BY <1>2, <2>2, MessagesAre
        <3> QED
            BY <1>7, <2>2, <3>1 DEF InTurn, QueueTrue, Told
    <2> QED
        BY <1>2, <2>1, <2>2
<1>10. QueueInOrder'
    <2> SUFFICES ASSUME NEW i \in 1 .. z, NEW k \in 1 .. z, queue'[i].kind = "done", i < k
                 PROVE  queue'[k].job > queue'[i].job
        BY <1>2 DEF QueueInOrder
    <2>1. i \in DOMAIN queue /\ queue'[i] = queue[i] /\ queue[i].job \in DockJobs
        BY <1>2 DEF Message
    <2>2. CASE k = z
        <3>1. Told(queue[i].job) /\ queue[i].job <= started
            BY <2>1 DEF InTurn, QueueTrue
        <3>2. queue[i].job # j
            BY <1>4, <3>1 DEF Told
        <3> QED
            BY <1>1, <1>2, <1>4, <2>1, <2>2, <3>1, <3>2 DEF DockJobs
    <2>3. CASE k \in DOMAIN queue
        BY <1>2, <2>1, <2>3 DEF InTurn, QueueInOrder
    <2> QED
        BY <1>2, <2>2, <2>3
<1>11. NoneLost'
    <2> SUFFICES ASSUME NEW k \in DockJobs, Told(k)', ~(k <= Len(shown))
                 PROVE  \E i \in 1 .. z : queue'[i] = Done(k)
        BY <1>2, <1>3 DEF NoneLost
    <2>1. CASE Told(k)
        <3>1. PICK i \in DOMAIN queue : queue[i] = Done(k)
            BY <2>1 DEF InTurn, NoneLost
        <3> QED
            BY <1>2, <3>1
    <2>2. CASE ~Told(k)
        <3>1. k = j /\ ~LineRead(j)
            BY <1>5, <2>2 DEF Told
        <3> QED
            BY <1>2, <3>1
    <2> QED
        BY <2>1, <2>2
<1>12. ShownInOrder' /\ StatusTrue'
    BY <1>3, <1>7 DEF InTurn, ShownInOrder, StatusTrue
<1> QED
    BY <1>6, <1>9, <1>10, <1>11, <1>12 DEF InTurn

LEMMA InTurnStep == DockTypeOK /\ InTurn /\ [DockNext]_dockvars => InTurn'
<1> SUFFICES ASSUME DockTypeOK, InTurn, [DockNext]_dockvars PROVE InTurn'
    OBVIOUS
<1>1. ASSUME UNCHANGED <<thread, started, queue, shown, status>> PROVE InTurn'
    BY <1>1 DEF InTurn, OneAtATime, QueueTrue, QueueInOrder, ShownInOrder, NoneLost, StatusTrue,
       Told
<1>2. ASSUME \/ \E f \in UNION {Needs(c) : c \in Commands} : TypeField(f)
             \/ Cancel \/ Shutdown \/ UNCHANGED dockvars
             \/ \E j \in DockJobs : \/ EngineStarts(j) \/ EngineEnds(j) \/ LeaderExits(j)
                                    \/ Escalate(j)
      PROVE  InTurn'
    BY <1>1, <1>2 DEF TypeField, Cancel, Shutdown, dockvars, gui, EngineStarts, EngineEnds,
       LeaderExits, Escalate
<1>3. ASSUME NEW j \in DockJobs, Worker(j), ~Report(j), ~ThreadEnds(j) PROVE InTurn'
    <2>1. \E to \in ThreadState \ {"none", "put", "dead"} : Moves(j, to)
        BY <1>3 DEF Worker, MakeClient, Popen, Register, Waited, TimesOut, Kills, Joined, ThreadState
    <2>2. thread[j] \notin {"none", "put", "dead"} /\ UNCHANGED <<started, queue, shown, status>>
        BY <1>3 DEF Worker, MakeClient, Popen, Register, Waited, TimesOut, Kills, Joined, gui
    <2> QED
        BY <2>1, <2>2, QuietInTurn
<1>4. ASSUME NEW j \in DockJobs, ThreadEnds(j) PROVE InTurn'
    <2>1. \A k \in DockJobs : thread'[k] = IF k = j THEN "dead" ELSE thread[k]
        BY <1>4 DEF ThreadEnds, Moves, DockTypeOK
    <2>2. thread[j] = "put" /\ UNCHANGED <<started, queue, shown, status>>
        BY <1>4 DEF ThreadEnds, gui
    <2>3. \A k \in DockJobs : Told(k)' <=> Told(k)
        BY <2>1, <2>2 DEF Told
    <2>4. \A i \in DOMAIN queue : queue[i].job \in DockJobs
        BY QueueFacts, MessagesAre DEF DockTypeOK
    <2>5. OneAtATime'
        BY <2>1, <2>2 DEF InTurn, OneAtATime
    <2>6. QueueTrue'
        BY <2>2, <2>3, <2>4 DEF InTurn, QueueTrue
    <2>7. ShownInOrder' /\ NoneLost'
        BY <2>2, <2>3 DEF InTurn, ShownInOrder, NoneLost
    <2> QED
        BY <2>2, <2>5, <2>6, <2>7 DEF InTurn, QueueInOrder, StatusTrue
<1> QED
    BY <1>2, <1>3, <1>4, ClickInTurn, DrainInTurn, MessageInTurn DEF DockNext, Worker

LEMMA StopStep == DockTypeOK /\ InTurn /\ StopNoted /\ [DockNext]_dockvars => StopNoted'
<1> SUFFICES ASSUME DockTypeOK, InTurn, StopNoted, [DockNext]_dockvars, NEW k \in DockJobs, signalled'[k]
             PROVE  \/ HasProcess(k)' /\ wantStop'[k]
                    \/ thread'[k] \in {"report", "put", "dead"} /\ reply'[k] = "CANCELLED"
    BY DEF StopNoted
<1> USE DEF HasProcess
<1>1. signalled[k] => \/ thread[k] \in {"wait", "kill", "join"} /\ wantStop[k]
                      \/ thread[k] \in {"report", "put", "dead"} /\ reply[k] = "CANCELLED"
    BY DEF StopNoted
<1>2. ASSUME UNCHANGED <<thread, wantStop, signalled, reply>>
      PROVE  \/ HasProcess(k)' /\ wantStop'[k]
             \/ thread'[k] \in {"report", "put", "dead"} /\ reply'[k] = "CANCELLED"
    BY <1>1, <1>2
<1>3. CASE \/ \E f \in UNION {Needs(c) : c \in Commands} : TypeField(f)
           \/ Drain \/ UNCHANGED dockvars
           \/ \E j \in DockJobs : \/ LineRead(j) \/ EngineStarts(j) \/ EngineEnds(j)
                                  \/ LeaderExits(j) \/ Escalate(j)
    BY <1>2, <1>3 DEF TypeField, Drain, dockvars, LineRead, EngineStarts, EngineEnds,
       LeaderExits, Escalate
<1>4. CASE Cancel \/ Shutdown
    <2>1. thread' = thread /\ reply' = reply /\ CancelClient
        BY <1>4 DEF Cancel, Shutdown
    <2>2. CASE UNCHANGED <<wantStop, signalled>>
        BY <1>2, <2>1, <2>2
    <2>3. CASE client # 0 /\ HasProcess(client)
        <3>1. wantStop' = [wantStop EXCEPT ![client] = TRUE]
            BY <2>1, <2>3 DEF CancelClient, Noted
        <3>2. signalled' = [signalled EXCEPT ![client] = TRUE] \/ signalled' = signalled
            BY <2>1, <2>3 DEF CancelClient
        <3>3. client \in DockJobs
            BY <2>3, JobAssumption DEF DockTypeOK, DockJobs
        <3>4. CASE k = client
            BY <2>1, <2>3, <3>1, <3>3, <3>4 DEF DockTypeOK
        <3>5. CASE k # client
            <4>1. wantStop'[k] = wantStop[k] /\ signalled[k]
                BY <3>1, <3>2, <3>5 DEF DockTypeOK
            <4> QED
                BY <1>1, <2>1, <4>1
        <3> QED
            BY <3>4, <3>5
    <2> QED
        BY <2>1, <2>2, <2>3 DEF CancelClient
<1>5. ASSUME NEW c \in Commands, Click(c)
      PROVE  \/ HasProcess(k)' /\ wantStop'[k]
             \/ thread'[k] \in {"report", "put", "dead"} /\ reply'[k] = "CANCELLED"
    <2>1. UNCHANGED <<wantStop, signalled, reply>>
        BY <1>5 DEF Click
    <2>2. k # started + 1 => thread'[k] = thread[k]
        BY <1>5 DEF Click, Moves, DockTypeOK
    <2>3. k = started + 1 => thread[k] = "none"
        BY JobAssumption DEF InTurn, OneAtATime, DockTypeOK
    <2> QED
        BY <1>1, <2>1, <2>2, <2>3
<1>6. ASSUME NEW j \in DockJobs, Worker(j)
      PROVE  \/ HasProcess(k)' /\ wantStop'[k]
             \/ thread'[k] \in {"report", "put", "dead"} /\ reply'[k] = "CANCELLED"
    <2>1. signalled' = signalled
        BY <1>6 DEF Worker, MakeClient, Popen, Register, Waited, TimesOut, Kills, Joined, Report,
           ThreadEnds, gui
    <2>2. CASE k # j
        <3>1. UNCHANGED <<thread[k], wantStop[k], reply[k]>>
            BY <1>6, <2>2 DEF Worker, MakeClient, Popen, Register, Waited, TimesOut, Kills, Joined,
               Report, ThreadEnds, Moves, DockTypeOK
        <3> QED
            BY <1>1, <2>1, <3>1
    <2>3. CASE k = j
        <3>1. CASE MakeClient(j) \/ Popen(j) \/ Register(j)
            BY <1>1, <2>1, <2>3, <3>1 DEF MakeClient, Popen, Register
        <3>2. CASE Waited(j) \/ TimesOut(j) \/ Kills(j)
            <4>1. thread[j] \in {"wait", "kill"} /\ thread'[j] \in {"kill", "join"}
                  /\ wantStop' = wantStop
                BY <3>2 DEF Waited, TimesOut, Kills, Moves, DockTypeOK
            <4> QED
                BY <1>1, <2>1, <2>3, <4>1
        <3>3. CASE Joined(j)
            <4>1. thread[j] = "join" /\ thread'[j] = "report"
                BY <3>3 DEF Joined, Moves, DockTypeOK
            <4>2. wantStop[j] => reply'[j] = "CANCELLED"
                BY <3>3 DEF Joined, DockTypeOK
            <4> QED
                BY <1>1, <2>1, <2>3, <4>1, <4>2
        <3>4. CASE Report(j) \/ ThreadEnds(j)
            <4>1. thread[j] \in {"report", "put"} /\ thread'[j] \in {"put", "dead"} /\ reply' = reply
                BY <3>4 DEF Report, ThreadEnds, Moves, DockTypeOK
            <4> QED
                BY <1>1, <2>1, <2>3, <4>1
        <3> QED
            BY <1>6, <3>1, <3>2, <3>3, <3>4 DEF Worker
    <2> QED
        BY <2>2, <2>3
<1> QED
    BY <1>3, <1>4, <1>5, <1>6 DEF DockNext

LEMMA DockInvariant == DockSpec => []DockInv
<1>1. DockInv /\ [DockNext]_dockvars => DockInv'
    BY DockTypeStep, InTurnStep, StopStep DEF DockInv
<1> QED
    BY <1>1, DockInitInv, PTL DEF DockSpec

\* The variables of the dock, its client and their processes stay in their
\* ranges (dock_widget.py, cli_client.py).
THEOREM DockTypes == DockSpec => []DockTypeOK
<1>1. DockInv => DockTypeOK
    BY DEF DockInv
<1> QED
    BY <1>1, DockInvariant, PTL

\* A cancel that signalled is what the job answers, and every job is answered
\* once, in its turn, after its last line, for any number of jobs and any bound
\* of the queue (cli_client.py, cancel and _run; dock_widget.py, _start_job and
\* _drain_queue).
THEOREM JobsAreAnsweredHolds == DockSpec => []JobsAreAnswered
<1>1. ASSUME DockInv PROVE CancelIsAnswered
    BY <1>1 DEF DockInv, StopNoted, HasProcess, CancelIsAnswered
<1>2. ASSUME DockInv PROVE AnsweredInOrder
    <2>1. ASSUME queue = <<>>, started > 0, ~Alive(started)
          PROVE  Len(shown) = started /\ status = 0
        <3>1. started \in DockJobs /\ Len(shown) \in Nat
            BY <1>2, <2>1, JobAssumption DEF DockInv, DockTypeOK, DockJobs
        <3>2. thread[started] = "dead"
            BY <1>2, <2>1, <3>1 DEF DockInv, InTurn, OneAtATime, Alive, DockJobs
        <3>3. started <= Len(shown)
            BY <1>2, <2>1, <3>1, <3>2 DEF DockInv, InTurn, NoneLost, Told
        <3>4. Len(shown) = started
            BY <1>2, <3>1, <3>3 DEF DockInv, InTurn, ShownInOrder, DockJobs
        <3>5. status = 0
            BY <1>2, <3>1, <3>4 DEF DockInv, InTurn, StatusTrue, DockJobs
        <3> QED
            BY <3>4, <3>5
    <2> QED
        BY <1>2, <2>1 DEF AnsweredInOrder, DockInv, InTurn, ShownInOrder, QueueInOrder
<1>3. DockInv => JobsAreAnswered
    BY <1>1, <1>2 DEF JobsAreAnswered
<1> QED
    BY <1>3, DockInvariant, PTL

-----------------------------------------------------------------------------
(* The three together.                                                      *)

LEMMA PairAlone == PartsSpec => PairSpec
<1>1. PartsInit => PairInit
  BY DEF PartsInit
<1>2. [PartsNext]_partsvars => [PairNext]_pairvars
  BY DEF PartsNext, partsvars
<1> QED
  BY <1>1, <1>2, PTL DEF PartsSpec, PairSpec

LEMMA AuxAlone == PartsSpec => AuxSpec
<1>1. PartsInit => AuxInit
  BY DEF PartsInit
<1>2. [PartsNext]_partsvars => [AuxNext]_auxvars
  BY DEF PartsNext, partsvars
<1> QED
  BY <1>1, <1>2, PTL DEF PartsSpec, AuxSpec

LEMMA DockAlone == PartsSpec => DockSpec
<1>1. PartsInit => DockInit
  BY DEF PartsInit
<1>2. [PartsNext]_partsvars => [DockNext]_dockvars
  BY DEF PartsNext, partsvars
<1> QED
  BY <1>1, <1>2, PTL DEF PartsSpec, DockSpec

\* What runs one of the three is a run of each, the others at rest: the
\* theorems above hold of it (and of any run of the three side by side).
THEOREM PartsAreTyped == PartsSpec => []PartsTypeOK
<1>1. PairTypeOK /\ AuxTypeOK /\ DockTypeOK => PartsTypeOK
  BY DEF PartsTypeOK
<1> QED
  BY <1>1, PairAlone, AuxAlone, DockAlone, PairTypes, AuxTypes, DockTypes, PTL

\* So is what the run "parts_live" checks of them, but that what is begun ends.
THEOREM PartsHold ==
  PartsSpec => /\ [](AssembledIsAsked /\ FailureKeepsTheRest /\ OneAtTheEntry /\ JobsAreAnswered)
               /\ WantedIsKept
BY PairAlone, AuxAlone, DockAlone, AskedIsAssembled, RestIsKept, OneAtTheEntryHolds,
   JobsAreAnsweredHolds, WantedStays, PTL
=============================================================================
