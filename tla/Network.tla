------------------------------ MODULE Network ------------------------------
(***************************************************************************)
(* The stack candidates of a precheck, one for each relative orbit: bursts  *)
(* and dates are cut down to a rectangle, the dates are connected to pairs, *)
(* the pairs get their perpendicular baselines, by which some of them are   *)
(* dropped again, and one candidate is recommended.                         *)
(*                                                                         *)
(* Source: select/network.py, select/baseline.py, select/rules.py,          *)
(* select/report.py, select/cli.py.  Footprints do not overlap: coverage is *)
(* a sum.  Dates are day numbers; of the rules, those on coverage and       *)
(* baselines.                                                               *)
(***************************************************************************)
EXTENDS Integers, FiniteSets, Sequences, SequencesExt, FiniteSetsExt, Functions

CONSTANTS
    Orbits,       \* relative orbits: 1 .. 175
    Days,         \* the dates of the acquisitions
    Share,        \* [burst -> percent of the AOI it covers]
    MinCoverage,  \* selection.min_coverage
    MaxDays,      \* selection.max_temporal_baseline_days
    MaxPerp,      \* selection.max_perp_baseline_m
    Connections,  \* selection.sequential_connections
    Offsets,      \* bound: perpendicular baselines of an acquisition
    Unknown,      \* no baseline
    Searches      \* bound: what a search may find; see Search

Bursts == DOMAIN Share

ASSUME NetworkAssumption ==
    /\ Orbits \subseteq Nat \ {0} /\ IsFiniteSet(Orbits)
    /\ Days \subseteq Nat /\ IsFiniteSet(Days)
    /\ Share \in [Bursts -> Nat] /\ IsFiniteSet(Bursts)
    /\ MaxDays \in Nat /\ MaxPerp \in Nat /\ Connections \in Int
    /\ Offsets \subseteq Int /\ Unknown \notin Int

NetworkMethods == {"sbas", "sequential", "single_reference"}

\* The records, the baseline of every date to the reference granule of its
\* stack, selection.network.
Search == [archive : [Orbits -> [Days -> SUBSET Bursts]],
           perps : [Orbits -> [Days -> Offsets \union {Unknown}]],
           network : NetworkMethods]

ASSUME SearchAssumption == Searches \subseteq Search

VARIABLES
    search,       \* what the search found
    candidates,   \* [orbit -> StackCandidate]
    recommended   \* the orbit recommended; 0: none, or not yet

netvars == <<search, candidates, recommended>>

NoPerps == [d \in Days |-> Unknown]

NoCandidate == [dates |-> {}, bursts |-> {}, pairs |-> << >>, ref |-> 0, components |-> << >>,
                based |-> FALSE, integrated |-> NoPerps, drops |-> << >>, missing |-> {}]

\* The elements of S in the order of a relation that is total on S, and those
\* of a sequence at the indexes K.
InOrder(S, before) ==
    [i \in 1 .. Cardinality(S) |->
        CHOOSE x \in S : Cardinality({ y \in S : <<y, x>> \in before }) = i - 1]

Sorted(S) == InOrder(S, { p \in S \X S : p[1] < p[2] })

Those(s, K) == [i \in DOMAIN Sorted(K) |-> s[Sorted(K)[i]]]

AbsOf(x) == IF x < 0 THEN -x ELSE x

Covered(B) == MapThenSumSet(LAMBDA b : Share[b], B)

-----------------------------------------------------------------------------
(* The rectangle, of the bursts acquired by date: alternative A is all      *)
(* dates with the bursts they share, alternative B the dates that have      *)
(* every burst.                                                             *)

Rectangle(acquired) ==
    LET D == { d \in Days : acquired[d] # {} }
        all == UNION { acquired[d] : d \in D }
        common == { b \in all : \A d \in D : b \in acquired[d] }
        complete == { d \in D : all \subseteq acquired[d] }
        a == Covered(common)
        b == IF complete = {} THEN 0 ELSE Covered(all)
    IN  IF \/ a >= MinCoverage
           \/ a > b
           \/ a = b /\ Cardinality(D) >= Cardinality(complete)
        THEN [dates |-> D, bursts |-> common]
        ELSE [dates |-> complete, bursts |-> all]

-----------------------------------------------------------------------------
(* The network.                                                             *)

PairOf(d, e, perp) ==
    LET first == IF d < e THEN d ELSE e
        second == IF d < e THEN e ELSE d
    IN  [ref |-> first, sec |-> second,
         perp |-> IF perp[first] = Unknown \/ perp[second] = Unknown
                  THEN Unknown ELSE perp[second] - perp[first]]

\* |t - t_mid| / (span / 2) + sum|B| / max sum|B|, times span * max sum|B|.
\* A date without a baseline has the worst sum.
ReferenceScore(D, perp, d) ==
    LET first == Min(D)
        last == Max(D)
        known == { e \in D : perp[e] # Unknown }
        total(e) == MapThenSumSet(LAMBDA k : AbsOf(perp[e] - perp[k]), known)
        most == Max({ total(e) : e \in known } \union {0})
        worst == IF most = 0 THEN 1 ELSE most
        sum == IF Cardinality(known) < 2 THEN 0
               ELSE IF d \in known THEN total(d) ELSE worst
    IN  AbsOf(2 * d - first - last) * worst + sum * (last - first)

RecommendReference(D, perp) ==
    Min({ d \in D : \A e \in D :
            ReferenceScore(D, perp, d) <= ReferenceScore(D, perp, e) })

\* A pair over the perpendicular limit; an unknown baseline is kept.
OverPerp(p) == p.perp # Unknown /\ AbsOf(p.perp) > MaxPerp

\* The two dates of the pairs, the earlier one first: for sbas all within the
\* limits, for sequential the next Connections dates of each.
PairedDates(D, method, perp) ==
    LET n == IF Connections < 1 THEN 1 ELSE Connections
    IN  { p \in D \X D :
            /\ p[1] < p[2]
            /\ \/ /\ method = "sbas"
                  /\ p[2] - p[1] <= MaxDays /\ ~OverPerp(PairOf(p[1], p[2], perp))
               \/ /\ method = "sequential"
                  /\ Cardinality({ d \in D : p[1] < d /\ d <= p[2] }) <= n
               \/ /\ method = "single_reference"
                  /\ RecommendReference(D, perp) \in {p[1], p[2]} }

\* The dates are gone through in order, and for each the later ones.
Listed(P) ==
    InOrder(P, { r \in P \X P : \/ r[1][1] < r[2][1]
                                \/ r[1][1] = r[2][1] /\ r[1][2] < r[2][2] })

BuildNetwork(D, method, perp) ==
    LET dates == Listed(PairedDates(D, method, perp))
    IN  [k \in DOMAIN dates |-> PairOf(dates[k][1], dates[k][2], perp)]

-----------------------------------------------------------------------------
(* Connectivity, by union-find: the paths that find() halves are left out,  *)
(* they lead to the same root.                                              *)

RootOf(parent, d) ==
    LET up[n \in Nat] == IF n = 0 THEN d ELSE parent[up[n - 1]]
    IN  up[Cardinality(DOMAIN parent)]

\* FAULT: dates are hung below each other, not their roots.
HangBelow(parent, p) == [parent EXCEPT ![p.ref] = p.sec]

Joined(parent, p) ==
    IF p.ref \in DOMAIN parent /\ p.sec \in DOMAIN parent
    THEN [parent EXCEPT ![RootOf(parent, p.ref)] = RootOf(parent, p.sec)]
    ELSE parent

\* Largest first, then by the earliest date.
ConnectedComponents(D, pairs) ==
    LET parent == FoldLeft(Joined, [d \in D |-> d], pairs)
        groups == { { d \in D : RootOf(parent, d) = r } : r \in D } \ {{}}
    IN  InOrder(groups, { r \in groups \X groups :
            \/ Cardinality(r[1]) > Cardinality(r[2])
            \/ Cardinality(r[1]) = Cardinality(r[2]) /\ Min(r[1]) < Min(r[2]) })

\* The baseline of every date that known pairs connect to the earliest one,
\* breadth first.
Integrate(pairs) ==
    LET known == { p \in Range(pairs) : p.perp # Unknown }
        ends == { p.ref : p \in known } \union { p.sec : p \in known }
        via(found, d) == { p \in known : \/ p.sec = d /\ found[p.ref] # Unknown
                                         \/ p.ref = d /\ found[p.sec] # Unknown }
        wave[n \in Nat] ==
            IF n = 0 THEN [d \in Days |-> IF d = Min(ends) THEN 0 ELSE Unknown]
            ELSE LET found == wave[n - 1]
                 IN  [d \in Days |->
                        IF found[d] # Unknown \/ via(found, d) = {} THEN found[d]
                        ELSE LET p == CHOOSE q \in via(found, d) : TRUE
                             IN  IF p.sec = d THEN found[p.ref] + p.perp
                                              ELSE found[p.sec] - p.perp]
    IN  IF known = {} THEN NoPerps ELSE wave[Cardinality(ends)]

-----------------------------------------------------------------------------
(* The rules and the recommendation.                                        *)

NoBursts(c) == Covered(c.bursts) = 0

Warnings(c) ==
    (IF ~NoBursts(c) /\ Covered(c.bursts) < MinCoverage THEN {<<"SEL-04", 0, 0>>} ELSE {})
        \union { <<"SEL-06", p.ref, p.sec>> : p \in { q \in Range(c.pairs) : OverPerp(q) } }
        \union { <<"SEL-07", p.ref, p.sec>> :
                    p \in { q \in Range(c.pairs) : q.sec - q.ref > MaxDays } }

\* Most covered, then most dates, then not split, then fewest warnings.
Rank(c) == << 0 - Covered(c.bursts), 0 - Cardinality(c.dates),
              IF Len(c.components) > 1 THEN 1 ELSE 0, Cardinality(Warnings(c)) >>

Earlier(r, q) == \E i \in 1 .. 4 : r[i] < q[i] /\ \A j \in 1 .. i - 1 : r[j] = q[j]

-----------------------------------------------------------------------------
NetworkInit ==
    /\ search \in Searches
    /\ candidates = [o \in Orbits |-> NoCandidate]
    /\ recommended = 0

\* group_candidates: a group without records is no candidate.
Group ==
    /\ candidates = [o \in Orbits |-> NoCandidate]
    /\ \E o \in Orbits, d \in Days : search.archive[o][d] # {}
    /\ candidates' = [o \in Orbits |->
           LET cut == Rectangle(search.archive[o])
               pairs == BuildNetwork(cut.dates, search.network, NoPerps)
           IN  IF \A d \in Days : search.archive[o][d] = {} THEN NoCandidate
               ELSE [NoCandidate EXCEPT
                       !.dates = cut.dates, !.bursts = cut.bursts, !.pairs = pairs,
                       !.ref = RecommendReference(cut.dates, NoPerps),
                       !.components = ConnectedComponents(cut.dates, pairs)]]
    /\ UNCHANGED <<search, recommended>>

\* _apply_baselines: compute_pair_baselines, where both dates of a pair need a
\* value, and with_baselines, which drops pairs over the limit for sbas and
\* recommends the reference from all of them.
ApplyBaselines(o) ==
    /\ candidates[o].pairs # << >> /\ ~candidates[o].based
    /\ \E c \in {candidates[o]}, perps \in {search.perps[o]} :
       \E based \in {[k \in DOMAIN c.pairs |->
                         PairOf(c.pairs[k].ref, c.pairs[k].sec, perps)]} :
       \E out \in {{ k \in DOMAIN based : search.network = "sbas" /\ OverPerp(based[k]) }},
          path \in {Integrate(based)} :
       \E stay \in {Those(based, DOMAIN based \ out)} :
            candidates' = [candidates EXCEPT ![o] =
              [c EXCEPT
                 !.pairs = stay,
                 !.ref = RecommendReference(c.dates, path),
                 !.components = ConnectedComponents(c.dates, stay),
                 !.based = TRUE, !.integrated = path, !.drops = Those(based, out),
                 !.missing = { d \in Days : /\ perps[d] = Unknown
                                            /\ \E p \in Range(based) : d \in {p.ref, p.sec} }]]
    /\ UNCHANGED <<search, recommended>>

\* run_rules and recommend_stack: no candidate that fails a rule, ties by id.
Recommend ==
    /\ recommended = 0
    /\ \A o \in Orbits : candidates[o].pairs # << >> => candidates[o].based
    /\ LET able == { o \in Orbits : candidates[o] # NoCandidate /\ ~NoBursts(candidates[o]) }
           best == { o \in able : \A q \in able :
                       ~Earlier(Rank(candidates[q]), Rank(candidates[o])) }
       IN  able # {} /\ recommended' = Min(best)
    /\ UNCHANGED <<search, candidates>>

NetworkNext == Group \/ (\E o \in Orbits : ApplyBaselines(o)) \/ Recommend

NetworkSpec == NetworkInit /\ [][NetworkNext]_netvars

-----------------------------------------------------------------------------
(* Properties.                                                              *)

\* The dates that pairs connect, by definition.
Connected(D, pairs, d) ==
    LET near(S) == S \union { e \in D : \E p \in Range(pairs) :
                                \/ p.ref = e /\ p.sec \in S
                                \/ p.sec = e /\ p.ref \in S }
        reach[n \in Nat] == IF n = 0 THEN {d} ELSE near(reach[n - 1])
    IN  reach[Cardinality(D)]

\* What a candidate says of its network is true of its pairs: its components
\* are those that the pairs connect, the largest first; its per-date baselines
\* reproduce those of the acquisitions; dropping pairs by their baselines
\* leaves the network that would have been built had they been known at once;
\* and a pair over the perpendicular limit is dropped, and listed, or warned
\* of.
NetworkAdds ==
    \A o \in Orbits :
        LET c == candidates[o]
            perps == search.perps[o]
            groups == c.components
        IN  /\ Range(groups) = { Connected(c.dates, c.pairs, d) : d \in c.dates }
            /\ \A i \in DOMAIN groups : Cardinality(groups[i]) <= Cardinality(groups[1])
            /\ \A d, e \in { x \in Days : c.integrated[x] # Unknown } :
                  c.integrated[e] - c.integrated[d] = perps[e] - perps[d]
            /\ c.based /\ search.network = "sbas" =>
                  c.pairs = BuildNetwork(c.dates, "sbas", perps)
            /\ c.based =>
                  \A p \in Range(BuildNetwork(c.dates, search.network, NoPerps)) :
                      LET q == PairOf(p.ref, p.sec, perps)
                      IN  /\ OverPerp(q) => \/ q \in Range(c.drops)
                                            \/ <<"SEL-06", q.ref, q.sec>> \in Warnings(c)
                          /\ q.perp = Unknown => {q.ref, q.sec} \intersect c.missing # {}
            /\ recommended = o => c.bursts # {} /\ c.dates # {}
=============================================================================
