------------------------------- MODULE MCParts -------------------------------
(***************************************************************************)
(* Instances, for TLC, of three components that share no state: the         *)
(* per-pair sub-cache, the cache of auxiliary downloads and the QGIS dock.  *)
(* A behaviour is one of one component.                                     *)
(***************************************************************************)
EXTENDS PairCache, AuxCache, QgisDock

CONSTANTS a, b, none    \* identities of pairs, and NoIdentity

\* A whole date set, and one in which the second pair alone is known.
TwoStacks == {<<a, a>>, <<none, b>>}

VARIABLE part    \* the component of this behaviour

partsvars == <<part, pairvars, auxvars, dockvars>>

PartsInit ==
    /\ part \in {"pair", "aux", "dock"}
    /\ PairInit /\ AuxInit /\ DockInit

PartsNext ==
    /\ UNCHANGED part
    /\ \/ part = "pair" /\ PairNext /\ UNCHANGED <<auxvars, dockvars>>
       \/ part = "aux" /\ AuxNext /\ UNCHANGED <<pairvars, dockvars>>
       \/ part = "dock" /\ DockNext /\ UNCHANGED <<pairvars, auxvars>>

\* Each component with the fairness of its own specification (the guard on
\* part, which never changes, only spares TLC work).
PartsSpec ==
    /\ PartsInit
    /\ [][PartsNext]_partsvars
    /\ WF_pairvars(part = "pair" /\ PairWork)
    /\ \A c \in Fetchers :
         /\ WF_auxvars(part = "aux" /\ FetchWork(c))
         /\ SF_auxvars(part = "aux" /\ (Acquire(c) \/ Timeout(c)))
    /\ WF_auxvars(part = "aux" /\ LockAges)
    /\ WF_dockvars(part = "dock" /\ Drain)
    /\ \A j \in DockJobs : /\ WF_dockvars(part = "dock" /\ Worker(j))
                           /\ WF_dockvars(part = "dock" /\ Escalate(j))

PartsTypeOK == PairTypeOK /\ AuxTypeOK /\ DockTypeOK
=============================================================================
