------------------------------- MODULE Suite -------------------------------
(***************************************************************************)
(* scripts/lmbench runs the programs of the suite one after the other.     *)
(* Each is a process of its own, so that a behaviour of the suite is one   *)
(* of the program that runs, with all others at rest.                      *)
(***************************************************************************)
EXTENDS Hooks, Lmdd, Chains, CacheSearch, Placement

\* There is something for each program to run.
ASSUME SuiteAssumption == Benchmarks # {} /\ Commands # {} /\ Hosts # {}

VARIABLE program         \* the kind of program that runs

suiteVars == <<program, hookVars, ddVars, chainVars, searchVars, placeVars>>

AnyOf(s) == CHOOSE x \in s : TRUE

SuiteInit ==
    /\ program \in {"benchmark", "lmdd", "chains", "search", "placement"}
    /\ IF program = "benchmark" THEN HooksInit
                               ELSE HooksStart(AnyOf(Benchmarks))
    /\ IF program = "lmdd" THEN DdInit ELSE DdStart(AnyOf(Commands))
    /\ ChainsInit
    /\ IF program = "search" THEN SearchInit ELSE SearchStart("cache")
    /\ IF program = "placement" THEN PlaceInit ELSE PlaceStart(AnyOf(Hosts))

Benchmarking ==
    /\ program = "benchmark" /\ HooksNext
    /\ UNCHANGED <<program, ddVars, chainVars, searchVars, placeVars>>

Copying ==
    /\ program = "lmdd" /\ DdNext
    /\ UNCHANGED <<program, hookVars, chainVars, searchVars, placeVars>>

Chaining ==
    /\ program = "chains" /\ ChainsNext
    /\ UNCHANGED <<program, hookVars, ddVars, searchVars, placeVars>>

Searching ==
    /\ program = "search" /\ SearchNext
    /\ UNCHANGED <<program, hookVars, ddVars, chainVars, placeVars>>

Placing ==
    /\ program = "placement" /\ PlaceNext
    /\ UNCHANGED <<program, hookVars, ddVars, chainVars, searchVars>>

SuiteNext == Benchmarking \/ Copying \/ Chaining \/ Searching \/ Placing

\* Each process of the program that runs goes on when it can.
SuiteSpec ==
    /\ SuiteInit /\ [][SuiteNext]_suiteVars
    /\ WF_hookVars(program = "benchmark" /\ ChildStep)
    /\ WF_hookVars(program = "benchmark" /\ PartnerStep)
    /\ \A j \in 1..2 :
          WF_hookVars(program = "benchmark" /\ j \in Job /\ JobEnds(j))
    /\ WF_ddVars(program = "lmdd" /\ DdStep)
    /\ WF_searchVars(program = "search" /\ SearchNext)

-----------------------------------------------------------------------------

\* Every program comes to its end, or is one of those that need not, see
\* Hooks, Lmdd and CacheSearch.
EveryProgramEnds ==
    <>[](/\ program = "benchmark" => HooksEnded
         /\ program = "lmdd" => LmddEnded
         /\ program = "search" => SearchEnded)
=============================================================================
