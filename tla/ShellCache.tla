----------------------------- MODULE ShellCache -----------------------------
(***************************************************************************)
(* The service worker's cache (frontend/public/sw.js) under several tabs,  *)
(* across deployments, rollbacks, outages and answers that are errors.  A  *)
(* version is a shell, asked for at ScHome, and one asset, whose address   *)
(* is the version (its hash).  An asset that is cached is shown and        *)
(* changes nothing, so it is no step.  A new worker deletes the caches of  *)
(* other names, and this code has written none.                            *)
(***************************************************************************)
EXTENDS Naturals, FiniteSets

CONSTANTS
    ScVersions, \* how many versions there are
    ScMaxPuts,  \* how many answers are being stored at a time
    ScHome,     \* the address of the shell
    ScNothing,  \* nothing: not cached
    ScError     \* a page that says what went wrong (a 404, a 502)

Version == 1..ScVersions
Address == Version \cup {ScHome}
Content == Version \cup {ScError}

ASSUME ScAssumption ==
    /\ ScVersions \in Nat \ {0}
    /\ ScMaxPuts \in Nat \ {0}
    /\ ScHome \notin Version
    /\ ScNothing \notin Content
    /\ ScError \notin Version

VARIABLES
    scDeployed, \* the version deployed
    scNet,      \* the network: up, failing (the answers are errors), down
    scCache,    \* what is cached at each address
    scShells,   \* the versions whose shell some tab shows
    scMissed,   \* assets that were not in the cache, and are asked of the network
    scPuts,     \* answers given to a page, and still being stored
    scErred,    \* history: the addresses at which an error was answered
    scStored    \* history: the addresses at which an answer has been stored

scVars == <<scDeployed, scNet, scCache, scShells, scMissed, scPuts, scErred, scStored>>

ScTypeOK ==
    /\ scDeployed \in Version
    /\ scNet \in {"up", "failing", "down"}
    /\ scCache \in [Address -> Content \cup {ScNothing}]
    /\ scShells \in SUBSET Version
    /\ scMissed \in SUBSET Version
    /\ scPuts \in SUBSET [at : Address, what : Content]
    /\ scErred \in SUBSET Address
    /\ scStored \in SUBSET Address

ScInit ==
    /\ scDeployed = 1
    /\ scNet \in {"up", "failing", "down"}
    /\ scCache = [a \in Address |-> ScNothing]
    /\ scShells = {}
    /\ scMissed = {}
    /\ scPuts = {}
    /\ scErred = {}
    /\ scStored = {}

\* The server's answer: the shell names the deployed version, whose asset is the only
\* one there is.
ScServed(a) == IF scNet = "up" /\ a \in {ScHome, scDeployed} THEN scDeployed ELSE ScError

\* A bug for comparison: every answer is stored as the shell.
ScAnsweredHome(a) ==
    /\ scNet # "down"
    /\ Cardinality(scPuts) < ScMaxPuts
    /\ scPuts' = scPuts \cup {[at |-> ScHome, what |-> ScServed(a)]}
    /\ scErred' = IF ScServed(a) = ScError THEN scErred \cup {a} ELSE scErred

\* The network answers a request: the page has the answer at once, and the cache later,
\* be it an error or not.
ScAnswered(a) ==
    /\ scNet # "down"
    /\ Cardinality(scPuts) < ScMaxPuts
    /\ scPuts' = scPuts \cup {[at |-> a, what |-> ScServed(a)]}
    /\ scErred' = IF ScServed(a) = ScError THEN scErred \cup {a} ELSE scErred

\* A navigation that reaches the server: network first.
ScNavigate ==
    /\ ScAnswered(ScHome)
    /\ scShells' = scShells \cup ({ScServed(ScHome)} \cap Version)
    /\ UNCHANGED <<scDeployed, scNet, scCache, scMissed, scStored>>

\* A navigation that does not: the cached shell, if there is one.
ScNavigateOffline ==
    /\ scNet = "down"
    /\ scShells' = scShells \cup ({scCache[ScHome]} \cap Version)
    /\ UNCHANGED <<scDeployed, scNet, scCache, scMissed, scPuts, scErred, scStored>>

\* A page asks for its asset, and the cache has none.
ScMiss ==
    /\ \E v \in scShells : scCache[v] = ScNothing /\ scMissed' = scMissed \cup {v}
    /\ UNCHANGED <<scDeployed, scNet, scCache, scShells, scPuts, scErred, scStored>>

\* The network answers, whatever the cache holds by now; another tab may still be asking.
ScFetch ==
    /\ \E v \in scMissed : ScAnswered(v) /\ scMissed' \in {scMissed, scMissed \ {v}}
    /\ UNCHANGED <<scDeployed, scNet, scCache, scShells, scStored>>

\* The network cannot be reached: the page has no asset, and nothing is cached.
ScFetchFails ==
    /\ scNet = "down"
    /\ \E v \in scMissed : scMissed' = scMissed \ {v}
    /\ UNCHANGED <<scDeployed, scNet, scCache, scShells, scPuts, scErred, scStored>>

\* A bug for comparison: storing one version's asset throws the others' away.
ScPutLandsTidy ==
    /\ \E p \in scPuts :
        /\ scCache' = [a \in Address |-> IF a = p.at THEN p.what
                                         ELSE IF a = ScHome THEN scCache[a] ELSE ScNothing]
        /\ scPuts' = scPuts \ {p}
        /\ scStored' = scStored \cup {p.at}
    /\ UNCHANGED <<scDeployed, scNet, scShells, scMissed, scErred>>

\* An answer is stored, over what is there; nothing waits for it.
ScPutLands ==
    /\ \E p \in scPuts :
        /\ scCache' = [scCache EXCEPT ![p.at] = p.what]
        /\ scPuts' = scPuts \ {p}
        /\ scStored' = scStored \cup {p.at}
    /\ UNCHANGED <<scDeployed, scNet, scShells, scMissed, scErred>>

\* The browser refuses to store it (no room).
ScPutFails ==
    /\ \E p \in scPuts : scPuts' = scPuts \ {p}
    /\ UNCHANGED <<scDeployed, scNet, scCache, scShells, scMissed, scErred, scStored>>

\* A version is deployed, an earlier one again too.
ScDeploy ==
    /\ scDeployed' \in Version \ {scDeployed}
    /\ UNCHANGED <<scNet, scCache, scShells, scMissed, scPuts, scErred, scStored>>

ScNetwork ==
    /\ scNet' \in {"up", "failing", "down"} \ {scNet}
    /\ UNCHANGED <<scDeployed, scCache, scShells, scMissed, scPuts, scErred, scStored>>

ScNext ==
    \/ ScNavigate
    \/ ScNavigateOffline
    \/ ScMiss
    \/ ScFetch
    \/ ScFetchFails
    \/ ScPutLands
    \/ ScPutFails
    \/ ScDeploy
    \/ ScNetwork

ScSpec == ScInit /\ [][ScNext]_scVars

----
(* Properties.                                                              *)

\* What an address is there for: some version's shell, or that version's asset.
ScWhole(a) == IF a = ScHome THEN Version ELSE {a}

\* Wherever no request was ever answered with an error, what has been stored once is
\* there from then on and is whole, so that the version starts offline; whatever was
\* deployed or rolled back, and however the answers to several tabs were stored.
ScOffline == \A a \in scStored \ scErred : scCache[a] \in ScWhole(a)

\* What is wrong in the cache is an error the server answered at that very address: no
\* version ever has another's asset, and no shell is anything but a shell.
ScBlame ==
    \A a \in Address : \/ scCache[a] \in ScWhole(a) \cup {ScNothing}
                       \/ a \in scErred /\ scCache[a] = ScError
=============================================================================
