------------------------------ MODULE CaseServer -------------------------------
(***************************************************************************)
(* What the readers of a Case share: the published Case, and a dashboard   *)
(* server (server/src/index.ts) that keeps the Case lock from its start to *)
(* its close, so that no Analysis Run is stored meanwhile.  CaseStore has  *)
(* the lock and the publication in detail; here a run is stored and        *)
(* published in one step.                                                  *)
(***************************************************************************)
EXTENDS FindingQuery

CONSTANTS
    MaxServers,     \* bounds the starts of the server
    Outcomes        \* the sets of Profiles that a run may complete

VARIABLES
    case,       \* the published Case
    server      \* [up, run]: the run of the server stands for its token

ASSUME OutcomesAssumption == MaxServers \in Nat /\ Outcomes \subseteq SUBSET Profiles

caseVars == <<case, server>>

CaseInit ==
    /\ case = [runs |-> 0, active |-> [p \in Profiles |-> 0]]
    /\ server = [up |-> FALSE, run |-> 0]

CaseType ==
    /\ case \in Cases
    /\ server \in [up : BOOLEAN, run : 0..MaxServers]

\* An Analysis Run replaces the active results of the Profiles it completes.
\* It waits for the Case lock, or gives up.
StoreRun ==
    /\ ~server.up
    /\ case.runs < MaxRuns
    /\ \E S \in Outcomes :
          case' = [runs   |-> case.runs + 1,
                   active |-> [p \in Profiles |-> IF p \in S THEN case.runs + 1
                                                             ELSE case.active[p]]]

\* startDashboardServer: a new token, and the lock before the socket.
StartServer ==
    /\ ~server.up /\ server.run < MaxServers
    /\ server' = [up |-> TRUE, run |-> server.run + 1]

\* A signal, or the parent's death.  The last server the bound allows stays.
StopServer ==
    /\ server.up /\ server.run < MaxServers
    /\ server' = [server EXCEPT !.up = FALSE]

CaseStep ==
    \/ StoreRun /\ UNCHANGED server
    \/ (StartServer \/ StopServer) /\ UNCHANGED case

\* tokensMatch: the token of this run of the server.
TokensMatch(run) == run = server.run

\* handleRequest and statusForError: anything but a page is an error to the
\* page that asked.
Serves(run, q, after) ==
    server.up /\ TokensMatch(run) /\ ~Refuses(case, q, after)
================================================================================
