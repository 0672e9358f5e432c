------------------------------ MODULE PayloadFiles -----------------------------
(***************************************************************************)
(* A payload directory of a Case (core/src/payload-files.ts): an Analysis  *)
(* Run stores the bytes of its favicon bitmaps, or of its cache entries,   *)
(* as files named by their digest, then commits the records that cite      *)
(* them.  Each Profile makes a call of writePayloadFiles of its own, into  *)
(* the same directory.  One run at a time: it holds the Case lock from     *)
(* start to end.  A call may fail, and a run be killed or lose power, at   *)
(* any step; file names that were not synced may then be gone.             *)
(***************************************************************************)
EXTENDS Naturals

CONSTANTS
    Payloads,
    MaxAnalyses,    \* bounds the runs
    MaxCalls        \* bounds the calls of a run, one for each Profile

VARIABLES
    directory,  \* which of the two directories this is
    file,       \* file[p]: what the name of p has: "absent", "other", "whole"
    synced,     \* synced[p]: what the name of p has after a loss of power
    analysis,   \* the run: where it is, its calls so far, its call under way
    cited,      \* the payloads that committed records cite
    left,       \* history: names that a stopped call renamed and nobody synced
    kept        \* history: names that a later call kept while they were left so

payloadVars == <<directory, file, synced, analysis, cited, left, kept>>

\* The call under way is of the payloads `call`; it has `todo` left and made the
\* new names `renamed`.  The run's records will cite `cites`.
Idle(n) ==
    [pc |-> "idle", todo |-> {}, call |-> {}, renamed |-> {}, cites |-> {}, calls |-> 0,
     done |-> n]

\* A file of that name that does not hold the payload may be there already.
PayloadInit ==
    /\ directory \in {"favicons", "cache"}
    /\ file \in [Payloads -> {"absent", "other"}]
    /\ synced = file
    /\ analysis = Idle(0)
    /\ cited = {} /\ left = {} /\ kept = {}

BeginAnalysis ==
    /\ analysis.pc = "idle" /\ analysis.done < MaxAnalyses
    /\ analysis' = [Idle(analysis.done + 1) EXCEPT !.pc = "open"]
    /\ UNCHANGED <<directory, file, synced, cited, left, kept>>

\* The next Profile has payloads to write.
BeginCall ==
    /\ analysis.pc = "open" /\ analysis.calls < MaxCalls
    /\ \E ps \in SUBSET Payloads :
          analysis' = [analysis EXCEPT !.pc = "write", !.todo = ps, !.call = ps,
                                       !.calls = @ + 1]
    /\ UNCHANGED <<directory, file, synced, cited, left, kept>>

HoldsPayload_ByName(p) == file[p] # "absent"

HoldsPayload(p) == file[p] = "whole"

\* One payload: a file that holds it is kept, else a synced temporary file is
\* renamed over the name.
WritePayload(p) ==
    /\ analysis.pc = "write" /\ p \in analysis.todo
    /\ IF HoldsPayload(p)
       THEN /\ analysis' = [analysis EXCEPT !.todo = @ \ {p}]
            /\ kept' = kept \cup ({p} \cap left)
            /\ UNCHANGED <<file, left>>
       ELSE /\ file' = [file EXCEPT ![p] = "whole"]
            /\ analysis' = [analysis EXCEPT !.todo = @ \ {p}, !.renamed = @ \cup {p}]
            /\ left' = left \ {p}
            /\ UNCHANGED kept
    /\ UNCHANGED <<directory, synced, cited>>

\* What is on the disk now stays there: of the names kept, those are settled
\* that have their payload.
SettleNames == synced' = file' /\ left' = {} /\ kept' = {p \in kept : file'[p] # "whole"}

SyncsDirectory == analysis.renamed # {}

\* The call returns.  If it renamed a file, it syncs the directory, and with its
\* own names those that another call left.
EndCall ==
    /\ analysis.pc = "write" /\ analysis.todo = {}
    /\ analysis' = [analysis EXCEPT !.pc = "open", !.call = {}, !.renamed = {},
                                    !.cites = @ \cup analysis.call]
    /\ UNCHANGED <<directory, file, cited>>
    /\ IF SyncsDirectory THEN SettleNames ELSE UNCHANGED <<synced, left, kept>>

\* The call stops; what it renamed is not synced.
LeaveNames == left' = left \cup analysis.renamed

\* A write, a rename or the sync fails.  The favicons of this Profile are then
\* unavailable and the run goes on with the next one; a cache ends the run.
FailCall ==
    /\ analysis.pc = "write"
    /\ LeaveNames
    /\ analysis' = IF directory = "favicons"
                   THEN [analysis EXCEPT !.pc = "open", !.todo = {}, !.call = {},
                                         !.renamed = {}]
                   ELSE Idle(analysis.done)
    /\ UNCHANGED <<directory, file, synced, cited, kept>>

\* storeAnalysisWrites commits.
CommitRecords ==
    /\ analysis.pc = "open"
    /\ cited' = cited \cup analysis.cites
    /\ analysis' = Idle(analysis.done)
    /\ UNCHANGED <<directory, file, synced, left, kept>>

\* The run is killed, or fails elsewhere; the files stay as they are.
KillAnalysis ==
    /\ analysis.pc # "idle" /\ analysis' = Idle(analysis.done)
    /\ LeaveNames
    /\ UNCHANGED <<directory, file, synced, cited, kept>>

\* Any of the names that are not synced may be lost, or may have made it.
LosePower ==
    /\ \E lost \in SUBSET {p \in Payloads : file[p] # synced[p]} :
          file' = [p \in Payloads |-> IF p \in lost THEN synced[p] ELSE file[p]]
    /\ SettleNames
    /\ analysis' = Idle(analysis.done)
    /\ UNCHANGED <<directory, cited>>

PayloadNext ==
    \/ BeginAnalysis \/ BeginCall \/ EndCall \/ FailCall \/ CommitRecords \/ KillAnalysis
    \/ LosePower \/ \E p \in Payloads : WritePayload(p)

PayloadSpec == PayloadInit /\ [][PayloadNext]_payloadVars

--------------------------------------------------------------------------------
FileStates == {"absent", "other", "whole"}

PayloadType ==
    /\ directory \in {"favicons", "cache"}
    /\ file \in [Payloads -> FileStates] /\ synced \in [Payloads -> FileStates]
    /\ analysis.pc \in {"idle", "open", "write"}
    /\ analysis.todo \subseteq analysis.call /\ analysis.call \subseteq Payloads
    /\ analysis.cites \subseteq Payloads
    /\ cited \subseteq Payloads /\ left \subseteq Payloads /\ kept \subseteq Payloads

(* Safety: every payload that a committed record cites is on disk, whole,  *)
(* after every failure, kill and loss of power, unless a call, of the same *)
(* run or of a later one, kept a file whose name a stopped call had not    *)
(* synced, and nobody has synced or written it since.  Those names a loss  *)
(* of power takes, although the comment of payload-files.ts 40-41 promises *)
(* that the new names survive a crash.                                     *)
CitedPayloadsKept == \A p \in cited \ kept : file[p] = "whole"
================================================================================
