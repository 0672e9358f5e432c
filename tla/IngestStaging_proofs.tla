------------------------- MODULE IngestStaging_proofs -------------------------
(***************************************************************************)
(* Proofs about IngestStaging, for any number of ingests and names.        *)
(*                                                                         *)
(* The argument is one of ownership.  While a process builds, its staging  *)
(* directory is the target of no other process: its name is new when it is *)
(* made, and a sweep condemns only a directory with the marker of a process*)
(* that does not run, while this one holds no marker but its builder's.    *)
(* So what the directory holds is what its builder has put there so far,   *)
(* and the rename publishes exactly Content.                               *)
(***************************************************************************)
EXTENDS IngestStaging, TLAPS

\* What the staging directory of p holds in phase ph of the build.
Held(p, ph) ==
    CASE ph = "made"     -> {}
      [] ph = "marked"   -> {p}
      [] ph = "copied"   -> {p, "workingCopy"}
      [] ph = "built"    -> {p, "workingCopy", "database"}
      [] ph = "unmarked" -> {"workingCopy", "database"}

OwnStaging(p) ==
    /\ target[p] \in there
    /\ parts[target[p]] = Held(p, phase[p])
    /\ \A q \in Ingests \ {p} : target[q] # target[p]

Ownership == \A p \in Ingests : phase[p] \in Building => OwnStaging(p)

NewNamesEmpty == \A s \in Stagings \ used : parts[s] = {}

CaseWhole == case # NoStaging => case \notin there /\ parts[case] = Content

StagingInv == TypeOK /\ Ownership /\ NewNamesEmpty /\ CaseWhole /\ SuccessIsOwn

--------------------------------------------------------------------------------
\* A directory being built holds the marker of no process but its builder.
LEMMA HeldParts ==
    ASSUME NEW p \in Ingests, NEW ph \in Building
    PROVE  Held(p, ph) \subseteq Parts /\ Held(p, ph) \cap Ingests \subseteq {p}
BY StagingAssumption DEF Held, Building, Parts, Content

LEMMA InitInv == Init => StagingInv
BY StagingAssumption DEF Init, StagingInv, TypeOK, Ownership, NewNamesEmpty, CaseWhole,
   SuccessIsOwn, Phases, Building

\* A step that moves only p, to a phase outside the build, gives up p's claim.
LEMMA LeaveBuild ==
    ASSUME StagingInv, NEW p \in Ingests, NEW ph \in Phases \ (Building \cup {"published"}),
           phase' = [phase EXCEPT ![p] = ph], UNCHANGED fsVars,
           target' = target \/ target' = [target EXCEPT ![p] = NoStaging]
    PROVE  Ownership' /\ NewNamesEmpty' /\ CaseWhole' /\ SuccessIsOwn'
<1> USE StagingAssumption DEF StagingInv, TypeOK, fsVars
<1>1. ASSUME NEW q \in Ingests, phase'[q] \in Building PROVE OwnStaging(q)'
  <2>1. q # p /\ phase[q] \in Building /\ phase'[q] = phase[q] /\ target'[q] = target[q]
    BY <1>1
  <2> QED BY <2>1 DEF Ownership, OwnStaging
<1>2. NewNamesEmpty' /\ CaseWhole'
  BY DEF NewNamesEmpty, CaseWhole
<1>3. SuccessIsOwn'
  BY DEF SuccessIsOwn, Phases
<1> QED BY <1>1, <1>2, <1>3 DEF Ownership

LEMMA NextInv == StagingInv /\ [Next]_vars => StagingInv'
<1> SUFFICES ASSUME StagingInv, [Next]_vars PROVE StagingInv'
  OBVIOUS
<1> USE StagingAssumption DEF StagingInv
<1>1. ASSUME NEW p \in Ingests, Start(p) PROVE StagingInv'
  <2>1. TypeOK'
    BY <1>1 DEF TypeOK, Start, Goto, fsVars, Phases, Building
  <2> QED BY <1>1, <2>1, LeaveBuild DEF Start, Goto, Phases, Building
<1>2. ASSUME NEW p \in Ingests, ListParent(p) PROVE StagingInv'
  <2>1. TypeOK'
    BY <1>2 DEF TypeOK, ListParent, Goto, fsVars, Phases, Building
  <2> QED BY <1>2, <2>1, LeaveBuild DEF ListParent, Goto, Phases, Building
<1>3. ASSUME NEW p \in Ingests, NEW s \in Stagings, KeepStaging(p, s) PROVE StagingInv'
  <2>1. TypeOK'
    BY <1>3 DEF TypeOK, KeepStaging, Goto, fsVars, Phases, Building
  <2> QED BY <1>3, <2>1 DEF KeepStaging, fsVars, Ownership, OwnStaging,
          NewNamesEmpty, CaseWhole, SuccessIsOwn
<1>4. ASSUME NEW p \in Ingests, NEW s \in Stagings, Condemn(p, s) PROVE StagingInv'
  <2>1. s \in used /\ TypeOK'
    BY <1>4 DEF TypeOK, Condemn, OwnerIsDead, Goto, fsVars, Phases, Building
  \* The marker in s is not its builder's, so s has no builder.
  <2>2. ASSUME NEW q \in Ingests, phase[q] \in Building PROVE target[q] # s
    <3>1. PICK r \in Ingests : r \in parts[s] /\ phase[r] = "idle"
      BY <1>4 DEF Condemn, OwnerIsDead
    <3>2. target[q] = s => r = q
      BY <2>2, <3>1, HeldParts DEF Ownership, OwnStaging
    <3> QED BY <2>2, <3>1, <3>2 DEF Building
  <2>3. Ownership'
    BY <1>4, <2>2 DEF Condemn, Goto, fsVars, TypeOK, Ownership, OwnStaging,
       Building
  <2>4. NewNamesEmpty' /\ CaseWhole' /\ SuccessIsOwn'
    BY <1>4 DEF Condemn, Goto, fsVars, TypeOK, NewNamesEmpty, CaseWhole, SuccessIsOwn
  <2> QED BY <2>1, <2>3, <2>4
<1>5. ASSUME NEW p \in Ingests, Remove(p) PROVE StagingInv'
  <2>1. TypeOK'
    BY <1>5 DEF TypeOK, Remove, Stop, Goto, fsVars, Phases, Building
  <2> QED BY <1>5, <2>1, LeaveBuild DEF Remove, Stop, Goto, Phases, Building
<1>6. ASSUME NEW p \in Ingests, NEW part \in Parts, RemovePart(p, part) PROVE StagingInv'
  <2>1. phase[p] \in Phases \ Building /\ target[p] \in used /\ UNCHANGED <<phase, target, there, used, case>>
    BY <1>6 DEF RemovePart, TypeOK, Building, Phases
  <2>2. parts' = [parts EXCEPT ![target[p]] = @ \ {part}]
    BY <1>6 DEF RemovePart
  <2>3. TypeOK'
    BY <1>6, <2>1, <2>2 DEF TypeOK, RemovePart
  <2>4. Ownership'
    BY <2>1, <2>2 DEF TypeOK, Ownership, OwnStaging
  <2>5. NewNamesEmpty' /\ CaseWhole' /\ SuccessIsOwn'
    BY <1>6, <2>1, <2>2 DEF RemovePart, TypeOK, NewNamesEmpty, CaseWhole, SuccessIsOwn
  <2> QED BY <2>3, <2>4, <2>5
<1>7. ASSUME NEW p \in Ingests, RemoveDirectory(p) PROVE StagingInv'
  <2> DEFINE ph == IF phase[p] = "cleaning" THEN "idle" ELSE "sweeping"
  <2>1. /\ phase[p] \in {"removing", "cleaning"}
        /\ phase' = [phase EXCEPT ![p] = ph]
        /\ target' = [target EXCEPT ![p] = NoStaging]
        /\ listed' = IF phase[p] = "cleaning" THEN [listed EXCEPT ![p] = {}] ELSE listed
        /\ there' = there \ {target[p]}
        /\ UNCHANGED <<used, parts, case>>
    BY <1>7 DEF RemoveDirectory, Stop, Goto
  <2>2. ph \in {"idle", "sweeping"}
    OBVIOUS
  <2> HIDE DEF ph
  <2>3. TypeOK'
    BY <2>1, <2>2 DEF TypeOK, Phases, Building
  <2>4. Ownership'
    BY <2>1, <2>2 DEF TypeOK, Ownership, OwnStaging, Building
  <2>5. NewNamesEmpty' /\ CaseWhole' /\ SuccessIsOwn'
    BY <2>1, <2>2 DEF TypeOK, NewNamesEmpty, CaseWhole, SuccessIsOwn
  <2> QED BY <2>3, <2>4, <2>5
<1>8. ASSUME NEW p \in Ingests, MakeStaging(p) PROVE StagingInv'
  <2>1. PICK s \in Stagings \ used :
              /\ there' = there \cup {s} /\ used' = used \cup {s}
              /\ target' = [target EXCEPT ![p] = s]
    BY <1>8 DEF MakeStaging
  <2>2. phase[p] = "sweeping" /\ phase' = [phase EXCEPT ![p] = "made"]
        /\ UNCHANGED <<listed, parts, case>>
    BY <1>8 DEF MakeStaging, Goto
  <2>3. TypeOK'
    BY <2>1, <2>2 DEF TypeOK, Phases, Building
  <2>4. parts[s] = {} /\ \A q \in Ingests : target[q] # s
    BY <2>1 DEF TypeOK, NewNamesEmpty
  <2>5. ASSUME NEW q \in Ingests, phase'[q] \in Building PROVE OwnStaging(q)'
    <3>1. CASE q = p
      <4>1. parts'[s] = Held(p, "made")
        BY <2>2, <2>4 DEF Held
      <4> QED BY <2>1, <2>2, <2>4, <3>1, <4>1 DEF OwnStaging, TypeOK
    <3>2. CASE q # p
      <4>1. phase[q] \in Building /\ phase'[q] = phase[q] /\ target'[q] = target[q]
        BY <2>1, <2>2, <2>5, <3>2
      <4> QED BY <2>1, <2>2, <2>4, <3>2, <4>1 DEF OwnStaging, TypeOK, Ownership
    <3> QED BY <3>1, <3>2
  <2>6. NewNamesEmpty' /\ CaseWhole' /\ SuccessIsOwn'
    BY <2>1, <2>2, <2>4 DEF TypeOK, NewNamesEmpty, CaseWhole, SuccessIsOwn
  <2> QED BY <2>3, <2>5, <2>6 DEF Ownership
<1>9. ASSUME NEW p \in Ingests, MarkerFails(p) PROVE StagingInv'
  <2>1. TypeOK'
    BY <1>9 DEF TypeOK, MarkerFails, Stop, Goto, fsVars, Phases, Building
  <2> QED BY <1>9, <2>1, LeaveBuild DEF MarkerFails, Stop, Goto, Phases, Building
<1>10. ASSUME NEW p \in Ingests,
              WriteOwnerMarker(p) \/ Prepare(p) \/ CreateCaseDatabase(p) \/ RemoveOwnerMarker(p)
       PROVE StagingInv'
  \* The four steps that change what their own directory holds.
  <2>1. PICK ph \in Building, held \in SUBSET Parts :
              /\ phase' = [phase EXCEPT ![p] = ph]
              /\ parts' = [parts EXCEPT ![target[p]] = held]
              /\ held = Held(p, ph)
    <3>1. CASE WriteOwnerMarker(p)
      <4>1. parts[target[p]] = {}
        BY <3>1 DEF WriteOwnerMarker, Ownership, OwnStaging, Held, Building
      <4>2. Held(p, "marked") = {p} /\ "marked" \in Building
        BY DEF Held, Building
      <4>3. Held(p, "marked") \subseteq Parts
        BY <4>2, HeldParts
      <4>4. /\ phase' = [phase EXCEPT ![p] = "marked"]
            /\ parts' = [parts EXCEPT ![target[p]] = Held(p, "marked")]
        BY <3>1, <4>1, <4>2 DEF WriteOwnerMarker, Goto
      <4> QED BY <4>2, <4>3, <4>4
    <3>2. CASE Prepare(p)
      <4>1. parts[target[p]] = {p}
        BY <3>2 DEF Prepare, Ownership, OwnStaging, Held, Building
      <4>2. Held(p, "copied") = {p, "workingCopy"} /\ "copied" \in Building
        BY DEF Held, Building
      <4>3. Held(p, "copied") \subseteq Parts
        BY <4>2, HeldParts
      <4>4. /\ phase' = [phase EXCEPT ![p] = "copied"]
            /\ parts' = [parts EXCEPT ![target[p]] = Held(p, "copied")]
        BY <3>2, <4>1, <4>2 DEF Prepare, Goto
      <4> QED BY <4>2, <4>3, <4>4
    <3>3. CASE CreateCaseDatabase(p)
      <4>1. parts[target[p]] = {p, "workingCopy"}
        BY <3>3 DEF CreateCaseDatabase, Ownership, OwnStaging, Held, Building
      <4>2. Held(p, "built") = {p, "workingCopy", "database"} /\ "built" \in Building
        BY DEF Held, Building
      <4>3. Held(p, "built") \subseteq Parts
        BY <4>2, HeldParts
      <4>4. /\ phase' = [phase EXCEPT ![p] = "built"]
            /\ parts' = [parts EXCEPT ![target[p]] = Held(p, "built")]
        BY <3>3, <4>1, <4>2 DEF CreateCaseDatabase, Goto
      <4> QED BY <4>2, <4>3, <4>4
    <3>4. CASE RemoveOwnerMarker(p)
      <4>1. parts[target[p]] = {p, "workingCopy", "database"}
        BY <3>4 DEF RemoveOwnerMarker, Ownership, OwnStaging, Held, Building
      <4>2. Held(p, "unmarked") = {"workingCopy", "database"} /\ "unmarked" \in Building
        BY DEF Held, Building
      <4>3. Held(p, "unmarked") \subseteq Parts
        BY <4>2, HeldParts
      <4>4. /\ phase' = [phase EXCEPT ![p] = "unmarked"]
            /\ parts' = [parts EXCEPT ![target[p]] = Held(p, "unmarked")]
        BY <3>4, <4>1, <4>2, StagingAssumption DEF RemoveOwnerMarker, Goto, Content
      <4> QED BY <4>2, <4>3, <4>4
    <3> QED BY <1>10, <3>1, <3>2, <3>3, <3>4
  <2>2. phase[p] \in Building /\ UNCHANGED <<listed, target, there, used, case>>
    BY <1>10 DEF WriteOwnerMarker, Prepare, CreateCaseDatabase, RemoveOwnerMarker, Building
  <2>3. target[p] \in there /\ target[p] \in used /\ \A q \in Ingests \ {p} : target[q] # target[p]
    BY <2>2 DEF Ownership, OwnStaging, TypeOK
  <2>4. TypeOK'
    BY <2>1, <2>2, <2>3 DEF TypeOK, Phases
  <2>5. ASSUME NEW q \in Ingests, phase'[q] \in Building PROVE OwnStaging(q)'
    <3>1. CASE q = p
      BY <2>1, <2>2, <2>3, <3>1 DEF OwnStaging, TypeOK
    <3>2. CASE q # p
      BY <2>1, <2>2, <2>3, <2>5, <3>2 DEF OwnStaging, TypeOK, Ownership
    <3> QED BY <3>1, <3>2
  <2>6. Ownership'
    BY <2>5 DEF Ownership
  <2>7. NewNamesEmpty' /\ CaseWhole' /\ SuccessIsOwn'
    BY <2>1, <2>2, <2>3 DEF TypeOK, NewNamesEmpty, CaseWhole, SuccessIsOwn, Building
  <2> QED BY <2>4, <2>6, <2>7
<1>11. ASSUME NEW p \in Ingests, Publish(p) PROVE StagingInv'
  <2>1. /\ phase[p] = "unmarked" /\ case = NoStaging /\ case' = target[p]
        /\ there' = there \ {target[p]} /\ phase' = [phase EXCEPT ![p] = "published"]
        /\ UNCHANGED <<listed, target, used, parts>>
    BY <1>11 DEF Publish, Goto
  <2>2. /\ target[p] \in used /\ parts[target[p]] = Content
        /\ \A q \in Ingests \ {p} : target[q] # target[p]
    BY <2>1 DEF TypeOK, Ownership, OwnStaging, Building, Content, Held
  <2>3. TypeOK'
    BY <2>1, <2>2 DEF TypeOK, Phases, Building
  <2>4. Ownership'
    BY <2>1, <2>2 DEF TypeOK, Ownership, OwnStaging, Building
  <2>5. NewNamesEmpty' /\ CaseWhole'
    BY <2>1, <2>2 DEF TypeOK, NewNamesEmpty, CaseWhole
  <2>6. SuccessIsOwn'
    <3>1. ASSUME NEW q \in Ingests PROVE phase[q] # "published"
      BY <2>1 DEF SuccessIsOwn, TypeOK, Phases
    <3> QED BY <2>1, <3>1 DEF SuccessIsOwn, TypeOK
  <2> QED BY <2>3, <2>4, <2>5, <2>6
<1>12. ASSUME NEW p \in Ingests, Finish(p) \/ Kill(p) PROVE StagingInv'
  <2>1. TypeOK'
    BY <1>12 DEF TypeOK, Finish, Kill, Stop, Goto, fsVars, Phases, Building
  <2> QED BY <1>12, <2>1, LeaveBuild DEF Finish, Kill, Stop, Goto, Phases, Building
<1>13. ASSUME NEW p \in Ingests, Fail(p) PROVE StagingInv'
  <2>1. TypeOK'
    BY <1>13 DEF TypeOK, Fail, Goto, fsVars, Phases, Building
  <2> QED BY <1>13, <2>1, LeaveBuild DEF Fail, Goto, Phases, Building
<1>14. CASE UNCHANGED vars
  BY <1>14 DEF vars, TypeOK, Ownership, OwnStaging, NewNamesEmpty, CaseWhole,
     SuccessIsOwn
<1> QED BY <1>1, <1>2, <1>3, <1>4, <1>5, <1>6, <1>7, <1>8, <1>9, <1>10, <1>11, <1>12, <1>13,
        <1>14 DEF Next, Sweep, Build

LEMMA Invariance == Spec => []StagingInv
BY InitInv, NextInv, PTL DEF Spec

--------------------------------------------------------------------------------
\* Every variable keeps its type and a process that builds or removes has a
\* directory to do it in, for any number of ingests of ingest.ts.
THEOREM TypeCorrect == Spec => []TypeOK
<1>1. StagingInv => TypeOK
  BY DEF StagingInv
<1> QED BY <1>1, Invariance, PTL

\* An ingest that reports success (ingest.ts:695-752) reports the Case that it
\* has built, however many others create the same Case Directory.
THEOREM SuccessReportsOwn == Spec => []SuccessIsOwn
<1>1. StagingInv => SuccessIsOwn
  BY DEF StagingInv
<1> QED BY <1>1, Invariance, PTL

LEMMA BuilderAlone ==
    ASSUME StagingInv, [Next]_vars, NEW p \in Ingests,
           phase[p] \in Building, phase'[p] = phase[p]
    PROVE  /\ parts'[target[p]] = parts[target[p]]
           /\ target[p] \in there => target[p] \in there'
<1> USE DEF StagingInv, TypeOK
<1>1. ASSUME NEW q \in Ingests,
             \/ Start(q) \/ ListParent(q) \/ Remove(q) \/ MarkerFails(q)
             \/ Finish(q) \/ Fail(q) \/ Kill(q)
             \/ \E s \in Stagings : KeepStaging(q, s) \/ Condemn(q, s)
      PROVE  there' = there /\ parts' = parts
  BY <1>1 DEF Start, ListParent, Remove, MarkerFails, Finish, Fail, Kill, KeepStaging,
     Condemn, fsVars
<1>2. ASSUME NEW q \in Ingests, NEW part \in Parts, RemovePart(q, part)
      PROVE  there' = there /\ parts'[target[p]] = parts[target[p]]
  <2>1. q # p
    BY <1>2 DEF RemovePart, Building
  <2> QED BY <1>2, <2>1 DEF RemovePart, Ownership, OwnStaging
<1>3. ASSUME NEW q \in Ingests, RemoveDirectory(q)
      PROVE  parts' = parts /\ there \ {target[q]} \subseteq there' /\ target[q] # target[p]
  <2>1. q # p
    BY <1>3 DEF RemoveDirectory, Building
  <2> QED BY <1>3, <2>1 DEF RemoveDirectory, Ownership, OwnStaging
<1>4. ASSUME NEW q \in Ingests, MakeStaging(q)
      PROVE  parts' = parts /\ there \subseteq there'
  BY <1>4 DEF MakeStaging
<1>5. ASSUME NEW q \in Ingests,
             WriteOwnerMarker(q) \/ Prepare(q) \/ CreateCaseDatabase(q) \/ RemoveOwnerMarker(q)
      PROVE  there' = there /\ parts'[target[p]] = parts[target[p]]
  <2>1. q # p
    BY <1>5 DEF WriteOwnerMarker, Prepare, CreateCaseDatabase, RemoveOwnerMarker, Goto
  <2>2. target[q] # target[p]
    BY <2>1 DEF Ownership, OwnStaging
  <2> QED BY <1>5, <2>2 DEF WriteOwnerMarker, Prepare, CreateCaseDatabase,
          RemoveOwnerMarker, Ownership, OwnStaging
<1>6. ASSUME NEW q \in Ingests, Publish(q)
      PROVE  parts' = parts /\ there \ {target[q]} \subseteq there' /\ target[q] # target[p]
  <2>1. q # p
    BY <1>6 DEF Publish, Goto
  <2> QED BY <1>6, <2>1 DEF Publish, Ownership, OwnStaging
<1>7. CASE UNCHANGED vars
  BY <1>7 DEF vars
<1> QED BY <1>1, <1>2, <1>3, <1>4, <1>5, <1>6, <1>7 DEF Next, Sweep, Build

\* While an ingest builds, no other one touches its staging directory: the
\* sweep of removeStaleStaging (ingest.ts:574-586) needs a dead PID in a marker
\* that no running ingest has written, also when the builder's own marker is
\* not there yet or is gone already.
THEOREM BuilderUndisturbed == Spec => LiveStagingKept
<1>1. StagingInv /\ [Next]_vars =>
        [\A p \in Ingests : phase[p] \in Building /\ phase'[p] = phase[p] =>
            /\ parts'[target[p]] = parts[target[p]]
            /\ target[p] \in there => target[p] \in there']_vars
  BY BuilderAlone
<1> QED BY <1>1, Invariance, PTL DEF Spec, LiveStagingKept

LEMMA CaseStep == StagingInv /\ [Next]_vars => case' = case \/ \E p \in Ingests : Publish(p)
BY DEF Next, Sweep, Build, Start, ListParent, KeepStaging, Condemn, Remove, RemovePart,
   RemoveDirectory, MakeStaging, WriteOwnerMarker, MarkerFails, Prepare,
   CreateCaseDatabase, RemoveOwnerMarker, Finish, Fail, Kill, fsVars, vars

\* The Case Directory is published whole, by one ingest, and never replaced or
\* taken apart: the build in a staging directory and the rename
\* (ingest.ts:643-693) implement AtomicPublish for any number of ingests.
THEOREM ImplementsAtomicPublish == Spec => PublishesWhole
<1> DEFINE Out == IF case = NoStaging THEN NoStaging ELSE [by |-> case, parts |-> parts[case]]
           Whole == {[by |-> s, parts |-> Content] : s \in Stagings}
<1>1. Init => CaseSpec!Init
  BY DEF Init, CaseSpec!Init
<1>2. StagingInv /\ StagingInv' /\ [Next]_vars => [CaseSpec!Publish]_Out
  <2> SUFFICES ASSUME StagingInv, StagingInv', [Next]_vars
               PROVE  Out' = Out \/ (Out = NoStaging /\ Out' \in Whole)
    BY DEF CaseSpec!Publish
  <2>1. CASE case' = case
    <3>1. case # NoStaging => parts[case] = Content /\ parts'[case'] = Content
      BY <2>1 DEF StagingInv, CaseWhole
    <3> QED BY <2>1, <3>1
  <2>2. ASSUME NEW p \in Ingests, Publish(p) PROVE Out = NoStaging /\ Out' \in Whole
    <3>1. case = NoStaging /\ case' = target[p] /\ case' \in Stagings /\ case' # NoStaging
      BY <2>2, StagingAssumption DEF Publish, StagingInv, TypeOK, Ownership, OwnStaging, Building
    <3>2. parts'[case'] = Content
      BY <3>1 DEF StagingInv, CaseWhole
    <3> QED BY <3>1, <3>2
  <2> QED BY <2>1, <2>2, CaseStep
<1> QED BY <1>1, <1>2, Invariance, PTL DEF Spec, PublishesWhole, CaseSpec!Spec
================================================================================
