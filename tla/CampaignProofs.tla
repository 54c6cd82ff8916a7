---------------------------- MODULE CampaignProofs ----------------------------
(***************************************************************************)
(* The promises of the campaign report, for every manifest, any number of    *)
(* launches and rebuilds, any sources, binaries and settings.               *)
(***************************************************************************)
EXTENDS Campaign, TLAPS

Environment == [source : Sources, binary : Binaries \cup {Unset}, setting : Settings]
Artifact == {Missing} \cup [made : Environment, verdict : {"pass", "miss"}]
FileSet == UNION {[1 .. n -> Artifact] : n \in Nat}
Record == [state : {"skipped", "resumed", "preflight-failed", "executed"},
           environment : Environment \cup {Unset},
           infrastructure : BOOLEAN,
           artifacts : FileSet]
Report == [complete : BOOLEAN, passed : BOOLEAN, records : Seq(Record)]

TypeOK ==
  /\ files \in [Experiments -> FileSet]
  /\ \A e \in Experiments : DOMAIN files[e] = 1 .. LayersOf[e]
  /\ report \in Report /\ previous \in Report
  /\ binary \in Binaries
  /\ pc \in {"idle", "gate", "wait", "run", "failed", "finish"}
  /\ pc # "idle" => source \in Sources /\ plan \in Plans
  /\ pc \in {"wait", "run"} => environment \in Environment
  /\ pc = "run" => hashed \in Binaries
  /\ resume \in BOOLEAN
  /\ records \in Seq(Record)
  /\ removed \in Nat /\ written \in Nat

(* What a record vouches for when it was made: without an issue, every layer *)
(* count has its artifact, and each is of the identity on record.            *)
SoundRecord(e, r) ==
  /\ r.state = "skipped" => r.artifacts = <<>>
  /\ r.state # "skipped" /\ r.infrastructure =>
       /\ DOMAIN r.artifacts = 1 .. LayersOf[e]
       /\ \A l \in 1 .. LayersOf[e] : /\ r.artifacts[l].verdict # "missing"
                                     /\ Matches(r.artifacts[l].made, r.environment)
Sound(done) == /\ Len(done) <= Len(LayersOf)
               /\ \A e \in DOMAIN done : SoundRecord(e, done[e])

(* Whatever was not skipped was run or taken over from one source.           *)
From(done, src) == \A e \in DOMAIN done : done[e].state # "skipped" => done[e].environment.source = src
OneSource(done) ==
  \A d, e \in DOMAIN done :
    done[d].state # "skipped" /\ done[e].state # "skipped" =>
      done[d].environment.source = done[e].environment.source

(* A report says passed only of a whole manifest of accepted records.        *)
PassedIsAccepted == report.passed =>
  /\ report.complete /\ Len(report.records) = Len(LayersOf)
  /\ Accepted(report.records)

(* What main knows at each point about the records of this launch.          *)
Located ==
  /\ pc \in {"gate", "wait", "run"} => Len(records) < Len(LayersOf)
  /\ pc \in {"wait", "run"} => environment.source = source
  /\ pc = "idle" => records = <<>>
  /\ pc = "finish" => Len(records) = Len(LayersOf)
  /\ pc = "failed" => \E e \in DOMAIN records : ~records[e].infrastructure

IInv == /\ TypeOK
        /\ Sound(records) /\ Sound(report.records) /\ Sound(previous.records)
        /\ From(records, source)
        /\ OneSource(report.records)
        /\ PassedIsAccepted
        /\ Located

-----------------------------------------------------------------------------
LEMMA ManifestTyped ==
  /\ Len(LayersOf) \in Nat \ {0} /\ Experiments = 1 .. Len(LayersOf)
  /\ \A e \in Experiments : LayersOf[e] \in Nat \ {0}
  BY ManifestAssumption DEF Experiments

LEMMA FileSetOf ==
  \A f : (\E n \in Nat : f \in [1 .. n -> Artifact]) <=> f \in FileSet
  BY DEF FileSet

LEMMA NoReportTyped == NoReport \in Report /\ NoReport.records = <<>> /\ ~NoReport.passed
  <1>1. <<>> \in Seq(Record)
    OBVIOUS
  <1> QED BY <1>1 DEF NoReport, Report

LEMMA NoArtifacts == <<>> \in FileSet
  <1>1. <<>> \in [1 .. 0 -> Artifact]
    OBVIOUS
  <1> QED BY <1>1, FileSetOf

LEMMA EmptySound == Sound(<<>>) /\ OneSource(<<>>) /\ \A src : From(<<>>, src)
  BY ManifestTyped DEF Sound, OneSource, From

LEMMA InitIInv == Init => IInv
  <1> SUFFICES ASSUME Init PROVE IInv
    OBVIOUS
  <1>1. files \in [Experiments -> FileSet] /\ \A e \in Experiments : DOMAIN files[e] = 1 .. LayersOf[e]
    <2>1. Missing \in Artifact
      BY DEF Artifact
    <2>2. \A e \in Experiments : [l \in 1 .. LayersOf[e] |-> Missing] \in FileSet
      BY <2>1, ManifestTyped, FileSetOf
    <2> QED BY <2>2 DEF Init
  <1>2. TypeOK
    <2>1. records \in Seq(Record) /\ report \in Report /\ previous \in Report
      BY NoReportTyped DEF Init
    <2>2. pc = "idle" /\ binary \in Binaries /\ resume \in BOOLEAN /\ removed \in Nat /\ written \in Nat
      BY DEF Init
    <2> QED BY <1>1, <2>1, <2>2 DEF TypeOK
  <1>3. Sound(records) /\ Sound(report.records) /\ Sound(previous.records) /\ OneSource(report.records)
    BY EmptySound, NoReportTyped DEF Init
  <1>4. From(records, source)
    BY EmptySound DEF Init
  <1> QED BY <1>2, <1>3, <1>4, NoReportTyped DEF Init, IInv, PassedIsAccepted, Located

-----------------------------------------------------------------------------
(* Adding a record: the one step all outcomes of an experiment share. *)
LEMMA AddedIInv ==
  ASSUME IInv, NEW r \in Record, pc \in {"gate", "wait", "run"}, AddRecord(r),
         SoundRecord(Current, r), r.state # "skipped" => r.environment.source = source
  PROVE  IInv'
  <1> DEFINE done == Append(records, r)
  <1>0. TypeOK /\ Sound(records) /\ From(records, source) /\ Len(records) < Len(LayersOf)
    BY DEF IInv, Located
  <1>1. /\ done \in Seq(Record) /\ Len(done) = Current
        /\ DOMAIN done = 1 .. Current /\ DOMAIN records = 1 .. (Current - 1)
        /\ Current \in Nat \ {0} /\ Current <= Len(LayersOf)
    BY <1>0, ManifestTyped DEF TypeOK, Current
  <1>2. done[Current] = r /\ \A e \in DOMAIN records : done[e] = records[e]
    BY <1>0 DEF TypeOK, Current
  <1>3. \A e \in DOMAIN done : e \in DOMAIN records \/ e = Current
    BY <1>1
  <1>4. Sound(done)
    BY <1>0, <1>1, <1>2, <1>3 DEF Sound
  <1>5. From(done, source)
    BY <1>0, <1>2, <1>3 DEF From
  <1>6. OneSource(done)
    BY <1>5 DEF From, OneSource
  <1>7. records' = done /\ report' = Payload(done, Len(done) = Len(LayersOf))
    BY DEF AddRecord
  <1>8. /\ report' \in Report /\ report'.records = done
        /\ report'.complete = (Len(done) = Len(LayersOf))
        /\ report'.passed => Len(done) = Len(LayersOf) /\ Accepted(done)
    <2> DEFINE complete == Len(done) = Len(LayersOf)
    <2>1. complete \in BOOLEAN /\ (complete /\ Accepted(done)) \in BOOLEAN
      BY DEF Accepted
    <2> QED BY <1>1, <1>7, <2>1 DEF Payload, Report
  <1>9. pc' \in {"failed", "finish", "gate"}
    BY DEF AddRecord
  <1>10. TypeOK'
    <2>1. /\ UNCHANGED <<files, source, plan, resume, previous, binary>>
          /\ removed' = 0 /\ written' = 0
      BY DEF AddRecord, launch, outside
    <2> QED BY <1>0, <1>1, <1>7, <1>8, <1>9, <2>1 DEF TypeOK, IInv
  <1>11. Located'
    <2>1. CASE ~r.infrastructure /\ Current \notin Continues
      BY <2>1, <1>1, <1>2, <1>7 DEF AddRecord, Located
    <2>2. CASE ~(~r.infrastructure /\ Current \notin Continues) /\ Len(done) = Len(LayersOf)
      BY <2>2, <1>7 DEF AddRecord, Located
    <2>3. CASE ~(~r.infrastructure /\ Current \notin Continues) /\ Len(done) # Len(LayersOf)
      BY <2>3, <1>1, <1>7 DEF AddRecord, Located
    <2> QED BY <2>1, <2>2, <2>3
  <1>12. From(records, source)'
    BY <1>5, <1>7 DEF AddRecord, launch, From
  <1>13. PassedIsAccepted'
    BY <1>7, <1>8 DEF PassedIsAccepted, Accepted
  <1> QED BY <1>4, <1>6, <1>7, <1>8, <1>10, <1>11, <1>12, <1>13 DEF IInv, AddRecord, launch

(* The end of a launch, with the report as it is or completed now. *)
LEMMA EndedIInv ==
  ASSUME IInv, Abort \/ Finish \/ Interrupt
  PROVE  IInv'
  <1>1. Ended /\ report' \in {report, Payload(records, TRUE)}
    BY DEF Abort, Finish, Interrupt
  <1>2. /\ pc' = "idle" /\ records' = <<>> /\ previous' = NoReport /\ resume' = FALSE
        /\ removed' = 0 /\ written' = 0 /\ UNCHANGED <<files, binary>>
    BY <1>1 DEF Ended, outside
  <1>0. records' \in Seq(Record)
    <2>1. <<>> \in Seq(Record)
      OBVIOUS
    <2> QED BY <1>2, <2>1
  <1>3. CASE report' = Payload(records, TRUE) /\ (Abort \/ Finish)
    <2>1. /\ report' \in Report /\ report'.records = records /\ report'.complete
          /\ report'.passed => Accepted(records)
      <3>1. (TRUE /\ Accepted(records)) \in BOOLEAN
        OBVIOUS
      <3> QED BY <1>3, <3>1 DEF Payload, Report, IInv, TypeOK
    <2>2. Accepted(records) => Len(records) = Len(LayersOf)
      BY <1>3 DEF Abort, Finish, IInv, Located, Accepted
    <2>3. OneSource(records)
      BY DEF IInv, From, OneSource
    <2>4. PassedIsAccepted'
      BY <2>1, <2>2 DEF PassedIsAccepted, Accepted
    <2>5. TypeOK'
      BY <1>0, <1>2, <2>1, NoReportTyped DEF IInv, TypeOK
    <2>6. Sound(report'.records) /\ OneSource(report'.records)
      BY <2>1, <2>3 DEF IInv
    <2> QED BY <1>2, <2>4, <2>5, <2>6, EmptySound, NoReportTyped DEF IInv, Located
  <1>4. CASE report' = report
    <2>1. TypeOK'
      BY <1>0, <1>2, <1>4, NoReportTyped DEF IInv, TypeOK
    <2>2. PassedIsAccepted'
      BY <1>4 DEF IInv, PassedIsAccepted, Accepted
    <2> QED BY <1>2, <1>4, <2>1, <2>2, EmptySound, NoReportTyped DEF IInv, Located
  <1> QED BY <1>3, <1>4 DEF Abort, Finish, Interrupt

-----------------------------------------------------------------------------
LEMMA CurrentTyped ==
  ASSUME IInv, pc \in {"gate", "wait", "run"}
  PROVE  Current \in Experiments
  BY ManifestTyped DEF IInv, Located, TypeOK, Current

LEMMA EnvironmentTyped ==
  ASSUME IInv, pc = "gate"
  PROVE  /\ EnvironmentOf(Current) \in Environment
         /\ EnvironmentOf(Current).source = source
  <1>1. plan[Current] \in Settings
    BY CurrentTyped, ManifestAssumption DEF IInv, TypeOK
  <1> QED BY <1>1 DEF IInv, TypeOK, EnvironmentOf, Environment

(* What _load_artifacts finds without issues is what a sound record needs. *)
LEMMA ValidSound ==
  ASSUME IInv, NEW e \in Experiments, NEW env, Valid(e, env)
  PROVE  \A l \in 1 .. LayersOf[e] : /\ files[e][l].verdict # "missing"
                                    /\ Matches(files[e][l].made, env)
  BY DEF Valid, Present, IInv, TypeOK

(* Every outcome adds a sound record of this launch, and one that was not     *)
(* skipped had passed its gate, just now or before it waited for the GPU.    *)
Adds(r) ==
  /\ AddRecord(r) /\ pc \in {"gate", "wait", "run"}
  /\ SoundRecord(Current, r)
  /\ r.state # "skipped" => r.environment.source = source
  /\ r.state = "skipped" \/ pc \in {"wait", "run"} \/ (pc = "gate" /\ Promoted(Current))

LEMMA Outcome ==
  ASSUME IInv, Skip \/ Resume \/ PreflightFails \/ ScriptEnds
  PROVE  \E r \in Record : Adds(r)
  <1>1. Current \in Experiments /\ TypeOK /\ files[Current] \in FileSet
        /\ DOMAIN files[Current] = 1 .. LayersOf[Current]
    BY CurrentTyped DEF Skip, Resume, PreflightFails, ScriptEnds, IInv, TypeOK
  <1>2. CASE Skip
    <2> DEFINE r == [state |-> "skipped", environment |-> Unset, infrastructure |-> TRUE,
                     artifacts |-> <<>>]
    <2>1. r \in Record
      BY NoArtifacts DEF Record
    <2>2. SoundRecord(Current, r)
      BY DEF SoundRecord
    <2>3. AddRecord(r) /\ pc = "gate"
      BY <1>2 DEF Skip
    <2>4. r.state = "skipped"
      OBVIOUS
    <2> HIDE DEF r
    <2> QED BY <2>1, <2>2, <2>3, <2>4 DEF Adds
  <1>3. CASE Resume
    <2> DEFINE env == EnvironmentOf(Current)
               r == [state |-> "resumed", environment |-> env, infrastructure |-> TRUE,
                     artifacts |-> files[Current]]
    <2>0. env \in Environment /\ env.source = source /\ Valid(Current, env)
      BY <1>3, EnvironmentTyped DEF Resume, CanResume
    <2>3. AddRecord(r) /\ pc = "gate" /\ Promoted(Current)
      BY <1>3 DEF Resume
    <2> HIDE DEF env
    <2>1. r \in Record
      BY <1>1, <2>0 DEF Record
    <2>2. SoundRecord(Current, r)
      BY <1>1, <2>0, ValidSound DEF SoundRecord
    <2>4. r.environment.source = source
      BY <2>0
    <2> HIDE DEF r
    <2> QED BY <2>1, <2>2, <2>3, <2>4 DEF Adds
  <1>4. CASE PreflightFails
    <2> DEFINE r == [state |-> "preflight-failed", environment |-> environment,
                     infrastructure |-> FALSE, artifacts |-> <<>>]
    <2>0. environment \in Environment /\ environment.source = source
      BY <1>4 DEF PreflightFails, IInv, TypeOK, Located
    <2>1. r \in Record
      BY <2>0, NoArtifacts DEF Record
    <2>2. SoundRecord(Current, r)
      BY DEF SoundRecord
    <2>3. AddRecord(r) /\ pc = "wait"
      BY <1>4 DEF PreflightFails
    <2>4. r.environment.source = source
      BY <2>0
    <2> HIDE DEF r
    <2> QED BY <2>1, <2>2, <2>3, <2>4 DEF Adds
  <1>5. CASE ScriptEnds
    <2>0. environment \in Environment /\ environment.source = source
      BY <1>5 DEF ScriptEnds, IInv, TypeOK, Located
    <2>5. PICK timedOut \in BOOLEAN :
            AddRecord([state |-> "executed", environment |-> environment,
                       infrastructure |-> ~timedOut /\ Valid(Current, environment),
                       artifacts |-> files[Current]])
      BY <1>5 DEF ScriptEnds
    <2> DEFINE r == [state |-> "executed", environment |-> environment,
                     infrastructure |-> ~timedOut /\ Valid(Current, environment),
                     artifacts |-> files[Current]]
    <2>1. r \in Record
      <3>1. (~timedOut /\ Valid(Current, environment)) \in BOOLEAN
        OBVIOUS
      <3> QED BY <1>1, <2>0, <3>1 DEF Record
    <2>2. SoundRecord(Current, r)
      <3>1. r.infrastructure => Valid(Current, environment)
        OBVIOUS
      <3> QED BY <1>1, <3>1, ValidSound DEF SoundRecord
    <2>3. AddRecord(r) /\ pc = "run"
      BY <1>5, <2>5 DEF ScriptEnds
    <2>4. r.environment.source = source
      BY <2>0
    <2> HIDE DEF r
    <2> QED BY <2>1, <2>2, <2>3, <2>4 DEF Adds
  <1> QED BY <1>2, <1>3, <1>4, <1>5

LEMMA OutcomeIInv ==
  ASSUME IInv, Skip \/ Resume \/ PreflightFails \/ ScriptEnds
  PROVE  IInv'
  BY Outcome, AddedIInv DEF Adds

(* A step of the script or the binary replaces one artifact. *)
LEMMA FileIInv ==
  ASSUME IInv, ScriptRemoves \/ BinaryEnds
  PROVE  IInv'
  <1>1. Current \in Experiments /\ TypeOK
    BY CurrentTyped DEF ScriptRemoves, BinaryEnds, IInv
  <1>2. PICK k \in Nat, a \in Artifact : files' = [files EXCEPT ![Current][k] = a]
    <2>1. CASE ScriptRemoves
      <3>1. removed + 1 \in Nat /\ Missing \in Artifact
        BY <1>1 DEF TypeOK, Artifact
      <3> QED BY <2>1, <3>1 DEF ScriptRemoves
    <2>2. CASE BinaryEnds
      <3>0. Label \in Environment
        BY <1>1, <2>2 DEF BinaryEnds, TypeOK, Label, Environment
      <3>1. PICK a \in {Missing} \cup [made : {Label}, verdict : {"pass", "miss"}] :
              files' = [files EXCEPT ![Current][written + 1] = a]
        BY <2>2 DEF BinaryEnds
      <3>2. written + 1 \in Nat /\ a \in Artifact
        BY <1>1, <3>0, <3>1 DEF TypeOK, Artifact
      <3> QED BY <3>1, <3>2
    <2> QED BY <2>1, <2>2
  <1>3. PICK n \in Nat : files[Current] \in [1 .. n -> Artifact]
    BY <1>1, FileSetOf DEF TypeOK
  <1>4. [files[Current] EXCEPT ![k] = a] \in [1 .. n -> Artifact]
    BY <1>3
  <1>5. files' = [files EXCEPT ![Current] = [files[Current] EXCEPT ![k] = a]]
    BY <1>2
  <1>6. /\ files' \in [Experiments -> FileSet]
        /\ \A e \in Experiments : DOMAIN files'[e] = DOMAIN files[e]
    BY <1>1, <1>4, <1>5, FileSetOf DEF TypeOK
  <1>7. /\ UNCHANGED <<report, pc, launch, records, environment, hashed, outside>>
        /\ removed' \in Nat /\ written' \in Nat
    BY <1>1 DEF ScriptRemoves, BinaryEnds, TypeOK
  <1>8. TypeOK'
    BY <1>1, <1>6, <1>7 DEF TypeOK, launch, outside
  <1> QED BY <1>7, <1>8 DEF IInv, launch, PassedIsAccepted, Located, Accepted

LEMMA StepIInv == IInv /\ [Next]_vars => IInv'
  <1> SUFFICES ASSUME IInv, [Next]_vars PROVE IInv'
    OBVIOUS
  <1>1. ASSUME NEW checkout \in Sources, NEW settings \in Plans, NEW again \in BOOLEAN,
               Launch(checkout, settings, again)
        PROVE  IInv'
    <2>1. /\ pc = "idle" /\ pc' = "gate" /\ source' = checkout /\ plan' = settings
          /\ resume' = again /\ previous' \in {report, NoReport}
          /\ UNCHANGED <<files, report, records, environment, removed, written, hashed, binary>>
      BY <1>1 DEF Launch, experiment
    <2>2. TypeOK'
      BY <2>1, NoReportTyped DEF IInv, TypeOK
    <2>3. Sound(previous'.records)
      BY <2>1, EmptySound, NoReportTyped DEF IInv
    <2>4. records = <<>>
      BY <2>1 DEF IInv, Located
    <2>5. Located'
      BY <2>1, <2>4, ManifestTyped DEF Located
    <2>6. PassedIsAccepted'
      BY <2>1 DEF IInv, PassedIsAccepted, Accepted
    <2> QED BY <2>1, <2>2, <2>3, <2>4, <2>5, <2>6, EmptySound DEF IInv
  <1>2. CASE Skip \/ Resume \/ PreflightFails \/ ScriptEnds
    BY <1>2, OutcomeIInv
  <1>3. CASE Abort \/ Finish \/ Interrupt
    BY <1>3, EndedIInv
  <1>4. CASE ScriptRemoves \/ BinaryEnds
    BY <1>4, FileIInv
  <1>5. CASE Prepare
    <2>1. /\ pc = "gate" /\ pc' = "wait" /\ environment' = EnvironmentOf(Current)
          /\ UNCHANGED <<files, report, launch, records, removed, written, hashed, binary>>
      BY <1>5 DEF Prepare, outside
    <2>2. TypeOK'
      BY <2>1, EnvironmentTyped DEF IInv, TypeOK, launch
    <2>3. Located'
      BY <2>1, EnvironmentTyped DEF IInv, Located, launch
    <2> QED BY <2>1, <2>2, <2>3 DEF IInv, launch, PassedIsAccepted, Accepted
  <1>6. CASE StartScript \/ Rebuild
    <2>1. /\ UNCHANGED <<files, report, launch, records, environment, removed, written>>
          /\ \/ pc = "wait" /\ pc' = "run" /\ hashed' = binary /\ binary' = binary
             \/ pc' = pc /\ hashed' = hashed /\ binary' \in Binaries
      BY <1>6 DEF StartScript, Rebuild, outside, experiment
    <2>2. TypeOK'
      BY <2>1 DEF IInv, TypeOK, launch
    <2>3. Located'
      BY <2>1 DEF IInv, Located, launch
    <2> QED BY <2>1, <2>2, <2>3 DEF IInv, launch, PassedIsAccepted, Accepted
  <1>7. CASE Over \/ UNCHANGED vars
    BY <1>7 DEF Over, vars, IInv, TypeOK, launch, experiment, outside, PassedIsAccepted, Located, Accepted
  <1> QED BY <1>1, <1>2, <1>3, <1>4, <1>5, <1>6, <1>7 DEF Next

(* The strengthening holds in every reachable state. *)
THEOREM IInvAlways == Spec => []IInv
  <1> QED BY InitIInv, StepIInv, PTL DEF Spec

-----------------------------------------------------------------------------
(* A resumed campaign never runs again what its report vouches for. *)
THEOREM NothingIsRerun == Spec => NothingRerun
  <1> DEFINE Rerun ==
        /\ resume /\ Current \in DOMAIN previous.records
        /\ LET r == previous.records[Current]
           IN  /\ r.state \in {"executed", "resumed"} /\ r.infrastructure
               /\ r.environment = environment' /\ environment'.binary # Unset
               /\ r.artifacts = files[Current]
  <1>1. ASSUME IInv, [Next]_vars, pc = "gate", pc' = "wait", Rerun PROVE FALSE
    <2>1. Prepare
      BY <1>1 DEF Next, Launch, Skip, Resume, PreflightFails, StartScript, ScriptEnds, AddRecord,
          Abort, Finish, Interrupt, Ended, ScriptRemoves, BinaryEnds, Rebuild, Over, vars
    <2>2. environment' = EnvironmentOf(Current) /\ ~CanResume(Current, environment')
      BY <2>1 DEF Prepare
    <2>3. Current \in Experiments
      BY <1>1, CurrentTyped
    <2>4. SoundRecord(Current, previous.records[Current])
      BY <1>1 DEF IInv, Sound
    <2>5. Valid(Current, environment')
      BY <1>1, <2>3, <2>4 DEF SoundRecord, Valid, Present
    <2>6. Vouched(Current, environment')
      BY <1>1 DEF Vouched
    <2> QED BY <1>1, <2>2, <2>5, <2>6 DEF CanResume
  <1>2. IInv /\ [Next]_vars => [pc = "gate" /\ pc' = "wait" => ~Rerun]_vars
    BY <1>1
  <1> QED BY <1>2, IInvAlways, PTL DEF Spec, NothingRerun

(* A report that says passed covers its whole manifest, each experiment with *)
(* evidence of the identity on its own record and all from one source, if the *)
(* manifest has an acceptance object: without one only the gates look at      *)
(* verdicts.                                                                *)
THEOREM PassedMeansComplete == Acceptance => (Spec => []PassedIsComplete)
  <1>1. ASSUME Acceptance, IInv PROVE PassedIsComplete
    <2> SUFFICES ASSUME report.passed PROVE PassedIsComplete
      BY DEF PassedIsComplete
    <2>1. /\ report.complete /\ report.records \in Seq(Record)
          /\ Len(report.records) = Len(LayersOf)
          /\ Accepted(report.records) /\ Sound(report.records) /\ OneSource(report.records)
      BY <1>1 DEF IInv, PassedIsAccepted, TypeOK, Report
    <2>2. DOMAIN report.records = Experiments
      BY <2>1, ManifestTyped
    <2>3. ASSUME NEW e \in Experiments, report.records[e].state # "skipped"
          PROVE  /\ Proven(e, report.records[e])
                 /\ report.records[e].artifacts[1].made.source = report.records[e].environment.source
      <3>1. report.records[e].infrastructure /\ AllPass(report.records[e].artifacts)
        BY <1>1, <2>1, <2>2 DEF Accepted
      <3>2. SoundRecord(e, report.records[e])
        BY <2>1, <2>2 DEF Sound
      <3>3. 1 \in 1 .. LayersOf[e]
        BY ManifestTyped
      <3>4. Matches(report.records[e].artifacts[1].made, report.records[e].environment)
        BY <2>3, <3>1, <3>2, <3>3 DEF SoundRecord
      <3> QED BY <2>3, <3>1, <3>2, <3>4 DEF SoundRecord, Present, Proven, Matches
    <2>4. \A d, e \in Experiments :
            report.records[d].state # "skipped" /\ report.records[e].state # "skipped" =>
              report.records[d].artifacts[1].made.source = report.records[e].artifacts[1].made.source
      BY <2>1, <2>2, <2>3 DEF OneSource
    <2> QED BY <2>1, <2>2, <2>3, <2>4 DEF PassedIsComplete
  <1>2. SUFFICES ASSUME Acceptance PROVE Spec => []PassedIsComplete
    OBVIOUS
  <1>3. IInv => PassedIsComplete
    BY <1>1, <1>2
  <1> QED BY <1>3, IInvAlways, PTL

-----------------------------------------------------------------------------
(* Promotion.  Every gate of the manifests in this repository demands that   *)
(* all tokens decrypt, an error bound, or both, and an empty list of         *)
(* artifacts fails either; `passed` alone would be met by a source that was   *)
(* skipped.                                                                 *)
GatesDemandEvidence == \A e \in Experiments : Gates[e].source # 0 => Gates[e].decrypts

(* A source of e among earlier records, complete, passing, without an issue. *)
Evidence(done, e) ==
  \E s \in 1 .. (e - 1) :
    /\ s = Gates[e].source /\ done[s].infrastructure
    /\ DOMAIN done[s].artifacts = 1 .. LayersOf[s]
    /\ \A l \in DOMAIN done[s].artifacts : done[s].artifacts[l].verdict = "pass"
Earned(done, e) == done[e].state # "skipped" /\ Gates[e].source # 0 => Evidence(done, e)
AllEarned(done) == \A e \in DOMAIN done : Earned(done, e)

(* While an experiment waits or runs, its gate has been open since it began.  *)
Opened == pc \in {"wait", "run"} /\ Gates[Current].source # 0 => Evidence(records, Current)
Promotion == AllEarned(records) /\ AllEarned(report.records) /\ Opened

(* A gate that opens has found a source with a complete set of passing       *)
(* artifacts: the list is not empty, so the source was not skipped, and it   *)
(* has no issue, so no artifact is missing.                                 *)
LEMMA GateFindsEvidence ==
  ASSUME GatesDemandEvidence, IInv, pc = "gate", Promoted(Current), Gates[Current].source # 0
  PROVE  Evidence(records, Current)
  <1>1. Current \in Experiments /\ DOMAIN records = 1 .. (Current - 1)
    BY CurrentTyped DEF IInv, TypeOK, Current
  <1>2. PICK s \in DOMAIN records : /\ s = Gates[Current].source /\ records[s].infrastructure
                                    /\ AllDecrypt(records[s].artifacts)
    BY <1>1 DEF Promoted, GatesDemandEvidence
  <1>3. SoundRecord(s, records[s])
    BY DEF IInv, Sound
  <1>4. records[s].state # "skipped"
    BY <1>2, <1>3 DEF SoundRecord, AllDecrypt, Present
  <1>5. /\ DOMAIN records[s].artifacts = 1 .. LayersOf[s]
        /\ \A l \in 1 .. LayersOf[s] : records[s].artifacts[l].verdict # "missing"
    BY <1>2, <1>3, <1>4 DEF SoundRecord
  <1>6. \A l \in DOMAIN records[s].artifacts : records[s].artifacts[l].verdict = "pass"
    BY <1>2, <1>5 DEF AllDecrypt, AllPass, Present
  <1> QED BY <1>1, <1>2, <1>5, <1>6 DEF Evidence

LEMMA AddedEarned ==
  ASSUME IInv, Promotion, NEW r \in Record, AddRecord(r),
         \/ r.state = "skipped"
         \/ Gates[Current].source = 0
         \/ Evidence(records, Current)
  PROVE  Promotion'
  <1> DEFINE done == Append(records, r)
  <1>1. /\ records' = done /\ report'.records = done /\ pc' \notin {"wait", "run"}
    BY DEF AddRecord, Payload
  <1>2. records \in Seq(Record) /\ Len(records) \in Nat
    BY DEF IInv, TypeOK
  <1>3. /\ DOMAIN done = 1 .. Current /\ DOMAIN records = 1 .. (Current - 1) /\ Current \in Nat
        /\ done[Current] = r /\ \A e \in 1 .. (Current - 1) : done[e] = records[e]
    BY <1>2 DEF Current
  <1>4. ASSUME NEW e \in 1 .. Current, Evidence(records, e) PROVE Evidence(done, e)
    <2>1. \A s \in 1 .. (e - 1) : s \in 1 .. (Current - 1)
      BY <1>3
    <2>2. \A s \in 1 .. (e - 1) : done[s] = records[s]
      BY <1>3, <2>1
    <2>3. PICK s \in 1 .. (e - 1) :
            /\ s = Gates[e].source /\ records[s].infrastructure
            /\ DOMAIN records[s].artifacts = 1 .. LayersOf[s]
            /\ \A l \in DOMAIN records[s].artifacts : records[s].artifacts[l].verdict = "pass"
      BY <1>4 DEF Evidence
    <2>4. done[s] = records[s]
      BY <2>2
    <2> HIDE DEF done
    <2> QED BY <2>3, <2>4 DEF Evidence
  <1>5. Earned(done, Current)
    BY <1>3, <1>4 DEF Earned
  <1>6. ASSUME NEW e \in 1 .. (Current - 1) PROVE Earned(done, e)
    <2>1. Earned(records, e) /\ e \in 1 .. Current
      BY <1>3 DEF Promotion, AllEarned
    <2> QED BY <1>3, <1>4, <2>1 DEF Earned
  <1>7. AllEarned(done)
    <2>1. \A e \in DOMAIN done : e = Current \/ e \in 1 .. (Current - 1)
      BY <1>3
    <2> QED BY <1>5, <1>6, <2>1 DEF AllEarned
  <1> HIDE DEF done
  <1> QED BY <1>1, <1>7 DEF Promotion, Opened, AllEarned, Earned, Evidence

LEMMA PromotionStep == GatesDemandEvidence /\ IInv /\ Promotion /\ [Next]_vars => Promotion'
  <1> SUFFICES ASSUME GatesDemandEvidence, IInv, Promotion, [Next]_vars PROVE Promotion'
    OBVIOUS
  <1>1. CASE Skip \/ Resume \/ PreflightFails \/ ScriptEnds
    <2>1. PICK r \in Record : Adds(r)
      BY <1>1, Outcome
    <2>2. AddRecord(r)
      BY <2>1 DEF Adds
    <2>3. \/ r.state = "skipped" \/ Gates[Current].source = 0 \/ Evidence(records, Current)
      BY <2>1, GateFindsEvidence DEF Adds, Promotion, Opened
    <2> QED BY <2>2, <2>3, AddedEarned
  <1>2. CASE Prepare
    <2>1. Gates[Current].source # 0 => Evidence(records, Current)
      BY <1>2, GateFindsEvidence DEF Prepare
    <2>2. records' = records /\ report' = report
      BY <1>2 DEF Prepare
    <2> QED BY <2>1, <2>2 DEF Promotion, Opened, AllEarned, Earned, Evidence, Current
  <1>3. CASE Abort \/ Finish \/ Interrupt
    <2>1. /\ report'.records \in {records, report.records}
          /\ records' = <<>> /\ pc' = "idle"
      BY <1>3 DEF Abort, Finish, Interrupt, Ended, Payload
    <2>2. AllEarned(records)'
      BY <2>1 DEF AllEarned
    <2>3. AllEarned(report'.records)
      BY <2>1 DEF Promotion
    <2>4. AllEarned(report.records)' <=> AllEarned(report'.records)
      BY DEF AllEarned, Earned, Evidence
    <2> QED BY <2>1, <2>2, <2>3, <2>4 DEF Promotion, Opened
  <1>4. CASE \/ \E checkout \in Sources, settings \in Plans, again \in BOOLEAN :
                    Launch(checkout, settings, again)
             \/ StartScript \/ ScriptRemoves \/ BinaryEnds \/ Rebuild \/ Over \/ UNCHANGED vars
    <2>1. /\ records' = records /\ report' = report
          /\ pc' \in {"wait", "run"} => pc \in {"wait", "run"}
      BY <1>4 DEF Launch, StartScript, ScriptRemoves, BinaryEnds, Rebuild, Over, vars
    <2> QED BY <2>1 DEF Promotion, Opened, AllEarned, Earned, Evidence, Current
  <1> QED BY <1>1, <1>2, <1>3, <1>4 DEF Next

(* Whatever is run or taken over has, in the same report, a source with      *)
(* complete and passing evidence, if the gates demand evidence at all.       *)
THEOREM PromotionIsEarned == GatesDemandEvidence => (Spec => []PromotedOnEvidence)
  <1>1. SUFFICES ASSUME GatesDemandEvidence PROVE Spec => []PromotedOnEvidence
    OBVIOUS
  <1>2. Init => Promotion
    BY NoReportTyped DEF Init, Promotion, Opened, AllEarned
  <1>3. IInv /\ Promotion /\ [Next]_vars => Promotion'
    BY <1>1, PromotionStep
  <1>4. Promotion => PromotedOnEvidence
    BY DEF Promotion, AllEarned, Earned, Evidence, PromotedOnEvidence
  <1> QED BY <1>2, <1>3, <1>4, IInvAlways, PTL DEF Spec
===============================================================================
