------------------------------ MODULE Campaign ------------------------------
(***************************************************************************)
(* A benchmark campaign (run_dgx_campaign.py, main): the experiments of a   *)
(* manifest in order, each behind a promotion gate on an earlier one, each   *)
(* run by a shell script that leaves one artifact file per layer count.      *)
(* After every experiment the report is replaced atomically; --resume takes  *)
(* over artifacts that the previous report and their own identity vouch for. *)
(*                                                                         *)
(* The environment of an experiment is made when its turn comes:            *)
(*   source   version and commit, and the payload's hash where the platform  *)
(*            takes one; found once per launch and always compared           *)
(*   binary   the hash of the binary at that moment if the environment       *)
(*            names one, else Unset and not compared                        *)
(*   setting  every other variable; of these the artifact repeats only the   *)
(*            synchronization profile (Sync), compared if it is set          *)
(* An artifact is what it was really made under and a verdict; one that      *)
(* does not parse or validate counts as missing, with the same consequences. *)
(***************************************************************************)
EXTENDS Naturals, Sequences

CONSTANTS
  LayersOf,             \* per experiment, how many layer counts it measures
  Gates,                \* per experiment, its `when`: source 0 if unconditional
  Continues,            \* experiments with continue_on_infrastructure_failure
  Acceptance,           \* the manifest has an acceptance object
  Sources, Binaries, Settings,
  Named,                \* settings with BINARY or BINARY_PATH
  Sync,                 \* per setting, its synchronization profile or Unset
  Plans,                \* the settings a launch may give its experiments
  Unset,
  MaxLaunches, MaxRebuilds  \* bounds on the launches and rebuilds considered

Experiments == DOMAIN LayersOf

ASSUME ManifestAssumption ==
  /\ LayersOf \in Seq(Nat \ {0}) /\ LayersOf # <<>>
  /\ Gates \in [Experiments -> [source : Nat, passed : BOOLEAN, decrypts : BOOLEAN]]
  /\ Continues \subseteq Experiments /\ Acceptance \in BOOLEAN
  /\ Plans \subseteq [Experiments -> Settings] /\ Named \subseteq Settings
ASSUME BoundsAssumption == MaxLaunches \in Nat /\ MaxRebuilds \in Nat

VARIABLES
  files,                \* per experiment and layer, the artifact on disk
  report,               \* the campaign report on disk
  binary,               \* what lies at the path of the binary
  pc,                   \* where main is, "idle" between launches
  source, plan, resume, \* of this launch
  previous,             \* the report --resume started from
  records,              \* of this launch, one per experiment done
  environment,          \* of the experiment that waits or runs
  removed, written,     \* layers the running script has cleared and finished
  hashed,               \* the binary the script found when it started
  launches, rebuilds

launch == <<source, plan, resume, previous>>
experiment == <<environment, removed, written, hashed>>
outside == <<binary, launches, rebuilds>>
vars == <<files, report, pc, launch, records, experiment, outside>>

Missing == [made |-> <<>>, verdict |-> "missing"]
NoReport == [complete |-> FALSE, passed |-> FALSE, records |-> <<>>]

Init ==
  /\ files = [e \in Experiments |-> [l \in 1 .. LayersOf[e] |-> Missing]]
  /\ report = NoReport /\ previous = NoReport
  /\ binary \in Binaries
  /\ pc = "idle" /\ source = Unset /\ plan = Unset /\ resume = FALSE
  /\ records = <<>>
  /\ environment = Unset /\ removed = 0 /\ written = 0 /\ hashed = Unset
  /\ launches = 0 /\ rebuilds = 0

Current == Len(records) + 1

-----------------------------------------------------------------------------
(* Rules over artifacts and records *)

Present(artifacts) == {l \in DOMAIN artifacts : artifacts[l].verdict # "missing"}
AllPass(artifacts) == \A l \in Present(artifacts) : artifacts[l].verdict = "pass"

\* Wrong on purpose: no artifact, no objection.
AllDecryptVacuous(artifacts) == AllPass(artifacts)
(* all_decrypt, and max_error in the same way, fail on an empty list. *)
AllDecrypt(artifacts) == Present(artifacts) # {} /\ AllPass(artifacts)

(* _promotion_satisfied *)
Promoted(e) ==
  \/ Gates[e].source = 0
  \/ \E s \in DOMAIN records :
       /\ s = Gates[e].source
       /\ records[s].infrastructure
       /\ Gates[e].decrypts => AllDecrypt(records[s].artifacts)
       /\ Gates[e].passed => AllPass(records[s].artifacts)

(* campaign_env with what _artifact_expectation adds to it. *)
EnvironmentOf(e) ==
  [source |-> source, binary |-> IF plan[e] \in Named THEN binary ELSE Unset,
   setting |-> plan[e]]

(* _validate_artifact_identity: what is unset is not compared. *)
Matches(made, env) ==
  /\ made.source = env.source
  /\ env.binary \in {Unset, made.binary}
  /\ Sync[env.setting] \in {Unset, Sync[made.setting]}

\* Wrong on purpose: any artifact at the right path will do.
ValidUnidentified(e, env) == Present(files[e]) = 1 .. LayersOf[e]
(* _load_artifacts without issues: all there, all of the identity expected. *)
Valid(e, env) == /\ Present(files[e]) = 1 .. LayersOf[e]
                 /\ \A l \in Present(files[e]) : Matches(files[e][l].made, env)

\* Wrong on purpose: only a finished campaign can be resumed.
VouchedIfComplete(e, env) == /\ previous.complete
                             /\ e \in DOMAIN previous.records
                             /\ previous.records[e].environment = env
(* _resume_context_issues is empty. *)
Vouched(e, env) == /\ e \in DOMAIN previous.records
                   /\ previous.records[e].environment = env

Accepted(done) ==
  /\ \A r \in DOMAIN done : done[r].infrastructure
  /\ Acceptance => /\ \E r \in DOMAIN done : Present(done[r].artifacts) # {}
                   /\ \A r \in DOMAIN done : AllPass(done[r].artifacts)

(* write_campaign: the report is built from the records and replaced. *)
Payload(done, complete) ==
  [complete |-> complete, passed |-> complete /\ Accepted(done), records |-> done]

(* Append a record and write the report; a failure that is not to be         *)
(* continued ends the campaign.  What belonged to the experiment is gone.    *)
AddRecord(record) ==
  LET done == Append(records, record)
  IN  /\ records' = done
      /\ report' = Payload(done, Len(done) = Len(LayersOf))
      /\ pc' = IF ~record.infrastructure /\ Current \notin Continues THEN "failed"
               ELSE IF Len(done) = Len(LayersOf) THEN "finish" ELSE "gate"
      /\ environment' = Unset /\ removed' = 0 /\ written' = 0 /\ hashed' = Unset
      /\ UNCHANGED <<files, launch, outside>>

-----------------------------------------------------------------------------
(* main *)

(* The user starts the program, with or without --resume.  The checkout and  *)
(* the settings are whatever they are by then.                              *)
Launch(checkout, settings, again) ==
  /\ pc = "idle" /\ launches < MaxLaunches
  /\ launches' = launches + 1
  /\ source' = checkout /\ plan' = settings /\ resume' = again
  /\ previous' = IF again THEN report ELSE NoReport
  /\ pc' = "gate"
  /\ UNCHANGED <<files, report, records, experiment, binary, rebuilds>>

Skip ==
  /\ pc = "gate" /\ ~Promoted(Current)
  /\ AddRecord([state |-> "skipped", environment |-> Unset, infrastructure |-> TRUE,
                artifacts |-> <<>>])

(* A resume needs a binary to compare with (require_binary_match). *)
CanResume(e, env) == /\ resume /\ env.binary # Unset
                     /\ Vouched(e, env) /\ Valid(e, env)

Resume ==
  /\ pc = "gate" /\ Promoted(Current)
  /\ LET env == EnvironmentOf(Current)
     IN  /\ CanResume(Current, env)
         /\ AddRecord([state |-> "resumed", environment |-> env, infrastructure |-> TRUE,
                       artifacts |-> files[Current]])

(* The experiment has to be run; its environment is fixed before the wait    *)
(* for an idle GPU.                                                         *)
Prepare ==
  /\ pc = "gate" /\ Promoted(Current)
  /\ LET env == EnvironmentOf(Current)
     IN  ~CanResume(Current, env) /\ environment' = env
  /\ pc' = "wait"
  /\ UNCHANGED <<files, report, launch, records, removed, written, hashed, outside>>

(* _wait_for_idle_gpu gives up, or the script is started. *)
PreflightFails ==
  /\ pc = "wait"
  /\ AddRecord([state |-> "preflight-failed", environment |-> environment,
                infrastructure |-> FALSE, artifacts |-> <<>>])

StartScript ==
  /\ pc = "wait" /\ pc' = "run" /\ hashed' = binary
  /\ UNCHANGED <<files, report, launch, records, environment, removed, written, outside>>

(* The script ended (its exit code is recorded, and decides nothing), or the *)
(* timeout ended it, which is an issue.                                     *)
ScriptEnds ==
  /\ pc = "run"
  /\ \E timedOut \in BOOLEAN :
       AddRecord([state |-> "executed", environment |-> environment,
                  infrastructure |-> ~timedOut /\ Valid(Current, environment),
                  artifacts |-> files[Current]])

(* The process ends and takes with it everything that is not on disk. *)
Ended ==
  /\ pc' = "idle" /\ source' = Unset /\ plan' = Unset /\ resume' = FALSE
  /\ previous' = NoReport /\ records' = <<>>
  /\ environment' = Unset /\ removed' = 0 /\ written' = 0 /\ hashed' = Unset
  /\ UNCHANGED <<files, outside>>

(* The second write of an aborted campaign, and the last of a finished one. *)
Abort == pc = "failed" /\ report' = Payload(records, TRUE) /\ Ended
Finish == pc = "finish" /\ report' = Payload(records, TRUE) /\ Ended

(* A signal raises out of main; run_process ends the script first. *)
Interrupt == pc # "idle" /\ UNCHANGED report /\ Ended

-----------------------------------------------------------------------------
(* The script: per layer count, clear the old artifact, run the binary,      *)
(* which leaves a new one or none, labelled with the hash the script took    *)
(* when it started.  It may end anywhere (ScriptEnds), in particular refuse  *)
(* before it cleared anything.                                              *)

ScriptRemoves ==
  /\ pc = "run" /\ removed = written /\ removed < LayersOf[Current]
  /\ removed' = removed + 1
  /\ files' = [files EXCEPT ![Current][removed + 1] = Missing]
  /\ UNCHANGED <<report, pc, launch, records, environment, written, hashed, outside>>

Label == [environment EXCEPT !.binary = hashed]

BinaryEnds ==
  /\ pc = "run" /\ written < removed
  /\ written' = written + 1
  /\ \E artifact \in {Missing} \cup [made : {Label}, verdict : {"pass", "miss"}] :
       files' = [files EXCEPT ![Current][written + 1] = artifact]
  /\ UNCHANGED <<report, pc, launch, records, environment, removed, hashed, outside>>

(* Someone builds the binary again, at any time; an experiment whose own     *)
(* variables name another path finds another binary in the same way.         *)
Rebuild ==
  /\ rebuilds < MaxRebuilds /\ rebuilds' = rebuilds + 1
  /\ binary' \in Binaries \ {binary}
  /\ UNCHANGED <<files, report, pc, launch, records, experiment, launches>>

-----------------------------------------------------------------------------
Over == pc = "idle" /\ launches = MaxLaunches /\ UNCHANGED vars

Next == \/ \E checkout \in Sources, settings \in Plans, again \in BOOLEAN :
             Launch(checkout, settings, again)
        \/ Skip \/ Resume \/ Prepare \/ PreflightFails \/ StartScript \/ ScriptEnds
        \/ Abort \/ Finish \/ Interrupt
        \/ ScriptRemoves \/ BinaryEnds \/ Rebuild \/ Over

Spec == Init /\ [][Next]_vars

-----------------------------------------------------------------------------
(* Properties *)

(* Evidence belongs to the experiment it is filed under: what a resumed     *)
(* campaign has on record without issues, taken over or executed again, was  *)
(* made under the environment of the record.  "any mismatch causes the stale *)
(* artifact to be rerun" (docs/validation.md:412).                           *)
RecordedIsOwn ==
  resume => \A e \in DOMAIN records :
    LET r == records[e]
    IN  r.infrastructure => \A l \in DOMAIN r.artifacts :
          /\ Matches(r.artifacts[l].made, r.environment)
          /\ r.artifacts[l].made.setting = r.environment.setting

(* "Run resumable DGX benchmark campaigns": after an interruption at any     *)
(* point, what the previous report has on record without issues, and is     *)
(* still on disk, is not run again in the environment it was recorded under, *)
(* if that names its binary.                                                *)
NothingRerun ==
  [][pc = "gate" /\ pc' = "wait" =>
       ~(/\ resume /\ Current \in DOMAIN previous.records
         /\ LET r == previous.records[Current]
            IN  /\ r.state \in {"executed", "resumed"} /\ r.infrastructure
                /\ r.environment = environment' /\ environment'.binary # Unset
                /\ r.artifacts = files[Current])]_vars

(* An experiment is run or taken over only after its gate's source, in the  *)
(* same report, has a complete set of passing artifacts and no issue.       *)
PromotedOnEvidence ==
  \A e \in DOMAIN report.records :
    report.records[e].state # "skipped" /\ Gates[e].source # 0 =>
      \E s \in 1 .. (e - 1) :
        LET r == report.records[s]
        IN  /\ s = Gates[e].source /\ r.infrastructure
            /\ DOMAIN r.artifacts = 1 .. LayersOf[s]
            /\ \A l \in DOMAIN r.artifacts : r.artifacts[l].verdict = "pass"

(* What a record stands for if it is to count as passed: all artifacts, all  *)
(* passing, all of the identity on record.                                  *)
Proven(e, r) ==
  /\ Present(r.artifacts) = 1 .. LayersOf[e] /\ AllPass(r.artifacts)
  /\ \A l \in 1 .. LayersOf[e] : Matches(r.artifacts[l].made, r.environment)

(* A report that says passed is about the whole manifest: every experiment   *)
(* has a record, whatever was not skipped is proven, and all of it comes     *)
(* from one source.  Two experiments may still have been measured with two   *)
(* binaries: nothing in the code compares them with each other.             *)
PassedIsComplete ==
  report.passed =>
    LET measured == {e \in Experiments : report.records[e].state # "skipped"}
    IN  /\ report.complete /\ DOMAIN report.records = Experiments
        /\ \A e \in measured : Proven(e, report.records[e])
        /\ \A d, e \in measured : report.records[d].artifacts[1].made.source
                                 = report.records[e].artifacts[1].made.source
=============================================================================
