------------------------------- MODULE MCJobs -------------------------------
(* Instances of ThreatScore, ThreatIntel, Migration and Reports for TLC.    *)
(* They share no variable, so each moves while the others stay as they      *)
(* started.                                                                 *)
EXTENDS ThreatScore, ThreatIntel, Migration, Reports

VARIABLE job \* the one that moves

NoKeyRow == [on |-> FALSE, key |-> 0]

Init ==
  /\ InitScore /\ InitIntel /\ InitMigration /\ InitReports
  /\ job \in {"score", "intel", "move", "report"}
  /\ job # "score" => keyRow = NoKeyRow
  /\ job # "move" => keyFile = 0
  /\ job # "report" => ~ mail.on

Next ==
  /\ UNCHANGED job
  /\ \/ job = "score" /\ NextScore /\ UNCHANGED <<intelVars, moveVars, mailVars>>
     \/ job = "intel" /\ NextIntel /\ UNCHANGED <<scoreVars, moveVars, mailVars>>
     \/ job = "move" /\ NextMigration /\ UNCHANGED <<scoreVars, intelVars, mailVars>>
     \/ job = "report" /\ NextReports /\ UNCHANGED <<scoreVars, intelVars, moveVars>>

\* The reporter starts at work, and counts as enabled while others move.
Spec ==
  /\ Init /\ [][Next]_<<job, scoreVars, intelVars, moveVars, mailVars>>
  /\ FairScore /\ FairIntel
  /\ WF_mailVars(job = "report" /\ ReporterStep)
  /\ WF_mailVars(job = "report" /\ StartReporter)

\* Each property comes with the type invariant of its module, which also says
\* that no list is newer than what was published.

\* The classifier in use and the judgments it gave belong to the stored key.
ScoreFollowsKey == TypeOKScore /\ JudgedUnderThisKey /\ ClassifierFollowsSetting

\* What is blocked is what the tables say, and lists only go forward.
IntelIsCurrent == [](TypeOKIntel /\ IntelFollowsTables) /\ ListsGoForward

\* A move to an empty database is complete, and rows that are added after it
\* get new ids.
MovesWhole == CopiedExactly /\ [](TypeOKMigration /\ FreshIds)

\* The first start on the target reads every secret, and a process with a key
\* leaves none open.
SecretsStayReadable == SwitchedSecretsOpen /\ []SealedAtRest

\* A day's report is mailed once, not before the day is over, and not never.
ReportedOnce == [](TypeOKReports /\ OneReportPerDay) /\ NoDayIsSkipped

\* What is under way ends: a judgment, and the wait of a source that is due.
WorkEnds == JudgmentEnds /\ DueIsSynced
=============================================================================
