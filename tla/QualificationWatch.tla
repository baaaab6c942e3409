-------------------------- MODULE QualificationWatch --------------------------
(***************************************************************************)
(* How the monitor follows a qualification report that another process     *)
(* rewrites in place (watch_training.py with --qualification-report): the  *)
(* modification time is read first and the report afterwards, a report     *)
(* that does not parse is retried, the first reports form a baseline and   *)
(* later ones extend or end a streak of regressions.                       *)
(***************************************************************************)
EXTENDS WatchdogPolicy

CONSTANTS Snapshots,          \* what a complete report may hold
          BaselineSamples, HazardMargin, RecoveryMargin,
          MaxWrites           \* write calls on the report during the run

\* What is assumed of the constants.
QualificationAssumption ==
  /\ BaselineSamples \in Nat \ {0}
  /\ MaxWrites \in Nat
  /\ {HazardMargin, RecoveryMargin} \subseteq Nat
  /\ NoReading \notin Int
  /\ Snapshots \subseteq [eligible : BOOLEAN, hazard : Int \cup {NoReading},
                          recovery : Int \cup {NoReading}, whole : {TRUE}]

Partial == [eligible |-> FALSE, hazard |-> NoReading, recovery |-> NoReading, whole |-> FALSE]
Absent == 0

VARIABLES
  file,     \* [token, content]: st_mtime_ns counts the writes; Absent while none
  pc,       \* where the monitor is in its poll
  seen,     \* the token stat'd by this poll
  token,    \* qualification_token
  samples, baseline, streak,
  attachedAt, counted    \* for the properties: tokens and snapshots taken in, in order

vars == <<file, pc, seen, token, samples, baseline, streak, attachedAt, counted>>
monitor == <<pc, seen, token, samples, baseline, streak, attachedAt, counted>>
NoBaseline == [eligible |-> FALSE, hazard |-> NoReading, recovery |-> NoReading]

Init ==
  /\ file = [token |-> Absent, content |-> Partial]
  /\ pc = "attach" /\ seen = Absent /\ token = Absent
  /\ samples = <<>> /\ baseline = NoBaseline /\ streak = 0
  /\ attachedAt = Absent /\ counted = <<>>

\* write_text opens, truncates and then fills the file.
Truncate ==
  /\ file.token < MaxWrites - 1
  /\ file.content.whole \/ file.token = Absent
  /\ file' = [token |-> file.token + 1, content |-> Partial]
  /\ UNCHANGED monitor
Fill ==
  /\ file.token # Absent /\ ~file.content.whole
  /\ \E s \in Snapshots : file' = [token |-> file.token + 1, content |-> s]
  /\ UNCHANGED monitor

Attach ==
  /\ pc = "attach" /\ pc' = "stat"
  /\ token' = file.token /\ attachedAt' = file.token
  /\ UNCHANGED <<file, seen, samples, baseline, streak, counted>>

Stat ==
  /\ pc = "stat" /\ file.token \notin {Absent, token}
  /\ seen' = file.token /\ pc' = "read"
  /\ UNCHANGED <<file, token, samples, baseline, streak, attachedAt, counted>>

Unreadable ==
  /\ pc = "read" /\ pc' = "stat" /\ ~file.content.whole
  /\ UNCHANGED <<file, seen, token, samples, baseline, streak, attachedAt, counted>>

Taken == /\ pc = "read" /\ pc' = "stat" /\ file.content.whole
         /\ token' = seen
         /\ counted' = Append(counted, file)
         /\ UNCHANGED <<file, seen, attachedAt>>

\* qualification_snapshot: the verdict of the newest checkpoint of the report.
Snapshot == file.content

HasBaseline == Len(samples) >= BaselineSamples

Sample ==
  /\ Taken /\ ~HasBaseline
  /\ samples' = Append(samples, Snapshot)
  /\ baseline' = IF Len(samples) + 1 >= BaselineSamples
                 THEN QualificationBaseline(samples') ELSE NoBaseline
  /\ streak' = 0

\* Mutant: a healthy report does not end the streak.
Compare_NeverResets ==
  /\ Taken /\ HasBaseline
  /\ streak' = IF QualificationRegressions(baseline, Snapshot, HazardMargin,
                                           RecoveryMargin) # {} THEN streak + 1 ELSE streak
  /\ UNCHANGED <<samples, baseline>>

Compare ==
  /\ Taken /\ HasBaseline
  /\ streak' = IF QualificationRegressions(baseline, Snapshot, HazardMargin,
                                           RecoveryMargin) # {} THEN streak + 1 ELSE 0
  /\ UNCHANGED <<samples, baseline>>

Poll == Stat \/ Unreadable \/ Sample \/ Compare
Next == Truncate \/ Fill \/ Attach \/ Poll

Spec == Init /\ [][Next]_vars
-----------------------------------------------------------------------------
\* The types of the monitor's qualification locals.
TypeOK ==
  /\ file.token \in 0..MaxWrites /\ pc \in {"attach", "stat", "read"}
  /\ {seen, token, attachedAt} \subseteq 0..MaxWrites
  /\ streak \in 0..Len(counted) /\ Len(samples) <= BaselineSamples

\* A report that existed at attachment, and a half-written one, is never taken in: every
\* snapshot counted was completed afterwards.
OnlyFreshReports ==
  \A i \in DOMAIN counted : counted[i].token > attachedAt /\ counted[i].content.whole

\* The streak is a function of what was counted: the reports after the baseline's, from
\* the last one that does not regress.
Regressing(i) ==
  QualificationRegressions(
    QualificationBaseline([j \in 1..BaselineSamples |-> counted[j].content]),
    counted[i].content, HazardMargin, RecoveryMargin) # {}
StreakIsTheTail ==
  LET later == (BaselineSamples + 1)..Len(counted)
      healthy == {i \in later : ~Regressing(i)} \cup {Min({BaselineSamples, Len(counted)})}
  IN  streak = Len(counted) - Max(healthy)

\* The policy never stops a run on a metric that improves on every sample of the baseline,
\* whichever samples they were.
ImprovementIsHealthy ==
  HasBaseline =>
    \A s \in Snapshots :
      (\A i \in DOMAIN samples :
         /\ samples[i].eligible => s.eligible
         /\ NoReading \notin {s.hazard, samples[i].hazard} => s.hazard <= samples[i].hazard
         /\ NoReading \notin {s.recovery, samples[i].recovery}
              => s.recovery >= samples[i].recovery)
      => QualificationRegressions(baseline, s, HazardMargin, RecoveryMargin) = {}

\* docs/training-watchdog.md: the first two newly written reports form the baseline, and
\* the regressions are of consecutive reports: no report is counted twice
\* (violated).
NoReportCountedTwice ==
  \A i, j \in DOMAIN counted : counted[i].token = counted[j].token => i = j
=============================================================================
