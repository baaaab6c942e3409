----------------------------- MODULE VelocityKicks -----------------------------
(***************************************************************************)
(* The disturbances that set a velocity: the kick of ResidualMPC, one per  *)
(* episode, with the curriculum that scales it on survival, and the        *)
(* historical push at intervals.  Neither forgets its record at a reset:   *)
(* whether a push belongs to the episode is decided by comparing the       *)
(* global step counter with the length of the episode.                     *)
(***************************************************************************)
EXTENDS Integers, FiniteSets, FiniteSetsExt

CONSTANTS Warmup,            \* warmup_s in policy steps
          MaxLength,         \* the episode cap
          Start, Top,        \* the first and the largest scale, in increments
          Whole,             \* resolution of the smoothed survival
          Advance, Regress   \* its fractions

ASSUME KickAssumption ==
  /\ {Warmup, MaxLength, Top, Whole} \subseteq Nat \ {0} /\ Start \in 0..Top
  /\ {Advance, Regress} \subseteq Nat
  /\ Warmup < MaxLength /\ Regress < Advance /\ Advance < Whole

VARIABLES kind,                                 \* "once" or "interval", as configured
          length, since, scale, smoothed, pc,   \* as in ImpulseSchedule; {} is NaN
          kicks, kickedAt, survivors            \* for the properties

vars == <<kind, length, since, scale, smoothed, pc, kicks, kickedAt, survivors>>

Never == MaxLength + 1

Init ==
  /\ kind \in {"once", "interval"}
  /\ length = 0 /\ since = Never /\ scale = Start /\ smoothed = {} /\ pc = "reset"
  /\ kicks = 0 /\ kickedAt = 0 /\ survivors = 0

Physics ==
  /\ pc = "step" /\ length < MaxLength
  /\ length' = length + 1 /\ since' = Min({since + 1, Never})
  /\ pc' \in {"reset"} \cup (IF length' < MaxLength THEN {"event"} ELSE {})
  /\ UNCHANGED <<kind, scale, smoothed, kicks, kickedAt, survivors>>

\* The time_out flag still describes the episode that finished.
Sample == IF length = MaxLength THEN Whole ELSE 0

Smooth(sample) ==
  IF smoothed = {} THEN {sample}
  ELSE LET old == CHOOSE s \in smoothed : TRUE
       IN  Min({old, sample})..Max({old, sample})

Rescaled(value) == IF value > Advance THEN Min({Top, scale + 1})
                   ELSE IF value < Regress THEN Max({0, scale - 1}) ELSE scale

Reset ==
  /\ pc = "reset" /\ pc' = "event"
  /\ \E value \in Smooth(Sample) : smoothed' = {value} /\ scale' = Rescaled(value)
  /\ survivors' = Min({survivors + (IF length = MaxLength THEN 1 ELSE 0), 1})
  /\ length' = 0 /\ kicks' = 0 /\ kickedAt' = 0
  /\ UNCHANGED <<kind, since>>

\* Mutant: a kick of an earlier episode counts.
Kicked_Ever == since < Never

Kicked == since < length

Kick == since' = 0 /\ kicks' = kicks + 1 /\ kickedAt' = length

\* push_and_record: suppressed during the warmup, not rescheduled.
PushNow(called) == called /\ length >= Warmup

\* The manager's countdown calls the interval term at steps of its own.
Event ==
  /\ pc = "event" /\ pc' = "step"
  /\ \E called \in IF kind = "once" THEN {TRUE} ELSE BOOLEAN :
       IF PushNow(called) /\ ~(kind = "once" /\ Kicked) THEN Kick
       ELSE UNCHANGED <<since, kicks, kickedAt>>
  /\ UNCHANGED <<kind, length, scale, smoothed, survivors>>

Next == Physics \/ Reset \/ Event
Spec == Init /\ [][Next]_vars
-----------------------------------------------------------------------------
Age == IF since >= length THEN Never ELSE since

TypeOK ==
  /\ kind \in {"once", "interval"}
  /\ length \in 0..MaxLength /\ since \in 0..Never /\ scale \in 0..Top
  /\ smoothed \subseteq 0..Whole /\ Cardinality(smoothed) <= 1
  /\ pc \in {"step", "reset", "event"}

\* initial_velocity_kick: an episode gets exactly one base-velocity kick, as soon as the
\* warmup is over, whatever the step counter and the record of earlier episodes say.
OneKickPerEpisode ==
  kind = "once" => kicks <= 1 /\ (pc = "step" /\ length >= Warmup => kicks = 1)

\* The age the recovery terms read is the age of this episode's last push, or never.
AgeIsThisEpisodes ==
  length > 0 => IF kicks = 0 THEN Age = Never ELSE Age = length - kickedAt

\* The kick grows past its first scale only after an episode was survived.
GrowthNeedsSurvival == scale > Start => survivors > 0

\* No push is missing, repeated or mistaken for one of another episode, and the kick grows
\* on survival only.
KicksAreTheEpisodes == OneKickPerEpisode /\ AgeIsThisEpisodes /\ GrowthNeedsSurvival
=============================================================================
