------------------------------ MODULE Pomodoro ------------------------------
(***************************************************************************)
(* The Pomodoro hook of the web application (hooks/usePomodoro.ts).  The   *)
(* time left is derived from the start of the phase; the interval that     *)
(* ends a phase may fire late, as it does in a background tab.             *)
(***************************************************************************)
EXTENDS Integers, FiniteSetsExt

CONSTANTS
    Work, ShortBreak, LongBreak,  \* POMODORO_DURATIONS_SEC
    CyclesBeforeLongBreak,
    MaxNow                        \* bound: the clock

ASSUME PomodoroAssumption ==
    /\ {Work, ShortBreak, LongBreak, CyclesBeforeLongBreak} \subseteq Nat \ {0}
    /\ MaxNow \in Nat

VARIABLES
    timerOn,          \* the user's preference
    phase, cycle, phaseStartedAt, pausedRemaining,  \* the hook's state
    now,
    worked            \* history: seconds the phase has run, pauses left out

pomodoroVars == <<timerOn, phase, cycle, phaseStartedAt, pausedRemaining, now, worked>>

NotPaused == -1

PhaseDuration(p) == CASE p = "work" -> Work
                      [] p = "shortBreak" -> ShortBreak
                      [] p = "longBreak" -> LongBreak
                      [] p = "idle" -> 0

\* MUTANT of AdvancePhase: the long break is one cycle late.
AdvancePhaseLate(p, c) ==
    CASE p = "idle" -> <<"work", 1>>
      [] p = "work" -> <<IF c > CyclesBeforeLongBreak THEN "longBreak" ELSE "shortBreak", c>>
      [] p = "shortBreak" -> <<"work", c + 1>>
      [] p = "longBreak" -> <<"work", 1>>

\* The phase and the cycle that come next.
AdvancePhase(p, c) ==
    CASE p = "idle" -> <<"work", 1>>
      [] p = "work" -> <<IF c >= CyclesBeforeLongBreak THEN "longBreak" ELSE "shortBreak", c>>
      [] p = "shortBreak" -> <<"work", c + 1>>
      [] p = "longBreak" -> <<"work", 1>>

Total == PhaseDuration(phase)
Elapsed == now - phaseStartedAt
Remaining == CASE phase = "idle" -> 0
               [] phase # "idle" /\ pausedRemaining # NotPaused -> pausedRemaining
               [] OTHER -> Max({0, Total - Elapsed})

\* A phase begins now.
Enter(next) == /\ phase' = next[1] /\ cycle' = next[2] /\ phaseStartedAt' = now
               /\ worked' = 0
BackToIdle == /\ phase' = "idle" /\ cycle' = 0 /\ phaseStartedAt' = 0
              /\ pausedRemaining' = NotPaused /\ worked' = 0

PomodoroInit == /\ timerOn = TRUE /\ phase = "idle" /\ cycle = 0 /\ phaseStartedAt = 0
                /\ pausedRemaining = NotPaused /\ now = 0 /\ worked = 0

-----------------------------------------------------------------------------
\* The preference is switched; switched off, the effect resets the hook.
Toggle == /\ timerOn' = ~timerOn
          /\ IF timerOn THEN BackToIdle
             ELSE UNCHANGED <<phase, cycle, phaseStartedAt, pausedRemaining, worked>>
          /\ UNCHANGED now

Start == /\ timerOn /\ phase = "idle"
         /\ Enter(<<"work", 1>>) /\ pausedRemaining' = NotPaused
         /\ UNCHANGED <<timerOn, now>>

Pause == /\ phase # "idle" /\ pausedRemaining = NotPaused
         /\ pausedRemaining' = Max({0, Total - Elapsed})
         /\ UNCHANGED <<timerOn, phase, cycle, phaseStartedAt, now, worked>>

\* MUTANT of Resume: the start of the phase is not moved.
ResumeInPlace == /\ pausedRemaining # NotPaused
                 /\ pausedRemaining' = NotPaused
                 /\ UNCHANGED <<timerOn, phase, cycle, phaseStartedAt, now, worked>>

Resume == /\ pausedRemaining # NotPaused
          /\ phaseStartedAt' = now - (Total - pausedRemaining)
          /\ pausedRemaining' = NotPaused
          /\ UNCHANGED <<timerOn, phase, cycle, now, worked>>

Reset == /\ phase # "idle" /\ BackToIdle /\ UNCHANGED <<timerOn, now>>

\* MUTANT of Skip: a pause outlives the phase it was made in.
SkipKeepsPause == /\ phase # "idle"
                  /\ Enter(AdvancePhase(phase, cycle))
                  /\ UNCHANGED <<timerOn, now, pausedRemaining>>

Skip == /\ phase # "idle"
        /\ Enter(AdvancePhase(phase, cycle)) /\ pausedRemaining' = NotPaused
        /\ UNCHANGED <<timerOn, now>>

\* The interval fires and finds the phase over.
PhaseOver == /\ timerOn /\ phase # "idle" /\ pausedRemaining = NotPaused
             /\ Elapsed >= Total
             /\ Enter(AdvancePhase(phase, cycle))
             /\ UNCHANGED <<timerOn, now, pausedRemaining>>

TimePasses == /\ now < MaxNow /\ now' = now + 1
              /\ worked' = IF phase # "idle" /\ pausedRemaining = NotPaused
                             THEN worked + 1 ELSE worked
              /\ UNCHANGED <<timerOn, phase, cycle, phaseStartedAt, pausedRemaining>>

PomodoroNext == \/ Toggle \/ Start \/ Pause \/ Resume \/ Reset \/ Skip
                \/ PhaseOver \/ TimePasses

PomodoroSpec == PomodoroInit /\ [][PomodoroNext]_pomodoroVars

-----------------------------------------------------------------------------
\* Types; no more is left of a phase than it lasts, pauses included.
PomodoroTypeOK ==
    /\ timerOn \in BOOLEAN /\ phase \in {"idle", "work", "shortBreak", "longBreak"}
    /\ cycle \in 0..CyclesBeforeLongBreak
    /\ phaseStartedAt \in (-Work)..MaxNow /\ now \in 0..MaxNow /\ worked \in 0..MaxNow
    /\ pausedRemaining \in {NotPaused} \cup 0..Total
    /\ ~timerOn => phase = "idle"

\* Whatever was paused, resumed and skipped and however late the interval is,
\* what the chip shows is what is left of the phase (usePomodoro.ts, 198-208
\* and 269-277).
RemainingIsTimeLeft == phase # "idle" => Remaining = Max({0, Total - worked})

\* A long break follows the last cycle of a set, a short one every other
\* (usePomodoro.ts, 100-124).
BreaksFollowTheSet ==
    /\ phase = "shortBreak" => cycle \in 1..(CyclesBeforeLongBreak - 1)
    /\ phase = "longBreak" => cycle = CyclesBeforeLongBreak
    /\ phase = "work" => cycle \in 1..CyclesBeforeLongBreak

\* The timer shows the time that is left, and breaks come when they are due.
PomodoroSound == RemainingIsTimeLeft /\ BreaksFollowTheSet
=============================================================================
