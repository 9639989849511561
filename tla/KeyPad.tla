------------------------------- MODULE KeyPad -------------------------------
(***************************************************************************)
(* The key scanner driven by its timer: Metro KeyMetro(10) in              *)
(* CoreKEY/CoreKEY.cpp.  The sketch's loop calls Kwhile() when it gets to  *)
(* it; a task that keeps the loop busy lets ticks pile up, and the next    *)
(* scans then follow each other without any time between them.             *)
(***************************************************************************)
EXTENDS CoreKEY, Metro

CONSTANT Interval   \* the scan interval (10 ms)

ASSUME KeyPadAssumption == Intervals = {Interval} /\ Interval > 0

VARIABLES
  age,      \* history: time since the first low sample counted in lows
  bunched   \* history: keys with a sample taken an interval late or more

padVars == <<vars, metroVars, age, bunched>>

(***************************************************************************)
(* Hold + 1 samples taken on time span more than this.                     *)
(***************************************************************************)
Settled == (Hold - 1) * Interval

PadInit ==
  /\ Init
  /\ MetroInit
  /\ age = [k \in Keys |-> 0]
  /\ bunched = {}

(***************************************************************************)
(* Kwhile() with the timer: it does nothing unless check() returns 1.  The *)
(* variant before it scans on every call.                                  *)
(***************************************************************************)
Samples ==
  /\ age' = [k \in Keys |-> IF lows[k] = 0 THEN 0 ELSE age[k]]
  /\ bunched' = {k \in Keys : /\ lows'[k] > 0
                              /\ k \in bunched \/ debt >= 2 * Interval}

PollEveryCall ==
  /\ Kwhile
  /\ Samples
  /\ TakeTick \/ NoTick

Poll ==
  \/ TakeTick /\ Kwhile /\ Samples
  \/ NoTick /\ UNCHANGED <<vars, age, bunched>>

Finger ==
  /\ PinChange
  /\ UNCHANGED <<metroVars, age, bunched>>

Millisecond ==
  /\ Elapse
  /\ age' = [k \in Keys |-> IF lows[k] = 0 THEN 0 ELSE Least(age[k] + 1, Settled + 1)]
  /\ UNCHANGED <<vars, bunched>>

PadNext == Poll \/ Finger \/ Millisecond

(***************************************************************************)
(* Time passes and loop() comes round to Kwhile() again and again.         *)
(***************************************************************************)
PadSpec ==
  PadInit /\ [][PadNext]_padVars /\ WF_padVars(Poll) /\ WF_padVars(Millisecond)

-----------------------------------------------------------------------------
(* Debounce in time: a key whose samples were taken on time is handed to   *)
(* the callback only when more than (Hold - 1) intervals have gone by      *)
(* since its first low sample.  Samples taken from a backlog of ticks give *)
(* no such guarantee, which is what "bunched" records.                     *)
DebounceTime ==
  called # NoKey /\ called \notin bunched => age[called] > Settled
=============================================================================
