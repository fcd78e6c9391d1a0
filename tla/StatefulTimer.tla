---------------------------- MODULE StatefulTimer ----------------------------
(***************************************************************************)
(* StatefulTimer (src/util/StatefulTimer.cpp): timeCheck(state) charges    *)
(* the time since the last check to state, dump() prints and forgets what  *)
(* was charged.  There is one object, made by whichever call needs it      *)
(* first and never deleted.  The clock is gettimeofday's, which can be set *)
(* back.  How often a state was charged is only printed and left out.      *)
(***************************************************************************)
EXTENDS Integers, Sequences, FiniteSets, Functions

CONSTANTS States,     \* names given to timeCheck, sequences of letters
          PrefixNames,   \* names given to setPrefix
          Threshold,  \* the total below which dump(false) prints nothing: 800
          MaxNow,     \* bound: the latest time
          MaxBack     \* bound: the time the clock is set back, in all

ASSUME TimerAssumption == /\ {Threshold, MaxNow, MaxBack} \subseteq Nat
                          /\ IsFiniteSet(States) /\ IsFiniteSet(PrefixNames)

VARIABLES now,         \* the clock
          enabled, exists, prefix, last, timeByState,
          born,        \* auxiliary: when the object was made
          back,        \* auxiliary: how far the clock was set back, in all
          printed      \* auxiliary: total of the readings printed

timerVars == <<now, enabled, exists, prefix, last, timeByState, born, back, printed>>

(* The keys of timeByState; one that is not there reads as 0.              *)
Names == {p \o state : p \in PrefixNames \cup {<<>>}, state \in States}
NoTimes == [name \in Names |-> 0]

TimerInit == /\ now = 0 /\ back = 0
             /\ enabled = FALSE /\ exists = FALSE /\ prefix = <<>>
             /\ last = 0 /\ born = 0
             /\ timeByState = NoTimes /\ printed = 0

(* Time passes, or the clock is set back.                                  *)
Tick == /\ \/ now < MaxNow /\ now' = now + 1 /\ UNCHANGED back
           \/ back < MaxBack /\ now' = now - 1 /\ back' = back + 1
        /\ UNCHANGED <<enabled, exists, prefix, last, timeByState, born, printed>>

(* instance(), and `last' as the rest of the call finds it.                *)
Instance == /\ exists' = TRUE
            /\ born' = IF exists THEN born ELSE now
LastCheck == IF exists THEN last ELSE now

SetEnabled(on) == /\ enabled' = on
                  /\ UNCHANGED <<now, exists, prefix, last, timeByState, born, back, printed>>

(* Ignored while the timer is disabled, though it makes the object.        *)
SetPrefix(p) == /\ Instance
                /\ last' = LastCheck
                /\ prefix' = IF enabled THEN p ELSE prefix
                /\ UNCHANGED <<now, enabled, timeByState, back, printed>>

(* Slip: the next check starts from the same point.                        *)
ChargeAgain(name) == /\ timeByState' = [timeByState EXCEPT ![name] = @ + now - LastCheck]
                     /\ last' = LastCheck

Charge(name) == /\ timeByState' = [timeByState EXCEPT ![name] = @ + now - LastCheck]
                /\ last' = now

TimeCheck(state) == /\ enabled
                    /\ Instance
                    /\ Charge(prefix \o state)
                    /\ UNCHANGED <<now, enabled, prefix, back, printed>>

(* Only readings above zero are printed; all are forgotten.                *)
PrintTimes ==
  LET positive == {name \in Names : timeByState[name] > 0}
  IN  /\ printed' = printed + SumFunctionOnSet(timeByState, positive)
      /\ timeByState' = NoTimes

Dump(force) ==
  /\ Instance
  /\ last' = LastCheck
  /\ IF enabled /\ (force \/ SumFunction(timeByState) >= Threshold)
     THEN PrintTimes ELSE UNCHANGED <<printed, timeByState>>
  /\ UNCHANGED <<now, enabled, prefix, back>>

TimerNext == \/ Tick
             \/ \E on \in BOOLEAN : SetEnabled(on)
             \/ \E p \in PrefixNames : SetPrefix(p)
             \/ \E state \in States : TimeCheck(state)
             \/ \E force \in BOOLEAN : Dump(force)

TimerSpec == TimerInit /\ [][TimerNext]_timerVars
-----------------------------------------------------------------------------
(* All time from the moment the object was made to the last check is       *)
(* charged to some state once, also what passed while the timer was        *)
(* disabled and the object knew nothing of it: what was printed and what   *)
(* is to be printed add up to it, but for the time the clock was set back, *)
(* part of which may have been charged and never printed.                  *)
ReadingsAddUp ==
  LET surplus == printed + SumFunction(timeByState) - (last - born)
  IN  surplus \in 0 .. back
=============================================================================
