---------------------------- MODULE MCUtilities -----------------------------
(* Instances of DeviceIndex, StatefulTimer, NumericHelpers and             *)
(* StringHelpers for TLC.  They share nothing: a behaviour is one of one   *)
(* of them, the others stay in a state they can start in.                  *)
EXTENDS DeviceIndex, StatefulTimer, NumericHelpers, StringHelpers

VARIABLES part \* the module whose steps the behaviour takes

TimerStates == {<<"x">>, <<"a", "x">>}
TimerPrefixes == {<<>>, <<"a">>}

Init == /\ part \in {"devices", "timer", "numbers", "strings"}
        /\ DeviceInit /\ TimerInit /\ NumericInit /\ StringInit
        /\ part # "devices" => platforms = <<>> /\ gpuOffset = 0

Part(p, others) == part = p /\ UNCHANGED <<part, others>>

(* No answer depends on an earlier call, so one call is enough.            *)
Answered == chosen.call # "none"
DeviceStep == /\ Part("devices", <<timerVars, call, helper>>)
              /\ IF Answered THEN UNCHANGED indexVars ELSE DeviceNext

TimerStep == Part("timer", <<indexVars, call, helper>>) /\ TimerNext
NumericStep == Part("numbers", <<indexVars, timerVars, helper>>) /\ NumericNext
StringStep == Part("strings", <<indexVars, timerVars, call>>) /\ StringNext

NumericLoop == /\ Part("numbers", <<indexVars, timerVars, helper>>)
               /\ Power2Step \/ Power2Returns
Loops == \/ NumericLoop
         \/ Part("strings", <<indexVars, timerVars, call>>) /\ StringLoop

vars == <<part, indexVars, timerVars, call, helper>>
Spec == /\ Init /\ [][DeviceStep \/ TimerStep \/ NumericStep \/ StringStep]_vars
        /\ WF_vars(Loops)
=============================================================================
