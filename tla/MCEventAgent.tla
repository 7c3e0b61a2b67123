---------------------------- MODULE MCEventAgent ----------------------------
(* An instance of EventAgent for TLC: the shipped menu skill and one taught   *)
(* by the operator; the kiosk's menu change, which its owner validates, and   *)
(* an action of a discovered service, whose validator accepts everything.     *)
EXTENDS EventAgent, TLC

CONSTANTS menu, taught, kiosk, weather, change, dim

Tools    == menu :> {kiosk, change} @@ taught :> {kiosk, weather, change, dim}
Required == change :> {kiosk} @@ dim :> {weather}
Checked  == change :> {kiosk} @@ dim :> {}
Rule     == taught :> change
RuleFrom == taught :> {weather}
=============================================================================
