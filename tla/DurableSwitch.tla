---------------------------- MODULE DurableSwitch ----------------------------
(***************************************************************************)
(* What the Wake-on-LAN switch promises, without lock and file: a register  *)
(* that is set by one client at a time, guards one effect, and survives     *)
(* restarts.  A setting takes force in one step, and not while a packet is  *)
(* sent; a packet is sent only while the switch is on and nobody sets it; a *)
(* restart finds the last setting in force, or one that somebody has tried  *)
(* to set since.                                                            *)
(***************************************************************************)
VARIABLES usable,    \* there is a MAC address to send to
          value,     \* the setting in force
          asked,     \* the setting somebody is about to set, or "none"
          possible,  \* the settings a restart may find
          sending    \* a packet is being sent

switchVars == <<usable, value, asked, possible, sending>>

SwitchInit == /\ usable \in BOOLEAN
              /\ value = IF usable THEN "on" ELSE "off"
              /\ asked = "none" /\ possible = {"on"} /\ sending = FALSE

Quiet == asked = "none" /\ ~sending

Ask(s) == /\ Quiet /\ (s = "on" => usable)
          /\ asked' = s /\ possible' = possible \cup {s}
          /\ UNCHANGED <<usable, value, sending>>

Set == /\ asked # "none"
       /\ value' = asked /\ possible' = {asked} /\ asked' = "none"
       /\ UNCHANGED <<usable, sending>>

(* The client is told so, and the setting may still be found by a restart. *)
Fail == /\ asked # "none" /\ asked' = "none"
        /\ UNCHANGED <<usable, value, possible, sending>>

Send == /\ Quiet /\ usable /\ value = "on"
        /\ sending' = TRUE
        /\ UNCHANGED <<usable, value, asked, possible>>

Sent == /\ sending /\ sending' = FALSE
        /\ UNCHANGED <<usable, value, asked, possible>>

(* The configuration may gain or lose the MAC address. *)
Restart == /\ usable' \in BOOLEAN
           /\ IF usable' THEN value' \in possible ELSE value' = "off"
           /\ asked' = "none" /\ sending' = FALSE
           /\ UNCHANGED possible

SwitchNext == (\E s \in {"on", "off"} : Ask(s)) \/ Set \/ Fail \/ Send \/ Sent \/ Restart

SwitchSpec == SwitchInit /\ [][SwitchNext]_switchVars
=============================================================================
