----------------------------- MODULE StickyKeys -----------------------------
(***************************************************************************)
(* What sticky modifier keys promise: one tap applies a modifier to the    *)
(* next key, a tap on a modifier that is down holds it or lets it go, and  *)
(* one that is held stays until it is tapped again or everything is let    *)
(* go.                                                                     *)
(***************************************************************************)
CONSTANTS
  Mods,  \* the modifiers
  Held   \* those that the next key does not release

VARIABLE mode  \* "off", "latched" or "locked", of each modifier

TypeOK == mode \in [Mods -> {"off", "latched", "locked"}]

Init == mode = [m \in Mods |-> "off"]

(* After a tap on m. *)
Tapped(m) ==
  CASE mode[m] = "off"     -> {"latched"}
    [] mode[m] = "latched" -> {"locked", "off"}
    [] mode[m] = "locked"  -> {"off"}

Tap(m) == \E new \in Tapped(m) : mode' = [mode EXCEPT ![m] = new]

(* A key was typed. *)
Type == mode' = [m \in Mods |-> IF mode[m] = "latched" /\ m \notin Held THEN "off" ELSE mode[m]]

LetGo == mode' = [m \in Mods |-> "off"]

Next == (\E m \in Mods : Tap(m)) \/ Type \/ LetGo

Spec == Init /\ [][Next]_mode
=============================================================================
