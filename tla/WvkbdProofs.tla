----------------------------- MODULE WvkbdProofs -----------------------------
(***************************************************************************)
(* Theorems about Wvkbd, for any layers and any modifiers tapped on them.  *)
(***************************************************************************)
EXTENDS Wvkbd, TLAPS

(* The key that is no key forces no modifier. *)
LEMMA NoKeyForces == NoKey.force = {}
    BY DEF NoKey, Plain, Key

-----------------------------------------------------------------------------
(* The mask *)

(* While a key is pressed the mask is that of the key: it says something   *)
(* about the modifiers only if the key forces none, or is released.        *)
MaskInv ==
  /\ layers \in DOMAIN Taps
  /\ locked \subseteq mods /\ mods \subseteq held
  /\ pressed.force = {} /\ held \subseteq mods => mask = mods

LEMMA MaskInit == Init => MaskInv
    BY NoKeyForces DEF Init, MaskInv

LEMMA MaskStep == MaskInv /\ [Next]_vars => MaskInv'
    <1> SUFFICES ASSUME MaskInv, [Next]_vars PROVE MaskInv'
        OBVIOUS
    <1> USE NoKeyForces DEF MaskInv, TouchDown, modVars
    <1>1. CASE PressNextLayer
        BY <1>1 DEF PressNextLayer
    <1>2. CASE PressBackLayer \/ PressCompose
        BY <1>2 DEF PressBackLayer, PressCompose
    <1>3. ASSUME NEW k \in layouts[layout].keys, PressLayout(k) \/ PressComposed(k) PROVE MaskInv'
        BY <1>3 DEF PressLayout, PressComposed
    <1>4. ASSUME NEW k \in layouts[layout].keys, TapMod(k) PROVE MaskInv'
        BY <1>4 DEF TapMod, SecondTap
    <1>5. ASSUME NEW k \in layouts[layout].keys, PressCode(k) PROVE MaskInv'
        BY <1>5 DEF PressCode, MaskOf
    <1>6. ASSUME NEW k \in layouts[layout].keys, PressCopy(k) PROVE MaskInv'
        BY <1>6 DEF PressCopy
    <1>7. CASE Release
        BY <1>7 DEF Release, ForcedUp
    <1>8. CASE Later \/ Show
        BY <1>8 DEF Later, Show
    <1>9. CASE Hide \/ Terminate
        BY <1>9 DEF Hide, Terminate, ClearMods
    <1>10. CASE UNCHANGED vars
        BY <1>10 DEF vars
    <1> QED BY <1>1, <1>2, <1>3, <1>4, <1>5, <1>6, <1>7, <1>8, <1>9, <1>10 DEF Next

(* The keyboard, the modifier keys it sent and the mask agree between two  *)
(* keys, whatever keys there are and whatever they force.                  *)
THEOREM MaskCorrect == Spec => []MaskFollows
    <1>1. MaskInv => MaskFollows
        BY NoKeyForces DEF MaskInv, MaskFollows
    <1> QED BY MaskInit, MaskStep, <1>1, PTL DEF Spec

-----------------------------------------------------------------------------
(* Modifiers left behind *)

(* Only the 123 key forgets modifier keys that it leaves down, on any      *)
(* layers and with any forced modifiers.                                   *)
THEOREM ForgottenOnlyByNextLayer == Spec => OnlyNextLayerForgets
    <1>1. MaskInv /\ [Next]_vars
            => [Leaked' \subseteq Leaked \/ (PressNextLayer /\ ForgetsMods)]_vars
        <2> SUFFICES ASSUME MaskInv, [Next]_vars, ~(PressNextLayer /\ ForgetsMods),
                            vars' # vars
                     PROVE Leaked' \subseteq Leaked
            OBVIOUS
        <2> USE NoKeyForces DEF MaskInv, TouchDown, modVars, Leaked
        <2>1. CASE PressNextLayer
            BY <2>1 DEF PressNextLayer
        <2>2. CASE PressBackLayer \/ PressCompose
            BY <2>2 DEF PressBackLayer, PressCompose
        <2>3. ASSUME NEW k \in layouts[layout].keys, PressLayout(k) \/ PressComposed(k)
              PROVE Leaked' \subseteq Leaked
            BY <2>3 DEF PressLayout, PressComposed
        <2>4. ASSUME NEW k \in layouts[layout].keys, TapMod(k) PROVE Leaked' \subseteq Leaked
            BY <2>4 DEF TapMod
        <2>5. ASSUME NEW k \in layouts[layout].keys, PressCode(k) PROVE Leaked' \subseteq Leaked
            BY <2>5 DEF PressCode
        <2>6. ASSUME NEW k \in layouts[layout].keys, PressCopy(k) PROVE Leaked' \subseteq Leaked
            BY <2>6 DEF PressCopy
        <2>7. CASE Release
            BY <2>7 DEF Release, ForcedUp
        <2>8. CASE Later \/ Show
            BY <2>8 DEF Later, Show
        <2>9. CASE Hide \/ Terminate
            BY <2>9 DEF Hide, Terminate, ClearMods
        <2> QED BY <2>1, <2>2, <2>3, <2>4, <2>5, <2>6, <2>7, <2>8, <2>9 DEF Next, vars
    <1> QED BY MaskInit, MaskStep, <1>1, PTL DEF Spec, OnlyNextLayerForgets

-----------------------------------------------------------------------------
(* Sticky keys *)

LEMMA StickyStep == MaskInv /\ [Next]_vars => [Sticky!Next]_Mode
    <1> SUFFICES ASSUME MaskInv, [Next]_vars, Mode' # Mode PROVE Sticky!Next
        OBVIOUS
    <1> USE DEF MaskInv, Mode, modVars, Sticky!Next
    <1>1. CASE PressNextLayer
        <2>1. mods' = {} /\ locked' = {}
            BY <1>1 DEF PressNextLayer
        <2> QED BY <2>1 DEF Sticky!LetGo
    <1>2. CASE PressBackLayer \/ PressCompose
        BY <1>2 DEF PressBackLayer, PressCompose
    <1>3. ASSUME NEW k \in layouts[layout].keys, PressLayout(k) \/ PressComposed(k)
          PROVE FALSE
        BY <1>3 DEF PressLayout, PressComposed
    <1>4. ASSUME NEW k \in layouts[layout].keys, TapMod(k) PROVE Sticky!Next
        <2> DEFINE m == k.code
        <2>1. m \in Mods
            BY <1>4, TapsAreMods DEF TapMod
        <2>2. CASE SecondTap(k)
            <3>1. Mode[m] = "latched" /\ Mode' = [Mode EXCEPT ![m] = "locked"]
                BY <1>4, <2>1, <2>2 DEF TapMod, SecondTap
            <3> QED BY <2>1, <3>1 DEF Sticky!Tap, Sticky!Tapped
        <2>3. CASE ~SecondTap(k) /\ m \in mods
            <3>1. Mode[m] \in {"latched", "locked"} /\ Mode' = [Mode EXCEPT ![m] = "off"]
                BY <1>4, <2>1, <2>3 DEF TapMod
            <3> QED BY <2>1, <3>1 DEF Sticky!Tap, Sticky!Tapped
        <2>4. CASE ~SecondTap(k) /\ m \notin mods
            <3>1. Mode[m] = "off" /\ Mode' = [Mode EXCEPT ![m] = "latched"]
                BY <1>4, <2>1, <2>4 DEF TapMod
            <3> QED BY <2>1, <3>1 DEF Sticky!Tap, Sticky!Tapped
        <2> QED BY <2>2, <2>3, <2>4
    <1>5. ASSUME NEW k \in layouts[layout].keys, PressCode(k) \/ PressCopy(k) PROVE FALSE
        BY <1>5 DEF PressCode, PressCopy
    <1>6. CASE Release
        BY <1>6 DEF Release, Sticky!Type
    <1>7. CASE Later \/ Show
        BY <1>7 DEF Later, Show
    <1>8. CASE Hide \/ Terminate
        BY <1>8 DEF Hide, Terminate, ClearMods, Sticky!LetGo
    <1> QED BY <1>1, <1>2, <1>3, <1>4, <1>5, <1>6, <1>7, <1>8 DEF Next, vars

(* The keyboard implements sticky keys.                                    *)
THEOREM StickyCorrect == Spec => ImplementsSticky
    <1>1. Init => Sticky!Init
        BY DEF Init, Sticky!Init, Mode
    <1> QED BY <1>1, MaskInit, MaskStep, StickyStep, PTL DEF Spec, ImplementsSticky, Sticky!Spec
=============================================================================
