------------------------------- MODULE Wvkbd -------------------------------
(***************************************************************************)
(* The keys of the on-screen keyboard: wvkbd as osk/wvkbd patches it.  It  *)
(* shows one layer of keys at a time; a tap presses a key of that layer    *)
(* and the finger leaving the key releases it.  Modifiers stick: one tap   *)
(* latches a modifier for the next key, a second quick tap locks it, a     *)
(* later tap releases it.  Towards the compositor the keyboard holds a     *)
(* modifier down as a key event, and sends the mask that its keymap is     *)
(* read with.                                                              *)
(*                                                                         *)
(* The handlers are those of keyboard.c and main.c as wvkbd-surface.patch  *)
(* leaves them; what the patch does not touch is modelled from how it uses *)
(* it.  Every handler runs to its end: wvkbd has one thread.  Swipes,      *)
(* popups, drawing and the other options of the program are left out.      *)
(***************************************************************************)
EXTENDS WvkbdLayouts

CONSTANT
  Taps  \* the modifiers that the user taps, by the layers that it is started with

Mods == {"Shift", "CapsLock", "Ctrl", "Alt", "Super", "AltGr"}

ASSUME TapsAreMods ==
  \A choice \in DOMAIN Taps : /\ choice \in Seq(DOMAIN layouts) /\ choice # << >>
                             /\ Taps[choice] \subseteq Mods

VARIABLES
  layers,    \* the layers that the 123 key cycles through
  layout,    \* the layer shown, ...
  index,     \* ... its place in layers, ...
  abc,       \* ... and the layer of letters to go back to, with its place
  keymap,    \* the keymap uploaded last, ...
  chars,     \* ... and the characters of its <COMP> key
  mods,      \* kb->mods: the modifiers down
  locked,    \* kb->mods_locked: those that the next key does not release
  lastMod,   \* kb->last_mod with its layer, while within MOD_DOUBLE_TAP_MS
  pressed,   \* kb->last_press
  compose,   \* kb->compose
  view,      \* what the user sees of the keyboard
  mask,      \* the modifiers sent to the compositor last
  held       \* the modifier keys that the compositor was told are down

vars == << layers, layout, index, abc, keymap, chars, mods, locked, lastMod, pressed, compose, view,
           mask, held >>

layerVars == << layout, index, abc, keymap, chars >>
modVars   == << mods, locked, lastMod, mask, held >>

NoKey == Plain("None")
NoTap == << NoLayer, NoKey >>

Init ==
  /\ layers \in DOMAIN Taps
  /\ layout = layers[1] /\ index = 1 /\ abc = << layers[1], 1 >>
  /\ keymap = layouts[layout].keymap /\ chars = NoChars
  /\ mods = {} /\ locked = {} /\ lastMod = NoTap /\ mask = {} /\ held = {}
  /\ pressed = NoKey /\ compose = 0 /\ view = "hidden"

-----------------------------------------------------------------------------
(* Layers. *)

(* Show a layer, and upload its keymap unless the layer before used it. *)
SwitchTo(l, i) ==
  /\ layout' = l /\ index' = i
  /\ abc' = IF index # abc[2] /\ layouts[layout].abc THEN << layout, index >> ELSE abc
  /\ IF layouts[l].keymap # layouts[layout].keymap
     THEN keymap' = layouts[l].keymap /\ chars' = NoChars
     ELSE UNCHANGED << keymap, chars >>

(* The place that the 123 key leads to. *)
NextIndex ==
  IF mods \cap {"Ctrl", "Alt", "AltGr"} # {} \/ compose # 0 THEN 1
  ELSE IF mods \cap {"Shift", "CapsLock"} # {}
       THEN IF index > 1 THEN index - 1 ELSE Len(layers)
       ELSE IF index < Len(layers) THEN index + 1 ELSE 1

ForgetsMods == mods \cap {"Ctrl", "Alt", "AltGr"} # {} \/ compose # 0

(* The finger comes down on a key of the layer shown. *)
TouchDown(k) == view = "visible" /\ pressed = NoKey /\ k \in layouts[layout].keys

PressNextLayer ==
  /\ TouchDown(Plain("NextLayer")) /\ compose # 1
  /\ SwitchTo(layers[NextIndex], NextIndex)
  /\ IF ForgetsMods THEN mods' = {} /\ locked' = {} ELSE UNCHANGED << mods, locked >>
  /\ UNCHANGED << layers, lastMod, pressed, compose, view, mask, held >>

PressBackLayer ==
  /\ TouchDown(Plain("BackLayer")) /\ compose # 1
  /\ compose' = 0
  /\ SwitchTo(abc[1], abc[2])
  /\ UNCHANGED << layers, modVars, pressed, view >>

(* A key of the index: its layer takes the place of the letters shown last. *)
PressLayout(k) ==
  /\ TouchDown(k) /\ k.type = "Layout" /\ compose # 1
  /\ layout' = k.target /\ index' = abc[2] /\ abc' = << layers[1], 1 >>
  /\ IF layouts[k.target].keymap # layouts[layout].keymap
     THEN keymap' = layouts[k.target].keymap /\ chars' = NoChars
     ELSE UNCHANGED << keymap, chars >>
  /\ UNCHANGED << layers, modVars, pressed, compose, view >>

PressCompose ==
  /\ TouchDown(Plain("Compose"))
  /\ compose' = IF compose = 0 THEN 1 ELSE 0
  /\ UNCHANGED << layers, layerVars, modVars, pressed, view >>

(* The key after Compose: it shows the layer that it leads to, the index,  *)
(* or does nothing.                                                        *)
PressComposed(k) ==
  /\ TouchDown(k) /\ compose = 1 /\ k.type \notin {"Compose", "Mod"}
  /\ \/ /\ k.type \in {"NextLayer", "BackLayer"} \/ k.code = "KEY_SPACE"
        /\ compose' = 0
        /\ SwitchTo("Index", abc[2])
     \/ /\ k.target # NoLayer
        /\ compose' = 2
        /\ SwitchTo(k.target, abc[2])
  /\ UNCHANGED << layers, modVars, pressed, view >>

-----------------------------------------------------------------------------
(* Modifiers. *)

(* Mutant: any tap soon after one on the same key locks. *)
AnyTapAgain(k) == lastMod = << layout, k >>

(* A second tap on the same key within MOD_DOUBLE_TAP_MS, while its        *)
(* modifier is down and not locked, holds the modifier down.               *)
SecondTap(k) == k.code \in mods \ locked /\ lastMod = << layout, k >>

TapMod(k) ==
  /\ TouchDown(k) /\ k.type = "Mod" /\ k.code \in Taps[layers]
  /\ lastMod' = << layout, k >>
  /\ IF SecondTap(k)
     THEN locked' = locked \cup {k.code} /\ UNCHANGED << mods, mask, held >>
     ELSE /\ locked' = locked \ {k.code}
          /\ mods' = IF k.code \in mods THEN mods \ {k.code} ELSE mods \cup {k.code}
          /\ held' = IF k.code \in mods THEN held \ {k.code} ELSE held \cup {k.code}
          /\ mask' = mods'
  /\ UNCHANGED << layers, layerVars, pressed, compose, view >>

(* MOD_DOUBLE_TAP_MS pass. *)
Later ==
  /\ lastMod # NoTap
  /\ lastMod' = NoTap
  /\ UNCHANGED << layers, layerVars, mods, locked, pressed, compose, view, mask, held >>

(* Mutant: what was locked stays so. *)
ClearDown ==
  IF mods = {}
  THEN UNCHANGED << mods, locked, mask, held >>
  ELSE mods' = {} /\ mask' = {} /\ held' = held \ mods /\ UNCHANGED locked

(* kbd_clear_mods: the modifiers go when the keyboard does. *)
ClearMods ==
  IF mods = {}
  THEN UNCHANGED << mods, locked, mask, held >>
  ELSE mods' = {} /\ locked' = {} /\ mask' = {} /\ held' = held \ mods

-----------------------------------------------------------------------------
(* Keys that type. *)

(* Mutant: reset_mod is not looked at. *)
FlippedMask(k) == IF k.force = {} THEN mods ELSE (mods \ k.force) \cup (k.force \ mods)

(* The mask sent before a key: the modifiers it forces replace those down, *)
(* or are flipped in them.                                                 *)
MaskOf(k) ==
  IF k.force = {} THEN mods
  ELSE IF k.reset THEN k.force ELSE (mods \ k.force) \cup (k.force \ mods)

PressCode(k) ==
  /\ TouchDown(k) /\ k.type = "Code" /\ compose # 1
  /\ held' = held \cup (k.force \ mods)
  /\ mask' = MaskOf(k)
  /\ pressed' = k
  /\ compose' = IF compose > 0 THEN compose + 1 ELSE 0
  /\ UNCHANGED << layers, layerVars, mods, locked, lastMod, view >>

PressCopy(k) ==
  /\ TouchDown(k) /\ k.type = "Copy" /\ compose # 1
  /\ chars' = k.chars
  /\ mask' = mods
  /\ pressed' = k
  /\ compose' = IF compose > 0 THEN compose + 1 ELSE 0
  /\ UNCHANGED << layers, layout, index, abc, keymap, mods, locked, lastMod, view, held >>

(* Mutant: a key that forces modifiers leaves them down. *)
ForcedStays == {}

(* The modifier keys that went down with the key pressed. *)
ForcedUp == pressed.force \ mods

(* kbd_unpress_key: the finger leaves the key.  The modifiers it forced go *)
(* up, then every modifier that is latched, CapsLock apart.                *)
Release ==
  /\ pressed # NoKey /\ view # "gone"
  /\ LET latched == (mods \ locked) \ {"CapsLock"} IN
        /\ mods' = mods \ latched
        /\ held' = (held \ ForcedUp) \ latched
        /\ mask' = IF latched # {} THEN mods'
                   ELSE IF pressed.force # {} THEN mods ELSE mask
  /\ pressed' = NoKey
  /\ IF compose >= 2
     THEN compose' = 0 /\ SwitchTo(abc[1], abc[2])
     ELSE UNCHANGED << compose, layerVars >>
  /\ UNCHANGED << layers, locked, lastMod, view >>

-----------------------------------------------------------------------------
(* Signals from the daemon. *)

Show == /\ view = "hidden" /\ view' = "visible"
        /\ UNCHANGED << layers, layerVars, modVars, pressed, compose >>

Hide == /\ view = "visible" /\ view' = "hidden"
        /\ ClearMods
        /\ UNCHANGED << layers, layerVars, lastMod, pressed, compose >>

Terminate == /\ view # "gone" /\ view' = "gone"
             /\ ClearMods
             /\ UNCHANGED << layers, layerVars, lastMod, pressed, compose >>

Next ==
  \/ PressNextLayer \/ PressBackLayer \/ PressCompose
  \/ \E k \in layouts[layout].keys :
       \/ PressLayout(k) \/ PressComposed(k) \/ TapMod(k) \/ PressCode(k) \/ PressCopy(k)
  \/ Release \/ Later \/ Show \/ Hide \/ Terminate

Spec == Init /\ [][Next]_vars

-----------------------------------------------------------------------------
(* What the keyboard shows and what it types. *)

AsciiLetters == {"a", "b", "c", "d", "e", "f", "g", "h", "i", "j", "k", "l", "m", "n", "o", "p", "q",
                 "r", "s", "t", "u", "v", "w", "x", "y", "z"}

(* kbd_draw_key: CapsLock shifts a label of one ASCII letter only, and a   *)
(* label that is missing is replaced by the key's first.                   *)
Shown(k) ==
  LET shift == "Shift" \in mods \/ ("CapsLock" \in mods /\ k.labels[1] \in AsciiLetters)
      altgr == "AltGr" \in mods /\ Len(k.labels) >= 3
      n     == 1 + (IF shift THEN 1 ELSE 0) + (IF altgr THEN 2 ELSE 0)
  IN IF n <= Len(k.labels) THEN k.labels[n] ELSE k.labels[1]

(* The character that the key pressed types. *)
TypedNow ==
  IF pressed.type = "Copy" THEN TypedCopy(keymap, chars, mask)
  ELSE Glyph(Typed(keymap, Evdev[pressed.code], mask))

(* The keys whose label is not what they type, by layer and first label. *)
Misprints ==
  {<< "Cyrillic", "c" >>, << "Cyrillic", "Cyrillic_sha" >>, << "Cyrillic", "Cyrillic_shcha" >>,
   << "Cyrillic", "Cyrillic_ze" >>, << "ComposeCyrK", "U045C" >>,
   << "ComposePunctuation", "question" >>, << "ComposePunctuation", "U237D" >>,
   << "ComposePunctuation", "U00B7" >>, << "ComposeBracket", "less" >>,
   << "ComposeBracket", "greater" >>}

(* The labels cover the levels that the modifiers down choose: all when    *)
(* the key decides its level by itself or has four labels, those of Shift  *)
(* in the layers of letters and for Copy keys, those of CapsLock for ASCII *)
(* letters.                                                                *)
Labelled(k) ==
  LET chosen == mods \cap {"Shift", "CapsLock", "AltGr"}
  IN \/ k.reset \/ chosen = {}
     \/ chosen = {"Shift"} /\ (layouts[layout].abc \/ k.type = "Copy")
     \/ chosen = {"CapsLock"} /\ k.labels[1] \in AsciiLetters
     \/ "AltGr" \in chosen /\ "CapsLock" \notin chosen /\ Len(k.labels) = 4

(* A key goes down.  Control with Alt types no character. *)
TypesAKey == pressed' # pressed /\ pressed' # NoKey /\ ~({"Ctrl", "Alt"} \subseteq mods)

(* A key types the character that it shows under the modifiers that are    *)
(* down, wherever its labels cover them and apart from the misprints: the  *)
(* layer drawn, the keymap uploaded last, the characters filled in for a   *)
(* Copy key and the mask sent agree on the key, whatever was pressed       *)
(* before (kbd_press_key, kbd_draw_key, kbd_switch_layout and the tables   *)
(* of layout.surface.h and keymap.surface.h).                              *)
ShownIsTyped ==
  [][TypesAKey /\ Labelled(pressed') /\ << layout, pressed'.labels[1] >> \notin Misprints
       => Shown(pressed') = TypedNow']_vars

(* A modifier that the keyboard says is down was sent as a key that is     *)
(* down, and between two keys the mask says the same as the keyboard       *)
(* unless a modifier key was left down (mods, last_press, the calls to     *)
(* zwp_virtual_keyboard_v1_key_mods and _modifiers).                       *)
MaskFollows ==
  /\ locked \subseteq mods /\ mods \subseteq held
  /\ pressed = NoKey /\ held \subseteq mods => mask = mods

(* The modifier keys that are down although neither the keyboard nor the   *)
(* key pressed says so.                                                    *)
Leaked == held \ (mods \cup pressed.force)

(* Only the 123 key forgets modifier keys that are down, and only when it  *)
(* goes back to the first layer: no key that forces a modifier leaves it   *)
(* down, nor does hiding the keyboard under a finger (kbd_unpress_key and  *)
(* kbd_clear_mods release what kbd_press_key pressed).                     *)
OnlyNextLayerForgets == [][Leaked' \subseteq Leaked \/ (PressNextLayer /\ ForgetsMods)]_vars

(* No modifier stays down when the keyboard goes away (kbd_clear_mods).    *)
NoneStuckWhenAway == view # "visible" => held = {}

(* Towards the user the modifiers are sticky keys: StickyKeys.             *)
Mode == [m \in Mods |-> IF m \in locked THEN "locked" ELSE IF m \in mods THEN "latched" ELSE "off"]
Sticky == INSTANCE StickyKeys WITH mode <- Mode, Held <- {"CapsLock"}
ImplementsSticky == Sticky!Spec
=============================================================================
