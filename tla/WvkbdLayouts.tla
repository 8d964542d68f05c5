---------------------------- MODULE WvkbdLayouts ----------------------------
(***************************************************************************)
(* The layers of the on-screen keyboard (osk/wvkbd/layout.surface.h): the  *)
(* keys of each, the keymap it types on and its name.                      *)
(*                                                                         *)
(* A label is named by the keysym that draws it, a character of a compose  *)
(* layer by its code point.  Widths, rows and colours are left out.        *)
(***************************************************************************)
EXTENDS WvkbdKeymaps

(* linux/input-event-codes.h *)
Evdev ==
  [KEY_ESC |-> 1, KEY_1 |-> 2, KEY_2 |-> 3, KEY_3 |-> 4, KEY_4 |-> 5, KEY_5 |-> 6, KEY_6 |-> 7,
   KEY_7 |-> 8, KEY_8 |-> 9, KEY_9 |-> 10, KEY_0 |-> 11, KEY_MINUS |-> 12, KEY_EQUAL |-> 13,
   KEY_BACKSPACE |-> 14, KEY_TAB |-> 15, KEY_Q |-> 16, KEY_W |-> 17, KEY_E |-> 18, KEY_R |-> 19,
   KEY_T |-> 20, KEY_Y |-> 21, KEY_U |-> 22, KEY_I |-> 23, KEY_O |-> 24, KEY_P |-> 25,
   KEY_LEFTBRACE |-> 26, KEY_RIGHTBRACE |-> 27, KEY_ENTER |-> 28, KEY_A |-> 30, KEY_S |-> 31,
   KEY_D |-> 32, KEY_F |-> 33, KEY_G |-> 34, KEY_H |-> 35, KEY_J |-> 36, KEY_K |-> 37, KEY_L |-> 38,
   KEY_SEMICOLON |-> 39, KEY_APOSTROPHE |-> 40, KEY_GRAVE |-> 41, KEY_BACKSLASH |-> 43,
   KEY_Z |-> 44, KEY_X |-> 45, KEY_C |-> 46, KEY_V |-> 47, KEY_B |-> 48, KEY_N |-> 49, KEY_M |-> 50,
   KEY_COMMA |-> 51, KEY_DOT |-> 52, KEY_SLASH |-> 53, KEY_SPACE |-> 57, KEY_F1 |-> 59,
   KEY_F2 |-> 60, KEY_F3 |-> 61, KEY_F4 |-> 62, KEY_F5 |-> 63, KEY_F6 |-> 64, KEY_F7 |-> 65,
   KEY_F8 |-> 66, KEY_F9 |-> 67, KEY_F10 |-> 68, KEY_102ND |-> 86, KEY_F11 |-> 87, KEY_F12 |-> 88,
   KEY_HOME |-> 102, KEY_UP |-> 103, KEY_PAGEUP |-> 104, KEY_LEFT |-> 105, KEY_RIGHT |-> 106,
   KEY_END |-> 107, KEY_DOWN |-> 108, KEY_PAGEDOWN |-> 109, KEY_INSERT |-> 110, KEY_DELETE |-> 111]

(* A key: its type, the evdev code or the modifier it sends, its labels by *)
(* level, the modifiers it forces and whether only these count, the layer  *)
(* it leads to, the characters of a Copy key, and a number that tells two  *)
(* keys of a layer apart.                                                  *)
Key(type, code, labels, force, reset, target, pair, nr) ==
  [type |-> type, code |-> code, labels |-> labels, force |-> force, reset |-> reset,
   target |-> target, chars |-> pair, nr |-> nr]

NoLayer == "none"
NoChars == << "none", "none" >>

Plain(type) == Key(type, "none", << >>, {}, FALSE, NoLayer, NoChars, 1)
CodeKey(code, labels, force, reset) ==
  Key("Code", code, labels, force, reset, NoLayer, NoChars, 1)
ModKey(mod, nr) == Key("Mod", mod, << mod, mod >>, {}, FALSE, NoLayer, NoChars, nr)
LayoutKey(layer) == Key("Layout", "none", << layer, layer >>, {}, FALSE, layer, NoChars, 1)

(* The keys of a table that gives each code its labels, ... *)
Printed(table) == {CodeKey(code, table[code], {}, FALSE) : code \in DOMAIN table}

(* ... of one that lists <<label, code, forced modifiers>>, ... *)
Forced(table, reset) ==
  {CodeKey(t[2], << t[1], t[1] >>, t[3], reset /\ t[3] # {}) : t \in table}

(* ... and of one that lists the two characters of each Copy key, followed *)
(* by its two labels where they show other characters.                     *)
Copies(table) ==
  {Key("Copy", "none", IF Len(t) = 2 THEN t ELSE << t[3], t[4] >>, {}, FALSE, NoLayer,
       << t[1], t[2] >>, 1) : t \in table}

(* A key that shows the same at every level. *)
Same(code, label) == CodeKey(code, << label, label >>, {}, FALSE)

-----------------------------------------------------------------------------
(* Keys that several layers have. *)

FunctionRow ==
  {Same("KEY_F1", "F1"), Same("KEY_F2", "F2"), Same("KEY_F3", "F3"), Same("KEY_F4", "F4"),
   Same("KEY_F5", "F5"), Same("KEY_F6", "F6"), Same("KEY_F7", "F7"), Same("KEY_F8", "F8"),
   Same("KEY_F9", "F9"), Same("KEY_F10", "F10"), Same("KEY_F11", "F11"), Same("KEY_F12", "F12")}

Editing ==
  {Same("KEY_ESC", "Escape"), Same("KEY_DELETE", "Delete"), Same("KEY_BACKSPACE", "BackSpace"),
   Same("KEY_TAB", "Tab"), Same("KEY_ENTER", "Return"), Same("KEY_UP", "Up")}

BottomRow ==
  {ModKey("Ctrl", 1), ModKey("Ctrl", 2), ModKey("Super", 1), ModKey("Alt", 1), ModKey("AltGr", 1),
   Same("KEY_SPACE", "space"), Same("KEY_LEFT", "Left"), Same("KEY_DOWN", "Down"),
   Same("KEY_RIGHT", "Right")}

Alphabet == FunctionRow \cup Editing \cup BottomRow
              \cup {ModKey("Shift", 1), ModKey("Shift", 2), ModKey("CapsLock", 1), Plain("NextLayer")}

Navigation == {Same("KEY_HOME", "Home"), Same("KEY_END", "End"), Same("KEY_PAGEUP", "Prior"),
               Same("KEY_PAGEDOWN", "Next"), Same("KEY_INSERT", "Insert")}

SymbolLayer == Editing \cup BottomRow \cup Navigation \cup {Plain("BackLayer")}

Aside == {ModKey("Shift", 1), Plain("BackLayer")}

-----------------------------------------------------------------------------
(* The layers of letters. *)

keys_full == Alphabet \cup Printed(
  [KEY_GRAVE |-> <<"grave", "asciitilde", "grave", "asciitilde">>,
   KEY_1 |-> <<"1", "exclam", "onesuperior", "exclamdown">>,
   KEY_2 |-> <<"2", "at", "twosuperior", "doubleacute">>,
   KEY_3 |-> <<"3", "numbersign", "threesuperior", "macron">>,
   KEY_4 |-> <<"4", "dollar", "currency", "sterling">>, KEY_5 |-> <<"5", "percent", "EuroSign", "cedilla">>,
   KEY_6 |-> <<"6", "asciicircum", "asciicircum", "onequarter">>,
   KEY_7 |-> <<"7", "ampersand", "horn", "onehalf">>,
   KEY_8 |-> <<"8", "asterisk", "ogonek", "threequarters">>,
   KEY_9 |-> <<"9", "parenleft", "leftsinglequotemark", "breve">>,
   KEY_0 |-> <<"0", "parenright", "rightsinglequotemark", "abovering">>,
   KEY_MINUS |-> <<"minus", "underscore", "yen", "belowdot">>,
   KEY_EQUAL |-> <<"equal", "plus", "multiply", "division">>,
   KEY_Q |-> <<"q", "Q", "adiaeresis", "Adiaeresis">>, KEY_W |-> <<"w", "W", "aring", "Aring">>,
   KEY_E |-> <<"e", "E", "eacute", "Eacute">>, KEY_R |-> <<"r", "R", "ediaeresis", "Ediaeresis">>,
   KEY_T |-> <<"t", "T", "thorn", "THORN">>, KEY_Y |-> <<"y", "Y", "udiaeresis", "Udiaeresis">>,
   KEY_U |-> <<"u", "U", "uacute", "Uacute">>, KEY_I |-> <<"i", "I", "iacute", "Iacute">>,
   KEY_O |-> <<"o", "O", "oacute", "Oacute">>, KEY_P |-> <<"p", "P", "odiaeresis", "Odiaeresis">>,
   KEY_LEFTBRACE |-> <<"bracketleft", "braceleft", "guillemotleft", "leftdoublequotemark">>,
   KEY_RIGHTBRACE |-> <<"bracketright", "braceright", "guillemotright", "rightdoublequotemark">>,
   KEY_BACKSLASH |-> <<"backslash", "bar", "notsign", "brokenbar">>,
   KEY_A |-> <<"a", "A", "aacute", "Aacute">>, KEY_S |-> <<"s", "S", "ssharp", "section">>,
   KEY_D |-> <<"d", "D", "eth", "ETH">>, KEY_F |-> <<"f", "F", "f", "F">>, KEY_G |-> <<"g", "G", "g", "G">>,
   KEY_H |-> <<"h", "H", "h", "H">>, KEY_J |-> <<"j", "J", "idiaeresis", "Idiaeresis">>,
   KEY_K |-> <<"k", "K", "oe", "OE">>, KEY_L |-> <<"l", "L", "oslash", "Oslash">>,
   KEY_SEMICOLON |-> <<"semicolon", "colon", "paragraph", "degree">>,
   KEY_APOSTROPHE |-> <<"apostrophe", "quotedbl", "acute", "diaeresis">>,
   KEY_Z |-> <<"z", "Z", "ae", "AE">>, KEY_X |-> <<"x", "X", "oe", "OE">>,
   KEY_C |-> <<"c", "C", "copyright", "cent">>, KEY_V |-> <<"v", "V", "registered", "trademark">>,
   KEY_B |-> <<"b", "B", "periodcentered">>, KEY_N |-> <<"n", "N", "ntilde", "Ntilde">>,
   KEY_M |-> <<"m", "M", "mu", "plusminus">>, KEY_COMMA |-> <<"comma", "less", "ccedilla", "Ccedilla">>,
   KEY_DOT |-> <<"period", "greater", "abovedot", "caron">>,
   KEY_SLASH |-> <<"slash", "question", "questiondown", "hook">>])

keys_azerty == Alphabet \cup Printed(
  [KEY_GRAVE |-> <<"twosuperior", "asciitilde", "notsign", "notsign">>,
   KEY_1 |-> <<"ampersand", "1", "onesuperior", "exclamdown">>,
   KEY_2 |-> <<"eacute", "2", "asciitilde", "oneeighth">>,
   KEY_3 |-> <<"quotedbl", "3", "numbersign", "sterling">>,
   KEY_4 |-> <<"apostrophe", "4", "braceleft", "dollar">>,
   KEY_5 |-> <<"parenleft", "5", "bracketleft", "threeeighths">>,
   KEY_6 |-> <<"minus", "6", "bar", "fiveeighths">>, KEY_7 |-> <<"egrave", "7", "grave", "seveneighths">>,
   KEY_8 |-> <<"underscore", "8", "backslash", "trademark">>,
   KEY_9 |-> <<"ccedilla", "9", "asciicircum", "plusminus">>, KEY_0 |-> <<"agrave", "0", "at", "degree">>,
   KEY_MINUS |-> <<"parenright", "degree", "bracketright", "questiondown">>,
   KEY_EQUAL |-> <<"equal", "plus", "braceright", "ogonek">>, KEY_Q |-> <<"a", "A", "ae", "AE">>,
   KEY_W |-> <<"z", "Z", "guillemotleft", "less">>, KEY_E |-> <<"e", "E", "EuroSign", "cent">>,
   KEY_R |-> <<"r", "R", "paragraph", "registered">>, KEY_T |-> <<"t", "T", "tslash", "Tslash">>,
   KEY_Y |-> <<"y", "Y", "leftarrow", "yen">>, KEY_U |-> <<"u", "U", "downarrow", "uparrow">>,
   KEY_I |-> <<"i", "I", "rightarrow", "idotless">>, KEY_O |-> <<"o", "O", "oslash", "Oslash">>,
   KEY_P |-> <<"p", "P", "thorn", "THORN">>,
   KEY_LEFTBRACE |-> <<"asciicircum", "diaeresis", "diaeresis", "abovering">>,
   KEY_RIGHTBRACE |-> <<"dollar", "sterling", "currency", "macron">>,
   KEY_A |-> <<"q", "Q", "at", "Greek_OMEGA">>, KEY_S |-> <<"s", "S", "ssharp", "SSHARP">>,
   KEY_D |-> <<"d", "D", "eth", "ETH">>, KEY_F |-> <<"f", "F", "dstroke", "ordfeminine">>,
   KEY_G |-> <<"g", "G", "eng", "ENG">>, KEY_H |-> <<"h", "H", "hstroke", "Hstroke">>,
   KEY_J |-> <<"j", "J", "hook", "horn">>, KEY_K |-> <<"k", "K", "kra", "ampersand">>,
   KEY_L |-> <<"l", "L", "lstroke", "Lstroke">>, KEY_SEMICOLON |-> <<"m", "M", "mu", "masculine">>,
   KEY_APOSTROPHE |-> <<"ugrave", "percent", "asciicircum", "caron">>,
   KEY_BACKSLASH |-> <<"asterisk", "mu", "grave", "breve">>,
   KEY_102ND |-> <<"less", "greater", "bar", "brokenbar">>, KEY_Z |-> <<"w", "W", "lstroke", "Lstroke">>,
   KEY_X |-> <<"x", "X", "guillemotright", "greater">>, KEY_C |-> <<"c", "C", "cent", "copyright">>,
   KEY_V |-> <<"v", "V", "doublelowquotemark", "singlelowquotemark">>,
   KEY_B |-> <<"b", "B", "leftdoublequotemark", "leftsinglequotemark">>,
   KEY_N |-> <<"n", "N", "rightdoublequotemark", "rightsinglequotemark">>,
   KEY_M |-> <<"comma", "question", "acute", "doubleacute">>,
   KEY_COMMA |-> <<"semicolon", "period", "U2022", "multiply">>,
   KEY_DOT |-> <<"colon", "slash", "periodcentered", "division">>,
   KEY_SLASH |-> <<"exclam", "section", "belowdot", "abovedot">>])

CyrillicTable ==
  [KEY_GRAVE |-> <<"Cyrillic_io", "Cyrillic_IO">>, KEY_1 |-> <<"1", "exclam">>,
   KEY_2 |-> <<"2", "quotedbl">>, KEY_3 |-> <<"3", "numbersign">>, KEY_4 |-> <<"4", "asterisk">>,
   KEY_5 |-> <<"5", "colon">>, KEY_6 |-> <<"6", "comma">>, KEY_7 |-> <<"7", "period">>,
   KEY_8 |-> <<"8", "semicolon">>, KEY_9 |-> <<"9", "parenleft">>, KEY_0 |-> <<"0", "parenright">>,
   KEY_MINUS |-> <<"minus", "underscore">>, KEY_EQUAL |-> <<"equal", "plus">>,
   KEY_Q |-> <<"Cyrillic_shorti", "Cyrillic_SHORTI">>, KEY_W |-> <<"Cyrillic_tse", "Cyrillic_TSE">>,
   KEY_E |-> <<"Cyrillic_u", "Cyrillic_U">>, KEY_R |-> <<"Cyrillic_ka", "Cyrillic_KA">>,
   KEY_T |-> <<"Cyrillic_ie", "Cyrillic_IE">>, KEY_Y |-> <<"Cyrillic_en", "Cyrillic_EN">>,
   KEY_U |-> <<"Cyrillic_ghe", "Cyrillic_GHE">>, KEY_I |-> <<"Cyrillic_sha", "Cyrillic_sha">>,
   KEY_O |-> <<"Cyrillic_shcha", "Cyrillic_shcha">>, KEY_P |-> <<"Cyrillic_ze", "Cyrillic_ze">>,
   KEY_LEFTBRACE |-> <<"Cyrillic_ha", "Cyrillic_HA">>,
   KEY_RIGHTBRACE |-> <<"Cyrillic_hardsign", "Cyrillic_HARDSIGN">>,
   KEY_BACKSLASH |-> <<"backslash", "bar">>, KEY_A |-> <<"Cyrillic_ef", "Cyrillic_EF">>,
   KEY_S |-> <<"Cyrillic_yeru", "Cyrillic_YERU">>, KEY_D |-> <<"Cyrillic_ve", "Cyrillic_VE">>,
   KEY_F |-> <<"Cyrillic_a", "Cyrillic_A">>, KEY_G |-> <<"Cyrillic_pe", "Cyrillic_PE">>,
   KEY_H |-> <<"Cyrillic_er", "Cyrillic_ER">>, KEY_J |-> <<"Cyrillic_o", "Cyrillic_O">>,
   KEY_K |-> <<"Cyrillic_el", "Cyrillic_EL">>, KEY_L |-> <<"Cyrillic_de", "Cyrillic_DE">>,
   KEY_SEMICOLON |-> <<"Cyrillic_zhe", "Cyrillic_ZHE">>, KEY_APOSTROPHE |-> <<"Cyrillic_e", "Cyrillic_E">>,
   KEY_Z |-> <<"Cyrillic_ya", "Cyrillic_YA">>, KEY_X |-> <<"Cyrillic_che", "Cyrillic_CHE">>,
   KEY_C |-> <<"c", "Cyrillic_ES">>, KEY_V |-> <<"Cyrillic_em", "Cyrillic_EM">>,
   KEY_B |-> <<"Cyrillic_i", "Cyrillic_I">>, KEY_N |-> <<"Cyrillic_te", "Cyrillic_TE">>,
   KEY_M |-> <<"Cyrillic_softsign", "Cyrillic_SOFTSIGN">>, KEY_COMMA |-> <<"Cyrillic_be", "Cyrillic_BE">>,
   KEY_DOT |-> <<"Cyrillic_yu", "Cyrillic_YU">>, KEY_SLASH |-> <<"slash", "question">>]

(* The layer that a key of this one leads to after the Compose key. *)
CyrillicTargets ==
  [KEY_9 |-> "ComposeBracket", KEY_0 |-> "ComposeBracket", KEY_MINUS |-> "ComposeBracket",
   KEY_EQUAL |-> "ComposeBracket", KEY_Q |-> "ComposeCyrJ", KEY_W |-> "ComposeCyrTse",
   KEY_R |-> "ComposeCyrK", KEY_T |-> "ComposeCyrE", KEY_U |-> "ComposeCyrG",
   KEY_S |-> "ComposeCyrI", KEY_K |-> "ComposeCyrL", KEY_APOSTROPHE |-> "ComposeCyrE",
   KEY_X |-> "ComposeCyrChe", KEY_B |-> "ComposeCyrI", KEY_SLASH |-> "ComposePunctuation"]

keys_cyrillic ==
  Alphabet \cup {Plain("Compose")}
    \cup {[k EXCEPT !.target = IF k.code \in DOMAIN CyrillicTargets
                               THEN CyrillicTargets[k.code] ELSE NoLayer] :
            k \in Printed(CyrillicTable)}

(* The layers of symbols. *)

keys_symbols_fr == SymbolLayer \cup Forced(
  {<<"1", "KEY_1", {"Shift"}>>, <<"2", "KEY_2", {"Shift"}>>, <<"3", "KEY_3", {"Shift"}>>,
   <<"4", "KEY_4", {"Shift"}>>, <<"5", "KEY_5", {"Shift"}>>, <<"6", "KEY_6", {"Shift"}>>,
   <<"7", "KEY_7", {"Shift"}>>, <<"8", "KEY_8", {"Shift"}>>, <<"9", "KEY_9", {"Shift"}>>,
   <<"0", "KEY_0", {"Shift"}>>, <<"at", "KEY_0", {"AltGr"}>>, <<"numbersign", "KEY_3", {"AltGr"}>>,
   <<"EuroSign", "KEY_E", {"AltGr"}>>, <<"dollar", "KEY_RIGHTBRACE", {}>>,
   <<"sterling", "KEY_RIGHTBRACE", {"Shift"}>>, <<"percent", "KEY_APOSTROPHE", {"Shift"}>>,
   <<"ampersand", "KEY_1", {}>>, <<"asterisk", "KEY_BACKSLASH", {}>>, <<"parenleft", "KEY_5", {}>>,
   <<"parenright", "KEY_MINUS", {}>>, <<"plus", "KEY_EQUAL", {"Shift"}>>, <<"minus", "KEY_6", {}>>,
   <<"equal", "KEY_EQUAL", {}>>, <<"slash", "KEY_DOT", {"Shift"}>>, <<"backslash", "KEY_8", {"AltGr"}>>,
   <<"bar", "KEY_102ND", {"AltGr"}>>, <<"asciitilde", "KEY_GRAVE", {"Shift"}>>,
   <<"asciicircum", "KEY_9", {"AltGr"}>>, <<"grave", "KEY_7", {"AltGr"}>>, <<"underscore", "KEY_8", {}>>,
   <<"less", "KEY_102ND", {}>>, <<"greater", "KEY_102ND", {"Shift"}>>,
   <<"bracketleft", "KEY_5", {"AltGr"}>>, <<"bracketright", "KEY_MINUS", {"AltGr"}>>,
   <<"braceleft", "KEY_4", {"AltGr"}>>, <<"braceright", "KEY_EQUAL", {"AltGr"}>>,
   <<"quotedbl", "KEY_3", {}>>, <<"apostrophe", "KEY_4", {}>>, <<"degree", "KEY_MINUS", {"Shift"}>>,
   <<"section", "KEY_SLASH", {"Shift"}>>, <<"exclam", "KEY_SLASH", {}>>, <<"question", "KEY_M", {"Shift"}>>,
   <<"colon", "KEY_DOT", {}>>, <<"semicolon", "KEY_COMMA", {}>>, <<"comma", "KEY_M", {}>>,
   <<"period", "KEY_COMMA", {"Shift"}>>, <<"twosuperior", "KEY_GRAVE", {}>>,
   <<"mu", "KEY_BACKSLASH", {"Shift"}>>, <<"guillemotleft", "KEY_W", {"AltGr"}>>,
   <<"guillemotright", "KEY_X", {"AltGr"}>>}, TRUE)

keys_symbols_us == SymbolLayer \cup Forced(
  {<<"1", "KEY_1", {}>>, <<"2", "KEY_2", {}>>, <<"3", "KEY_3", {}>>, <<"4", "KEY_4", {}>>,
   <<"5", "KEY_5", {}>>, <<"6", "KEY_6", {}>>, <<"7", "KEY_7", {}>>, <<"8", "KEY_8", {}>>,
   <<"9", "KEY_9", {}>>, <<"0", "KEY_0", {}>>, <<"at", "KEY_2", {"Shift"}>>,
   <<"numbersign", "KEY_3", {"Shift"}>>, <<"EuroSign", "KEY_5", {"AltGr"}>>,
   <<"dollar", "KEY_4", {"Shift"}>>, <<"sterling", "KEY_4", {"Shift", "AltGr"}>>,
   <<"percent", "KEY_5", {"Shift"}>>, <<"ampersand", "KEY_7", {"Shift"}>>,
   <<"asterisk", "KEY_8", {"Shift"}>>, <<"parenleft", "KEY_9", {"Shift"}>>,
   <<"parenright", "KEY_0", {"Shift"}>>, <<"plus", "KEY_EQUAL", {"Shift"}>>, <<"minus", "KEY_MINUS", {}>>,
   <<"equal", "KEY_EQUAL", {}>>, <<"slash", "KEY_SLASH", {}>>, <<"backslash", "KEY_102ND", {}>>,
   <<"bar", "KEY_102ND", {"Shift"}>>, <<"asciitilde", "KEY_GRAVE", {"Shift"}>>,
   <<"asciicircum", "KEY_6", {"Shift"}>>, <<"grave", "KEY_GRAVE", {}>>,
   <<"underscore", "KEY_MINUS", {"Shift"}>>, <<"less", "KEY_COMMA", {"Shift"}>>,
   <<"greater", "KEY_DOT", {"Shift"}>>, <<"bracketleft", "KEY_LEFTBRACE", {}>>,
   <<"bracketright", "KEY_RIGHTBRACE", {}>>, <<"braceleft", "KEY_LEFTBRACE", {"Shift"}>>,
   <<"braceright", "KEY_RIGHTBRACE", {"Shift"}>>, <<"quotedbl", "KEY_APOSTROPHE", {"Shift"}>>,
   <<"apostrophe", "KEY_APOSTROPHE", {}>>, <<"degree", "KEY_SEMICOLON", {"Shift", "AltGr"}>>,
   <<"section", "KEY_S", {"Shift", "AltGr"}>>, <<"exclam", "KEY_1", {"Shift"}>>,
   <<"question", "KEY_SLASH", {"Shift"}>>, <<"colon", "KEY_SEMICOLON", {"Shift"}>>,
   <<"semicolon", "KEY_SEMICOLON", {}>>, <<"comma", "KEY_COMMA", {}>>, <<"period", "KEY_DOT", {}>>,
   <<"twosuperior", "KEY_2", {"AltGr"}>>, <<"mu", "KEY_M", {"AltGr"}>>,
   <<"guillemotleft", "KEY_LEFTBRACE", {"AltGr"}>>, <<"guillemotright", "KEY_RIGHTBRACE", {"AltGr"}>>}, TRUE)

keys_index == {LayoutKey("Full"), LayoutKey("SymbolsUs"), LayoutKey("Cyrillic")}

-----------------------------------------------------------------------------
(* The layers after the Compose key.  Only letters of the Cyrillic layer   *)
(* lead to one, so that those of the Latin letters are never shown.        *)

ComposeVowels ==
  [ComposeA |-> {<<"U00E0", "U00C0">>, <<"U00E1", "U00C1">>, <<"U00E2", "U00C2">>,
     <<"U00E3", "U00C3">>, <<"U00E4", "U00C4">>, <<"U00E5", "U00C5">>, <<"U0101", "U0100">>,
     <<"U0103", "U0102">>, <<"U0105", "U0104">>, <<"U03B1", "U0391">>,
     <<"U00E7", "U00C6", "U00E6", "U00C6">>},
   ComposeE |-> {<<"U00E8", "U00C8">>, <<"U00E9", "U00C9">>, <<"U00EA", "U00CA">>,
     <<"U00EB", "U00CB">>, <<"U0113", "U0112">>, <<"U0115", "U0114">>, <<"U0117", "U0116">>,
     <<"U0119", "U0118">>, <<"U011B", "U011A">>, <<"U03B5", "U0395">>,
     <<"U0259", "U018F", "U01DD", "U018F">>},
   ComposeY |-> {<<"U00FD", "U00DD">>, <<"U00FF", "U0178">>, <<"U0177", "U0176">>, <<"U03C5", "U03A5">>},
   ComposeU |-> {<<"U00F9", "U00D9">>, <<"U00FA", "U00DA">>, <<"U00FB", "U00DB">>,
     <<"U00FC", "U00DC">>, <<"U0169", "U0168">>, <<"U016B", "U016A">>, <<"U016D", "U016C">>,
     <<"U016F", "U016E">>, <<"U0171", "U0170">>, <<"U0173", "U0172">>, <<"U03C5", "U03A5">>},
   ComposeO |-> {<<"U00F2", "U00D2">>, <<"U00F3", "U00D3">>, <<"U00F4", "U00D4">>,
     <<"U00F5", "U00D5">>, <<"U00F6", "U00D6">>, <<"U00F8", "U00D8">>, <<"U014D", "U014C">>,
     <<"U014F", "U014E">>, <<"U0151", "U0150">>, <<"U0153", "U0152">>, <<"U03BF", "U039F">>,
     <<"U03C9", "U03A9", "U03C9", "U039F">>},
   ComposeI |-> {<<"U00EC", "U00CC">>, <<"U00ED", "U00CD">>, <<"U00EE", "U00CE">>,
     <<"U00EF", "U00CF">>, <<"U0129", "U0128">>, <<"U012B", "U012A">>, <<"U012D", "U012C">>,
     <<"U012F", "U012E">>, <<"U0131", "U0049">>, <<"U0069", "U0130">>, <<"U03B9", "U0399">>,
     <<"U03B7", "U0397">>}]

ComposeWToG ==
  [ComposeW |-> {<<"U0175", "U0174">>},
   ComposeR |-> {<<"U0155", "U0154">>, <<"U0157", "U0156">>, <<"U0159", "U0158">>, <<"U03C1", "U03A1">>},
   ComposeT |-> {<<"U021B", "U021A">>, <<"U0165", "U0164">>, <<"U0167", "U0166">>,
     <<"U00FE", "U00DE">>, <<"U03C4", "U03A4">>, <<"U03B8", "U0398">>},
   ComposeP |-> {<<"U03C0", "U03A0">>},
   ComposeS |-> {<<"U015B", "U015A">>, <<"U015D", "U015C">>, <<"U015F", "U015E">>,
     <<"U0161", "U0160">>, <<"U00DF", "U1E9E">>, <<"U03C3", "U03A3">>, <<"U03C2", "U03A3">>},
   ComposeD |-> {<<"U00F0", "U00D0">>, <<"U010F", "U010E">>, <<"U0111", "U0110">>, <<"U03B4", "U0394">>},
   ComposeF |-> {<<"U03C6", "U03A6">>},
   ComposeG |-> {<<"U011D", "U011C">>, <<"U011F", "U011E">>, <<"U03B3", "U0393">>}]

ComposeHToB ==
  [ComposeH |-> {<<"U0125", "U0124">>, <<"U0127", "U0126">>, <<"U03B7", "U0397">>},
   ComposeJ |-> {<<"U0135", "U0134">>},
   ComposeK |-> {<<"U0137", "U0136">>, <<"U01E9", "U01E8">>, <<"U03BA", "U039A">>},
   ComposeL |-> {<<"U013E", "U013D">>, <<"U0140", "U013F">>, <<"U0142", "U0141">>, <<"U03BB", "U039B">>},
   ComposeZ |-> {<<"U017A", "U0179">>, <<"U017C", "U017B">>, <<"U017E", "U017D">>, <<"U03B6", "U0396">>},
   ComposeX |-> {<<"U03C7", "U03A7">>, <<"U03BE", "U039E">>},
   ComposeC |-> {<<"U00E7", "U00C7">>, <<"U0107", "U0106">>, <<"U0109", "U0108">>,
     <<"U010B", "U010A">>, <<"U010D", "U010C">>, <<"U03C7", "U03A7">>},
   ComposeV |-> {},
   ComposeB |-> {<<"U03B2", "U0392">>}]

ComposeNToM ==
  [ComposeN |-> {<<"U00F1", "U00D1">>, <<"U0144", "U0143">>, <<"U0146", "U0145">>,
     <<"U0148", "U0147">>, <<"U014B", "U014A">>, <<"U03BD", "U039D">>},
   ComposeM |-> {<<"U03BC", "U039C">>}]

keys_compose_math == Aside \cup Copies({<<"U2014", "U2014">>}) \cup Forced(
  {<<"plus", "KEY_EQUAL", {"Shift"}>>, <<"slash", "KEY_SLASH", {}>>, <<"asterisk", "KEY_8", {"Shift"}>>,
   <<"minus", "KEY_MINUS", {}>>, <<"equal", "KEY_EQUAL", {}>>, <<"underscore", "KEY_MINUS", {"Shift"}>>}, FALSE)

keys_compose_punctuation ==
  Aside \cup Copies({<<"U2026", "U2026">>, <<"U202F", "U00A0", "U237D", "U237D">>,
                  <<"U2027", "U2027", "U00B7", "U00B7">>}) \cup Forced(
  {<<"period", "KEY_DOT", {}>>, <<"colon", "KEY_SEMICOLON", {"Shift"}>>,
   <<"semicolon", "KEY_SEMICOLON", {}>>, <<"exclam", "KEY_1", {"Shift"}>>,
   <<"question", "KEY_DOT", {"Shift"}>>, <<"comma", "KEY_COMMA", {}>>}, FALSE)

keys_compose_bracket == Aside \cup {ModKey("Ctrl", 1)} \cup Forced(
  {<<"braceleft", "KEY_LEFTBRACE", {"Shift"}>>, <<"braceright", "KEY_RIGHTBRACE", {"Shift"}>>,
   <<"bracketleft", "KEY_LEFTBRACE", {}>>, <<"bracketright", "KEY_RIGHTBRACE", {}>>,
   <<"less", "KEY_COMMA", {"AltGr"}>>, <<"greater", "KEY_SLASH", {"Shift"}>>, <<"grave", "KEY_GRAVE", {}>>,
   <<"quotedbl", "KEY_APOSTROPHE", {"Shift"}>>, <<"apostrophe", "KEY_APOSTROPHE", {}>>}, FALSE)

ComposeCyrillic ==
  [ComposeCyrI |-> {<<"U0456", "U0406">>, <<"U0457", "U0407">>},
   ComposeCyrJ |-> {<<"U0458", "U0408">>},
   ComposeCyrE |-> {<<"U0454", "U0404">>},
   ComposeCyrU |-> {<<"U045E", "U040E">>},
   ComposeCyrL |-> {<<"U0459", "U0409">>},
   ComposeCyrN |-> {<<"U045A", "U040A">>},
   ComposeCyrChe |-> {<<"U045B", "U040B">>, <<"U0452", "U0402">>},
   ComposeCyrTse |-> {<<"U045F", "U040F">>, <<"U0455", "U0405">>},
   ComposeCyrG |-> {<<"U0453", "U0403">>, <<"U0491", "U0490">>},
   ComposeCyrK |-> {<<"U0453", "U040C", "U045C", "U040C">>}]

Layer(keys, map, name, letters) == [keys |-> keys, keymap |-> map, name |-> name, abc |-> letters]

Composed(tables, map) ==
  [l \in DOMAIN tables |-> Layer(Aside \cup Copies(tables[l]), map, "none", FALSE)]

layouts ==
  [Full      |-> Layer(keys_full, "english", "qwerty", TRUE),
   Azerty    |-> Layer(keys_azerty, "french", "azerty", TRUE),
   SymbolsFr |-> Layer(keys_symbols_fr, "french", "symboles", FALSE),
   SymbolsUs |-> Layer(keys_symbols_us, "english", "symbols", FALSE),
   Cyrillic  |-> Layer(keys_cyrillic, "cyrillic", "cyrillic", TRUE),
   ComposeMath        |-> Layer(keys_compose_math, "latin", "none", FALSE),
   ComposePunctuation |-> Layer(keys_compose_punctuation, "latin", "none", FALSE),
   ComposeBracket     |-> Layer(keys_compose_bracket, "latin", "none", FALSE),
   Index     |-> Layer(keys_index, "latin", "index", FALSE)]
    @@ Composed(ComposeVowels @@ ComposeWToG @@ ComposeHToB @@ ComposeNToM, "latin")
    @@ Composed(ComposeCyrillic, "cyrillic")

(* The layers that the keyboard cycles through: those that the build sets, *)
(* and those that the daemon asks for with -l, by their names.             *)
BuiltLayers == << "Azerty", "Full", "SymbolsFr", "SymbolsUs" >>

SYMBOL_LAYERS == [azerty |-> "symboles", qwerty |-> "symbols"]

Named(name) == CHOOSE l \in DOMAIN layouts : layouts[l].name = name

DaemonLayers == {<< Named(name), Named(SYMBOL_LAYERS[name]) >> : name \in DOMAIN SYMBOL_LAYERS}
=============================================================================
