---------------------------- MODULE WvkbdKeymaps ----------------------------
(***************************************************************************)
(* The four xkb keymaps that the on-screen keyboard uploads                *)
(* (osk/wvkbd/keymap.surface.h), and what libxkbcommon makes of them: the  *)
(* keysym that a key and a mask of modifiers type.                         *)
(*                                                                         *)
(* A keymap gives each keycode a name, each name a row of keysyms, one per *)
(* level, and each row a type that picks a level from the modifiers.  Only *)
(* the keys that a layer of the keyboard holds are kept, and only the      *)
(* types that their rows use.  Sides, indicators, key actions and the      *)
(* geometry are left out.                                                  *)
(***************************************************************************)
EXTENDS Naturals, Sequences, TLC

Keymaps == {"latin", "cyrillic", "french", "english"}

(* Names of the keycodes 9 to 135: an evdev code is its keycode minus 8,   *)
(* so that this sequence is indexed by evdev codes.                        *)
FrenchKeycodes == <<
  "ESC", "AE01", "AE02", "AE03", "AE04", "AE05", "AE06", "AE07", "AE08", "AE09", "AE10", "AE11",
  "AE12", "BKSP", "TAB", "AD01", "AD02", "AD03", "AD04", "AD05", "AD06", "AD07", "AD08", "AD09",
  "AD10", "AD11", "AD12", "RTRN", "LCTL", "AC01", "AC02", "AC03", "AC04", "AC05", "AC06", "AC07",
  "AC08", "AC09", "AC10", "AC11", "TLDE", "LFSH", "BKSL", "AB01", "AB02", "AB03", "AB04", "AB05",
  "AB06", "AB07", "AB08", "AB09", "AB10", "RTSH", "KPMU", "LALT", "SPCE", "CAPS", "FK01", "FK02",
  "FK03", "FK04", "FK05", "FK06", "FK07", "FK08", "FK09", "FK10", "NMLK", "SCLK", "KP7", "KP8",
  "KP9", "KPSU", "KP4", "KP5", "KP6", "KPAD", "KP1", "KP2", "KP3", "KP0", "KPDL", "LVL3", "ZEHA",
  "LSGT", "FK11", "FK12", "AB11", "KATA", "HIRA", "HENK", "HKTG", "MUHE", "JPCM", "KPEN", "RCTL",
  "KPDV", "PRSC", "RALT", "LNFD", "HOME", "UP", "PGUP", "LEFT", "RGHT", "END", "DOWN", "PGDN",
  "INS", "DELE", "I120", "MUTE", "VOL-", "VOL+", "POWR", "KPEQ", "I126", "PAUS", "I128", "I129",
  "HNGL", "HJCV", "AE13", "LWIN", "RWIN", "COMP">>

EnglishKeycodes == FrenchKeycodes

(* The first two keymaps name no key 93. *)
LatinKeycodes == [FrenchKeycodes EXCEPT ![85] = "none"]

CyrillicKeycodes == LatinKeycodes

Keycodes ==
  [latin |-> LatinKeycodes, cyrillic |-> CyrillicKeycodes, french |-> FrenchKeycodes,
   english |-> EnglishKeycodes]

-----------------------------------------------------------------------------
(* The types of the rows.  A type looks at the modifiers "of" and takes    *)
(* level n + 1 on the combinations in above[n], level 1 on every other.    *)

S == "Shift"
K == "Lock"
T == "LevelThree"
CA == {"Control", "Alt"}

Type(of, above) == [of |-> of, above |-> above]

LatinBasicTypes ==
  [ONE_LEVEL |-> Type({}, << >>), TWO_LEVEL |-> Type({S}, << {{S}} >>),
   ALPHABETIC |-> Type({S, K}, << {{S}, {K}} >>)]

LatinFunctionType == Type({S, T} \cup CA, << {{S}}, {{T}}, {{S, T}}, {CA} >>)

LatinFourLevelTypes ==
  [FOUR_LEVEL |-> Type({S, T}, << {{S}}, {{T}}, {{S, T}} >>),
   FOUR_LEVEL_ALPHABETIC |->
     Type({S, K, T}, << {{S}, {K}}, {{T}, {S, K, T}}, {{S, T}, {K, T}} >>),
   FOUR_LEVEL_SEMIALPHABETIC |->
     Type({S, K, T}, << {{S}, {K}}, {{T}, {K, T}}, {{S, T}, {S, K, T}} >>)]

CyrillicBasicTypes == LatinBasicTypes
CyrillicFunctionType == LatinFunctionType
CyrillicFourLevelTypes == LatinFourLevelTypes

FrenchBasicTypes == LatinBasicTypes
FrenchFourLevelTypes == LatinFourLevelTypes

(* Unlike the first two keymaps', this one keeps the levels of Shift and   *)
(* AltGr when Control or Alt is down too.                                  *)
FrenchFunctionType ==
  Type({S, T} \cup CA,
       << {{S} \cup c : c \in SUBSET CA}, {{T} \cup c : c \in SUBSET CA},
          {{S, T} \cup c : c \in SUBSET CA}, {CA} >>)

EnglishBasicTypes == FrenchBasicTypes
EnglishFunctionType == FrenchFunctionType
EnglishFourLevelTypes == FrenchFourLevelTypes

Types ==
  LET All(basic, function, four) == basic @@ four @@ ("CTRL+ALT" :> function)
  IN [latin    |-> All(LatinBasicTypes, LatinFunctionType, LatinFourLevelTypes),
      cyrillic |-> All(CyrillicBasicTypes, CyrillicFunctionType, CyrillicFourLevelTypes),
      french   |-> All(FrenchBasicTypes, FrenchFunctionType, FrenchFourLevelTypes),
      english  |-> All(EnglishBasicTypes, EnglishFunctionType, EnglishFourLevelTypes)]

-----------------------------------------------------------------------------
(* The rows of keysyms.  "U..." is the character of that code point.       *)

LatinSymbols ==
  [ESC |-> <<"Escape">>, AE01 |-> <<"1", "exclam", "F1">>, AE02 |-> <<"2", "at", "F2">>,
   AE03 |-> <<"3", "numbersign", "F3">>, AE04 |-> <<"4", "dollar", "F4">>,
   AE05 |-> <<"5", "percent", "F5">>, AE06 |-> <<"6", "asciicircum", "F6">>,
   AE07 |-> <<"7", "ampersand", "F7">>, AE08 |-> <<"8", "asterisk", "F8">>,
   AE09 |-> <<"9", "parenleft", "F9">>, AE10 |-> <<"0", "parenright", "F10">>,
   AE11 |-> <<"minus", "underscore", "EuroSign">>, AE12 |-> <<"equal", "plus", "sterling">>,
   BKSP |-> <<"BackSpace", "BackSpace">>, TAB |-> <<"Tab", "ISO_Left_Tab">>, AD01 |-> <<"q", "Q", "1">>,
   AD02 |-> <<"w", "W", "2">>, AD03 |-> <<"e", "E", "3">>, AD04 |-> <<"r", "R", "4">>,
   AD05 |-> <<"t", "T", "5">>, AD06 |-> <<"y", "Y", "6">>, AD07 |-> <<"u", "U", "7">>,
   AD08 |-> <<"i", "I", "8">>, AD09 |-> <<"o", "O", "9">>, AD10 |-> <<"p", "P", "0">>,
   AD11 |-> <<"bracketleft", "braceleft">>, AD12 |-> <<"bracketright", "braceright">>,
   RTRN |-> <<"Return">>, AC01 |-> <<"a", "A", "minus">>, AC02 |-> <<"s", "S", "at">>,
   AC03 |-> <<"d", "D", "asterisk">>, AC04 |-> <<"f", "F", "asciicircum">>, AC05 |-> <<"g", "G", "colon">>,
   AC06 |-> <<"h", "H", "semicolon">>, AC07 |-> <<"j", "J", "parenleft">>,
   AC08 |-> <<"k", "K", "parenright">>, AC09 |-> <<"l", "L", "asciitilde">>,
   AC10 |-> <<"semicolon", "colon">>, AC11 |-> <<"apostrophe", "quotedbl">>,
   TLDE |-> <<"grave", "asciitilde">>, BKSL |-> <<"backslash", "bar">>, AB01 |-> <<"z", "Z", "slash">>,
   AB02 |-> <<"x", "X", "apostrophe">>, AB03 |-> <<"c", "C", "quotedbl">>, AB04 |-> <<"v", "V", "plus">>,
   AB05 |-> <<"b", "B", "equal">>, AB06 |-> <<"n", "N", "question">>, AB07 |-> <<"m", "M", "exclam">>,
   AB08 |-> <<"comma", "less", "backslash">>, AB09 |-> <<"period", "greater", "bar">>,
   AB10 |-> <<"slash", "question">>, SPCE |-> <<"space">>]

CyrillicSymbols ==
  [ESC |-> <<"Escape">>, AE01 |-> <<"1", "exclam", "exclam">>, AE02 |-> <<"2", "quotedbl", "at">>,
   AE03 |-> <<"3", "numbersign", "numbersign">>, AE04 |-> <<"4", "asterisk", "dollar">>,
   AE05 |-> <<"5", "colon", "percent">>, AE06 |-> <<"6", "comma", "asciicircum">>,
   AE07 |-> <<"7", "period", "ampersand">>, AE08 |-> <<"8", "semicolon", "asterisk">>,
   AE09 |-> <<"9", "parenleft", "bracketleft", "braceleft">>,
   AE10 |-> <<"0", "parenright", "bracketright", "braceright">>, AE11 |-> <<"minus", "underscore", "less">>,
   AE12 |-> <<"equal", "plus", "greater">>, BKSP |-> <<"BackSpace", "BackSpace">>,
   TAB |-> <<"Tab", "ISO_Left_Tab">>, TLDE |-> <<"Cyrillic_io", "Cyrillic_IO">>,
   AD01 |-> <<"Cyrillic_shorti", "Cyrillic_SHORTI">>, AD02 |-> <<"Cyrillic_tse", "Cyrillic_TSE">>,
   AD03 |-> <<"Cyrillic_u", "Cyrillic_U">>, AD04 |-> <<"Cyrillic_ka", "Cyrillic_KA">>,
   AD05 |-> <<"Cyrillic_ie", "Cyrillic_IE">>, AD06 |-> <<"Cyrillic_en", "Cyrillic_EN">>,
   AD07 |-> <<"Cyrillic_ghe", "Cyrillic_GHE">>, AD08 |-> <<"Cyrillic_sha", "Cyrillic_SHA">>,
   AD09 |-> <<"Cyrillic_shcha", "Cyrillic_SHCHA">>, AD10 |-> <<"Cyrillic_ze", "Cyrillic_ZE">>,
   AD11 |-> <<"Cyrillic_ha", "Cyrillic_HA">>, AD12 |-> <<"Cyrillic_hardsign", "Cyrillic_HARDSIGN">>,
   BKSL |-> <<"backslash", "bar">>, RTRN |-> <<"Return">>, AC01 |-> <<"Cyrillic_ef", "Cyrillic_EF">>,
   AC02 |-> <<"Cyrillic_yeru", "Cyrillic_YERU">>, AC03 |-> <<"Cyrillic_ve", "Cyrillic_VE">>,
   AC04 |-> <<"Cyrillic_a", "Cyrillic_A">>, AC05 |-> <<"Cyrillic_pe", "Cyrillic_PE">>,
   AC06 |-> <<"Cyrillic_er", "Cyrillic_ER">>, AC07 |-> <<"Cyrillic_o", "Cyrillic_O">>,
   AC08 |-> <<"Cyrillic_el", "Cyrillic_EL">>, AC09 |-> <<"Cyrillic_de", "Cyrillic_DE">>,
   AC10 |-> <<"Cyrillic_zhe", "Cyrillic_ZHE">>, AC11 |-> <<"Cyrillic_e", "Cyrillic_E", "apostrophe">>,
   AB01 |-> <<"Cyrillic_ya", "Cyrillic_YA">>, AB02 |-> <<"Cyrillic_che", "Cyrillic_CHE">>,
   AB03 |-> <<"Cyrillic_es", "Cyrillic_ES">>, AB04 |-> <<"Cyrillic_em", "Cyrillic_EM">>,
   AB05 |-> <<"Cyrillic_i", "Cyrillic_I">>, AB06 |-> <<"Cyrillic_te", "Cyrillic_TE">>,
   AB07 |-> <<"Cyrillic_softsign", "Cyrillic_SOFTSIGN">>,
   AB08 |-> <<"Cyrillic_be", "Cyrillic_BE", "comma", "less">>,
   AB09 |-> <<"Cyrillic_yu", "Cyrillic_YU", "period", "greater">>,
   AB10 |-> <<"slash", "question", "apostrophe">>, SPCE |-> <<"space">>]

FrenchSymbols ==
  [ESC |-> <<"Escape">>, AE01 |-> <<"ampersand", "1", "onesuperior", "exclamdown">>,
   AE02 |-> <<"eacute", "2", "asciitilde", "oneeighth">>,
   AE03 |-> <<"quotedbl", "3", "numbersign", "sterling">>,
   AE04 |-> <<"apostrophe", "4", "braceleft", "dollar">>,
   AE05 |-> <<"parenleft", "5", "bracketleft", "threeeighths">>,
   AE06 |-> <<"minus", "6", "bar", "fiveeighths">>, AE07 |-> <<"egrave", "7", "grave", "seveneighths">>,
   AE08 |-> <<"underscore", "8", "backslash", "trademark">>,
   AE09 |-> <<"ccedilla", "9", "asciicircum", "plusminus">>, AE10 |-> <<"agrave", "0", "at", "degree">>,
   AE11 |-> <<"parenright", "degree", "bracketright", "questiondown">>,
   AE12 |-> <<"equal", "plus", "braceright", "dead_ogonek">>, BKSP |-> <<"BackSpace", "BackSpace">>,
   TAB |-> <<"Tab", "ISO_Left_Tab">>, AD01 |-> <<"a", "A", "ae", "AE">>,
   AD02 |-> <<"z", "Z", "guillemotleft", "less">>, AD03 |-> <<"e", "E", "EuroSign", "cent">>,
   AD04 |-> <<"r", "R", "paragraph", "registered">>, AD05 |-> <<"t", "T", "tslash", "Tslash">>,
   AD06 |-> <<"y", "Y", "leftarrow", "yen">>, AD07 |-> <<"u", "U", "downarrow", "uparrow">>,
   AD08 |-> <<"i", "I", "rightarrow", "idotless">>, AD09 |-> <<"o", "O", "oslash", "Oslash">>,
   AD10 |-> <<"p", "P", "thorn", "THORN">>,
   AD11 |-> <<"dead_circumflex", "dead_diaeresis", "dead_diaeresis", "dead_abovering">>,
   AD12 |-> <<"dollar", "sterling", "currency", "dead_macron">>, RTRN |-> <<"Return">>,
   AC01 |-> <<"q", "Q", "at", "Greek_OMEGA">>, AC02 |-> <<"s", "S", "ssharp", "SSHARP">>,
   AC03 |-> <<"d", "D", "eth", "ETH">>, AC04 |-> <<"f", "F", "dstroke", "ordfeminine">>,
   AC05 |-> <<"g", "G", "eng", "ENG">>, AC06 |-> <<"h", "H", "hstroke", "Hstroke">>,
   AC07 |-> <<"j", "J", "dead_hook", "dead_horn">>, AC08 |-> <<"k", "K", "kra", "ampersand">>,
   AC09 |-> <<"l", "L", "lstroke", "Lstroke">>, AC10 |-> <<"m", "M", "mu", "masculine">>,
   AC11 |-> <<"ugrave", "percent", "dead_circumflex", "dead_caron">>,
   TLDE |-> <<"twosuperior", "asciitilde", "notsign", "notsign">>,
   BKSL |-> <<"asterisk", "mu", "dead_grave", "dead_breve">>, AB01 |-> <<"w", "W", "lstroke", "Lstroke">>,
   AB02 |-> <<"x", "X", "guillemotright", "greater">>, AB03 |-> <<"c", "C", "cent", "copyright">>,
   AB04 |-> <<"v", "V", "doublelowquotemark", "singlelowquotemark">>,
   AB05 |-> <<"b", "B", "leftdoublequotemark", "leftsinglequotemark">>,
   AB06 |-> <<"n", "N", "rightdoublequotemark", "rightsinglequotemark">>,
   AB07 |-> <<"comma", "question", "dead_acute", "dead_doubleacute">>,
   AB08 |-> <<"semicolon", "period", "U2022", "multiply">>,
   AB09 |-> <<"colon", "slash", "periodcentered", "division">>,
   AB10 |-> <<"exclam", "section", "dead_belowdot", "dead_abovedot">>, SPCE |-> <<"space">>]

EnglishSymbols ==
  [ESC |-> <<"Escape">>, AE01 |-> <<"1", "exclam", "onesuperior", "exclamdown">>,
   AE02 |-> <<"2", "at", "twosuperior", "dead_doubleacute">>,
   AE03 |-> <<"3", "numbersign", "threesuperior", "dead_macron">>,
   AE04 |-> <<"4", "dollar", "currency", "sterling">>,
   AE05 |-> <<"5", "percent", "EuroSign", "dead_cedilla">>,
   AE06 |-> <<"6", "asciicircum", "dead_circumflex", "onequarter">>,
   AE07 |-> <<"7", "ampersand", "dead_horn", "onehalf">>,
   AE08 |-> <<"8", "asterisk", "dead_ogonek", "threequarters">>,
   AE09 |-> <<"9", "parenleft", "leftsinglequotemark", "dead_breve">>,
   AE10 |-> <<"0", "parenright", "rightsinglequotemark", "dead_abovering">>,
   AE11 |-> <<"minus", "underscore", "yen", "dead_belowdot">>,
   AE12 |-> <<"equal", "plus", "multiply", "division">>, BKSP |-> <<"BackSpace", "BackSpace">>,
   TAB |-> <<"Tab", "ISO_Left_Tab">>, AD01 |-> <<"q", "Q", "adiaeresis", "Adiaeresis">>,
   AD02 |-> <<"w", "W", "aring", "Aring">>, AD03 |-> <<"e", "E", "eacute", "Eacute">>,
   AD04 |-> <<"r", "R", "ediaeresis", "Ediaeresis">>, AD05 |-> <<"t", "T", "thorn", "THORN">>,
   AD06 |-> <<"y", "Y", "udiaeresis", "Udiaeresis">>, AD07 |-> <<"u", "U", "uacute", "Uacute">>,
   AD08 |-> <<"i", "I", "iacute", "Iacute">>, AD09 |-> <<"o", "O", "oacute", "Oacute">>,
   AD10 |-> <<"p", "P", "odiaeresis", "Odiaeresis">>,
   AD11 |-> <<"bracketleft", "braceleft", "guillemotleft", "leftdoublequotemark">>,
   AD12 |-> <<"bracketright", "braceright", "guillemotright", "rightdoublequotemark">>,
   RTRN |-> <<"Return">>, AC01 |-> <<"a", "A", "aacute", "Aacute">>,
   AC02 |-> <<"s", "S", "ssharp", "section">>, AC03 |-> <<"d", "D", "eth", "ETH">>,
   AC04 |-> <<"f", "F", "f", "F">>, AC05 |-> <<"g", "G", "g", "G">>, AC06 |-> <<"h", "H", "h", "H">>,
   AC07 |-> <<"j", "J", "idiaeresis", "Idiaeresis">>, AC08 |-> <<"k", "K", "oe", "OE">>,
   AC09 |-> <<"l", "L", "oslash", "Oslash">>, AC10 |-> <<"semicolon", "colon", "paragraph", "degree">>,
   AC11 |-> <<"apostrophe", "quotedbl", "dead_acute", "dead_diaeresis">>,
   TLDE |-> <<"grave", "asciitilde", "dead_grave", "dead_tilde">>,
   BKSL |-> <<"backslash", "bar", "notsign", "brokenbar">>, AB01 |-> <<"z", "Z", "ae", "AE">>,
   AB02 |-> <<"x", "X", "oe", "OE">>, AB03 |-> <<"c", "C", "copyright", "cent">>,
   AB04 |-> <<"v", "V", "registered", "trademark">>, AB05 |-> <<"b", "B", "periodcentered", "dead_stroke">>,
   AB06 |-> <<"n", "N", "ntilde", "Ntilde">>, AB07 |-> <<"m", "M", "mu", "plusminus">>,
   AB08 |-> <<"comma", "less", "ccedilla", "Ccedilla">>,
   AB09 |-> <<"period", "greater", "dead_abovedot", "dead_caron">>,
   AB10 |-> <<"slash", "question", "questiondown", "dead_hook">>, SPCE |-> <<"space">>]

LatinLsgt == << "less", "greater", "bar", "brokenbar" >>
CyrillicLsgt == LatinLsgt
FrenchLsgt == LatinLsgt
EnglishLsgt == << "backslash", "bar", "backslash", "bar" >>

(* The function keys switch to another console with Ctrl and Alt. *)
Function(f, vt) == << f, f, f, f, vt >>

LatinFunctionKeys ==
  [FK01 |-> Function("F1", "VT1"), FK02 |-> Function("F2", "VT2"), FK03 |-> Function("F3", "VT3"),
   FK04 |-> Function("F4", "VT4"), FK05 |-> Function("F5", "VT5"), FK06 |-> Function("F6", "VT6"),
   FK07 |-> Function("F7", "VT7"), FK08 |-> Function("F8", "VT8"), FK09 |-> Function("F9", "VT9"),
   FK10 |-> Function("F10", "VT10")]

LatinLastFunctionKeys == [FK11 |-> Function("F11", "VT11"), FK12 |-> Function("F12", "VT12")]

LatinCursorKeys ==
  [HOME |-> <<"Home">>, UP |-> <<"Up">>, PGUP |-> <<"Prior">>, LEFT |-> <<"Left">>,
   RGHT |-> <<"Right">>, END |-> <<"End">>, DOWN |-> <<"Down">>, PGDN |-> <<"Next">>,
   INS |-> <<"Insert">>, DELE |-> <<"Delete">>]

CyrillicFunctionKeys == LatinFunctionKeys
CyrillicLastFunctionKeys == LatinLastFunctionKeys
CyrillicCursorKeys == LatinCursorKeys
FrenchFunctionKeys == LatinFunctionKeys
FrenchLastFunctionKeys == LatinLastFunctionKeys
FrenchCursorKeys == LatinCursorKeys
EnglishFunctionKeys == FrenchFunctionKeys
EnglishLastFunctionKeys == FrenchLastFunctionKeys
EnglishCursorKeys == FrenchCursorKeys

(* The letters among the keysyms. *)
LowerCase ==
  {"Cyrillic_a", "Cyrillic_be", "Cyrillic_che", "Cyrillic_de", "Cyrillic_e", "Cyrillic_ef",
   "Cyrillic_el", "Cyrillic_em", "Cyrillic_en", "Cyrillic_er", "Cyrillic_es", "Cyrillic_ghe",
   "Cyrillic_ha", "Cyrillic_hardsign", "Cyrillic_i", "Cyrillic_ie", "Cyrillic_io", "Cyrillic_ka",
   "Cyrillic_o", "Cyrillic_pe", "Cyrillic_sha", "Cyrillic_shcha", "Cyrillic_shorti",
   "Cyrillic_softsign", "Cyrillic_te", "Cyrillic_tse", "Cyrillic_u", "Cyrillic_ve", "Cyrillic_ya",
   "Cyrillic_yeru", "Cyrillic_yu", "Cyrillic_ze", "Cyrillic_zhe", "a", "aacute", "adiaeresis", "ae",
   "agrave", "aring", "b", "c", "ccedilla", "d", "dstroke", "e", "eacute", "ediaeresis", "egrave",
   "eng", "eth", "f", "g", "h", "hstroke", "i", "iacute", "idiaeresis", "idotless", "j", "k", "kra",
   "l", "lstroke", "m", "mu", "n", "ntilde", "o", "oacute", "odiaeresis", "oe", "oslash", "p", "q",
   "r", "s", "ssharp", "t", "thorn", "tslash", "u", "uacute", "udiaeresis", "ugrave", "v", "w", "x",
   "y", "z"}

UpperCase ==
  {"A", "AE", "Aacute", "Adiaeresis", "Aring", "B", "C", "Ccedilla", "Cyrillic_A", "Cyrillic_BE",
   "Cyrillic_CHE", "Cyrillic_DE", "Cyrillic_E", "Cyrillic_EF", "Cyrillic_EL", "Cyrillic_EM",
   "Cyrillic_EN", "Cyrillic_ER", "Cyrillic_ES", "Cyrillic_GHE", "Cyrillic_HA", "Cyrillic_HARDSIGN",
   "Cyrillic_I", "Cyrillic_IE", "Cyrillic_IO", "Cyrillic_KA", "Cyrillic_O", "Cyrillic_PE",
   "Cyrillic_SHA", "Cyrillic_SHCHA", "Cyrillic_SHORTI", "Cyrillic_SOFTSIGN", "Cyrillic_TE",
   "Cyrillic_TSE", "Cyrillic_U", "Cyrillic_VE", "Cyrillic_YA", "Cyrillic_YERU", "Cyrillic_YU",
   "Cyrillic_ZE", "Cyrillic_ZHE", "D", "E", "ENG", "ETH", "Eacute", "Ediaeresis", "F", "G",
   "Greek_OMEGA", "H", "Hstroke", "I", "Iacute", "Idiaeresis", "J", "K", "L", "Lstroke", "M", "N",
   "Ntilde", "O", "OE", "Oacute", "Odiaeresis", "Oslash", "P", "Q", "R", "S", "SSHARP", "T",
   "THORN", "Tslash", "U", "Uacute", "Udiaeresis", "V", "W", "X", "Y", "Z"}

Symbols ==
  LET All(printed, functions, last, cursor, lsgt) ==
        printed @@ functions @@ last @@ cursor @@ [LSGT |-> lsgt]
  IN [latin    |-> All(LatinSymbols, LatinFunctionKeys, LatinLastFunctionKeys,
                       LatinCursorKeys, LatinLsgt),
      cyrillic |-> All(CyrillicSymbols, CyrillicFunctionKeys, CyrillicLastFunctionKeys,
                       CyrillicCursorKeys, CyrillicLsgt),
      french   |-> All(FrenchSymbols, FrenchFunctionKeys, FrenchLastFunctionKeys,
                       FrenchCursorKeys, FrenchLsgt),
      english  |-> All(EnglishSymbols, EnglishFunctionKeys, EnglishLastFunctionKeys,
                       EnglishCursorKeys, EnglishLsgt)]

-----------------------------------------------------------------------------
(* The keys that make a real modifier, and the keys that type              *)
(* ISO_Level3_Shift: LevelThree is the real modifier of such a key.        *)

LatinModifierMap ==
  [Shift |-> {"LFSH", "RTSH"}, Lock |-> {"CAPS"}, Control |-> {"LCTL", "RCTL"},
   Mod1 |-> {"LALT", "RALT", "META"}, Mod2 |-> {"NMLK"},
   Mod4 |-> {"LWIN", "RWIN", "SUPR", "HYPR"}, Mod5 |-> {"LVL3", "MDSW"}]

CyrillicModifierMap == LatinModifierMap

FrenchModifierMap ==
  [Shift |-> {"LFSH", "RTSH"}, Lock |-> {"CAPS"}, Control |-> {"LCTL", "RCTL"},
   Mod1 |-> {"LALT", "ALT", "META"}, Mod2 |-> {"NMLK"}, Mod3 |-> {"LVL5"},
   Mod4 |-> {"LWIN", "RWIN", "SUPR"}, Mod5 |-> {"LVL3"}]

EnglishModifierMap == FrenchModifierMap

LatinLevelThreeKeys == {"LVL3"}
CyrillicLevelThreeKeys == {"LVL3"}
FrenchLevelThreeKeys == {"LVL3", "RALT"}
EnglishLevelThreeKeys == {"LVL3", "RALT"}

LevelThree ==
  LET Of(modmap, keys) == {m \in DOMAIN modmap : modmap[m] \cap keys # {}}
  IN [latin    |-> Of(LatinModifierMap, LatinLevelThreeKeys),
      cyrillic |-> Of(CyrillicModifierMap, CyrillicLevelThreeKeys),
      french   |-> Of(FrenchModifierMap, FrenchLevelThreeKeys),
      english  |-> Of(EnglishModifierMap, EnglishLevelThreeKeys)]

(* The bits of wvkbd's modifiers are those of the real modifiers. *)
RealModifier ==
  [Shift |-> "Shift", CapsLock |-> "Lock", Ctrl |-> "Control", Alt |-> "Mod1",
   Super |-> "Mod4", AltGr |-> "Mod5"]

(* The modifiers that the types see for a mask of wvkbd's modifiers. *)
Seen(keymap, mask) ==
  LET real == {RealModifier[m] : m \in mask}
  IN real \cup (IF "Mod1" \in real THEN {"Alt"} ELSE {})
          \cup (IF real \cap LevelThree[keymap] # {} THEN {T} ELSE {})

-----------------------------------------------------------------------------
(* The type of a row that names none, from the case of its letters. *)

Cased(lower, upper) == lower \in LowerCase /\ upper \in UpperCase

Inferred(row) ==
  CASE Len(row) = 1 -> "ONE_LEVEL"
    [] Len(row) = 2 -> IF Cased(row[1], row[2]) THEN "ALPHABETIC" ELSE "TWO_LEVEL"
    [] Len(row) = 3 -> IF Cased(row[1], row[2]) THEN "FOUR_LEVEL_SEMIALPHABETIC"
                       ELSE "FOUR_LEVEL"
    [] Len(row) = 4 -> IF ~Cased(row[1], row[2]) THEN "FOUR_LEVEL"
                       ELSE IF Cased(row[3], row[4]) THEN "FOUR_LEVEL_ALPHABETIC"
                       ELSE "FOUR_LEVEL_SEMIALPHABETIC"
    [] OTHER -> "CTRL+ALT"

Level(type, seen) ==
  LET at == {n \in 1 .. Len(type.above) : (seen \cap type.of) \in type.above[n]}
  IN IF at = {} THEN 1 ELSE 1 + CHOOSE n \in at : TRUE

At(row, level) == IF level <= Len(row) THEN row[level] ELSE "none"

(* The keysym that an evdev code types on a keymap under a mask. *)
Typed(keymap, code, mask) ==
  LET row == Symbols[keymap][Keycodes[keymap][code]]
  IN At(row, Level(Types[keymap][Inferred(row)], Seen(keymap, mask)))

(* <COMP> is the key whose two keysyms are filled in for a Copy key. *)
CompCode == 127

Caseless == {"U2014", "U2026", "U202F", "U00A0", "U2027"}

TypedCopy(keymap, chars, mask) ==
  LET type == IF chars[1] \in Caseless THEN "TWO_LEVEL" ELSE "ALPHABETIC"
  IN IF Keycodes[keymap][CompCode] = "COMP"
     THEN At(chars, Level(Types[keymap][type], Seen(keymap, mask)))
     ELSE "none"

(* What a keysym draws: a dead key has the accent that it adds. *)
DeadGlyph ==
  [dead_circumflex |-> "asciicircum", dead_diaeresis |-> "diaeresis",
   dead_abovering |-> "abovering", dead_macron |-> "macron", dead_ogonek |-> "ogonek",
   dead_hook |-> "hook", dead_horn |-> "horn", dead_caron |-> "caron", dead_grave |-> "grave",
   dead_breve |-> "breve", dead_acute |-> "acute", dead_doubleacute |-> "doubleacute",
   dead_belowdot |-> "belowdot", dead_abovedot |-> "abovedot", dead_tilde |-> "asciitilde",
   dead_cedilla |-> "cedilla"]

Glyph(keysym) ==
  IF keysym \in DOMAIN DeadGlyph THEN DeadGlyph[keysym]
  ELSE IF keysym = "ISO_Left_Tab" THEN "Tab" ELSE keysym
=============================================================================
