------------------------------- MODULE MCWvkbd -------------------------------
(* Instances of Wvkbd for TLC. *)
EXTENDS Wvkbd

(* Every sequence of layers with the modifiers that matter on it. *)
AllLayers ==
  [choice \in DaemonLayers |-> {"Shift", "CapsLock", "AltGr"}]
    @@ (<< "Cyrillic" >> :> {"Shift", "CapsLock"})
    @@ (BuiltLayers :> {"Shift", "Ctrl"})

(* The daemon's layers, with two modifiers. *)
Daemon == [choice \in DaemonLayers |-> {"Shift", "Ctrl"}]

(* A Copy key shows the two characters that it types, apart from these.    *)
ASSUME CopiesShowTheirs ==
  \A l \in DOMAIN layouts : \A k \in layouts[l].keys :
    k.type = "Copy" /\ k.labels # k.chars
      => << l, k.labels >> \in
           {<< "ComposeA", << "U00E6", "U00C6" >> >>, << "ComposeE", << "U01DD", "U018F" >> >>,
            << "ComposeO", << "U03C9", "U039F" >> >>, << "ComposeCyrK", << "U045C", "U040C" >> >>,
            << "ComposePunctuation", << "U237D", "U237D" >> >>,
            << "ComposePunctuation", << "U00B7", "U00B7" >> >>}
=============================================================================
