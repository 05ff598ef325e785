-------------------------- MODULE SettingsRegister --------------------------
(* What the settings store promises: one value per field, changed by whole   *)
(* Saves that take effect one after the other, each on the result of the one *)
(* before it.  A Save that fails and a crash change nothing.                 *)
EXTENDS SettingsFields

CONSTANT Writes     \* [cat, set]: a category and the keys a Save may carry

VARIABLE value      \* what the next start of the process would load

Init == value = Reload(Default)

Write(w) == value' = Reload(Merge(value, w.cat, w.set))

Next == \E w \in Writes : Write(w)

Spec == Init /\ [][Next]_value
=============================================================================
