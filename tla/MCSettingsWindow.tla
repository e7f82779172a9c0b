-------------------------- MODULE MCSettingsWindow --------------------------
(* Settings of each kind of control in three categories, and the category  *)
(* without modelled settings that the window opens with.                   *)
EXTENDS SettingsWindow

dock == <<"dock", "enabled">>
hides == <<"dock", "visibility">>
margin == <<"window", "margin", "top">>

MCKeys == {dock, hides, margin}
MCTabs == {"Windows", "About"}
MCFromFile == {<<margin, [int |-> n]>> : n \in {10, 50}}
MCFinds == << <<dock, margin>>, <<hides>> >>
=============================================================================
