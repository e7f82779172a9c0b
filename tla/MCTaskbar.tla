------------------------------ MODULE MCTaskbar ------------------------------
(* Values for checking Taskbar: an app_id that two pinned applications match, *)
(* as a program and its beta do with one StartupWMClass, and one of a program  *)
(* that is neither pinned nor has a desktop file.                              *)
EXTENDS Taskbar

MCApps == {"mail", "tool"}
MCPins == {"mail.desktop", "mail-beta.desktop"}
MCMatched == [pin \in MCPins |-> {"mail"}]
MCIdOf == [mail |-> "mail.desktop", tool |-> "tool", none |-> "unknown"]
=============================================================================
