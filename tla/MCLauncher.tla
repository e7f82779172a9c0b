----------------------------- MODULE MCLauncher ------------------------------
(* Values for checking Launcher: an application that the user may have in    *)
(* place of the system's, and one in a subdirectory of the system's.  The    *)
(* letter typed is one that only "Preferences" begins with.                  *)
EXTENDS Launcher

MCPlaces == {"user/a", "system/a", "system/b/c"}
MCDirOf == [p \in MCPlaces |-> IF p = "user/a" THEN 0 ELSE 1]
MCIdOf == [p \in MCPlaces |-> IF p = "system/b/c" THEN "b-c" ELSE "a"]
MCNested == {"system/b/c"}
MCRank == [id \in {"a", "b-c", "settings"} |-> CASE id = "b-c" -> 1 [] id = "a" -> 2 [] OTHER -> 3]

MCLocale == <<"de", "AT", "">>
MCMatchOf == [t \in {<<>>, <<"Settings">>, <<"Spiel">>, <<"Preferences">>, <<"game">>, <<"settings">>, <<"desktopsettings">>}
                    \X (1 .. 1) |-> IF t[1] = <<"Preferences">> THEN "prefix" ELSE "none"]

Game == <<Header("Desktop Entry"), Value("Type", <<"Application">>), Value("Name", <<"Game">>),
          Translation("Name", <<"de", "", "">>, <<"Spiel">>), Value("Exec", <<"game">>),
          Value("Categories", <<"game">>)>>

MCFileOf ==
  [locked |-> [readable |-> FALSE, lines |-> Game],
   game |-> [readable |-> TRUE, lines |-> Game],
   hidden |-> [readable |-> TRUE, lines |-> Append(Game, Value("Hidden", <<"true">>))],
   settings |-> [readable |-> TRUE,
                 lines |-> <<Header("Desktop Entry"), Value("Type", <<"Application">>),
                             Value("Name", <<"Settings">>), Value("GenericName", <<"Preferences">>),
                             Value("Exec", <<"ldde --settings">>),
                             Value("Categories", <<"settings", "desktopsettings">>)>>]]
=============================================================================
