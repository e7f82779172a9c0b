--------------------------- MODULE SettingsSchema ---------------------------
(***************************************************************************)
(* The table of settings, the typed values and their text in the           *)
(* configuration file (SettingsSchema, SettingsValue, Config's defaults).  *)
(* A key is the sequence of its words: "dock.item_size" is                 *)
(* <<"dock", "item", "size">>.  A value is a record with one field: bool,  *)
(* int, dbl (in thousandths) or str.  A text is [word |-> w], or           *)
(* [num |-> n] for a number printed with at most two decimals, n counting  *)
(* hundredths.  Titles, descriptions and search keywords are left out.     *)
(***************************************************************************)
EXTENDS Integers, Sequences, SequencesExt

CONSTANT Keys  \* the settings that are modelled

Word(w) == [word |-> w]
Num(n) == [num |-> n]

Categories == <<"Appearance", "Display", "Windows", "Desktop", "Dock",
                "Launcher", "Input", "Notifications", "SystemUI", "About">>

\* A setting: its key, type, default, permitted words, bounds and step.
Setting(key, type, default, options, bounds) ==
  [key |-> key, type |-> type, default |-> default, options |-> options,
   lo |-> bounds[1], hi |-> bounds[2], step |-> bounds[3]]

NoBounds == <<0, 0, 0>>
Switch(key, on) == Setting(key, "Bool", [bool |-> on], <<>>, NoBounds)
Choice(key, options, d) == Setting(key, "Enum", [str |-> d], options, NoBounds)
Count(key, d, bounds) == Setting(key, "Int", [int |-> d], <<>>, bounds)
Real(key, d, bounds) == Setting(key, "Double", [dbl |-> d], <<>>, bounds)
Line(key, d) == Setting(key, "String", [str |-> d], <<>>, NoBounds)

Appearance == <<
  Choice(<<"appearance", "theme", "mode">>, <<"dark", "light", "system">>, "dark"),
  Line(<<"desktop", "background", "color">>, "#121826"),
  Line(<<"desktop", "background", "color", "bottom">>, "#0a0d14"),
  Choice(<<"appearance", "ui", "density">>, <<"compact", "normal", "comfortable">>, "normal"),
  Line(<<"appearance", "accent", "color">>, "#4a90e2") >>

Display == <<
  Real(<<"display", "scale", "factor">>, 1000, <<500, 3000, 250>>),
  Choice(<<"display", "orientation", "policy">>, <<"auto", "portrait", "landscape">>, "auto") >>

Windows == <<
  Choice(<<"window", "default", "mode">>, <<"normal", "maximized", "fullscreen">>, "normal"),
  Count(<<"window", "cascade", "step">>, 32, <<0, 64, 8>>),
  Count(<<"window", "margin", "top">>, 8, <<0, 32, 4>>),
  Count(<<"window", "margin", "horizontal">>, 8, <<0, 32, 4>>) >>

Desktop == <<
  Choice(<<"desktop", "background", "mode">>, <<"gradient", "solid">>, "gradient"),
  Switch(<<"desktop", "ambient", "glow">>, TRUE),
  Switch(<<"desktop", "show", "empty", "hint">>, TRUE) >>

Dock == <<
  Switch(<<"dock", "enabled">>, TRUE),
  Choice(<<"dock", "position">>, <<"bottom", "top", "left", "right">>, "bottom"),
  Choice(<<"dock", "visibility">>, <<"visible", "autohide">>, "visible"),
  Count(<<"dock", "item", "size">>, 48, <<32, 96, 4>>) >>

Launcher == <<
  Choice(<<"launcher", "default", "view">>, <<"grid", "list">>, "grid"),
  Switch(<<"launcher", "show", "categories">>, TRUE),
  Switch(<<"launcher", "search", "enabled">>, TRUE) >>

Input == <<
  Switch(<<"input", "tap", "to", "click">>, TRUE),
  Switch(<<"input", "touch", "enabled">>, TRUE),
  Count(<<"input", "touch", "move", "threshold">>, 10, <<2, 50, 2>>),
  Count(<<"input", "touch", "double", "tap", "timeout">>, 350, <<150, 800, 50>>) >>

Notifications == <<
  Switch(<<"notifications", "enabled">>, TRUE),
  Count(<<"notifications", "popup", "duration", "ms">>, 5000, <<1000, 30000, 1000>>),
  Count(<<"notifications", "max", "visible", "popups">>, 3, <<1, 5, 1>>),
  Switch(<<"notifications", "grouping", "enabled">>, TRUE) >>

SystemUI == <<
  Choice(<<"system", "clock", "format">>, <<"12h", "24h">>, "24h"),
  Switch(<<"system", "show", "seconds">>, FALSE),
  Switch(<<"system", "show", "network">>, TRUE),
  Switch(<<"system", "show", "audio">>, TRUE),
  Switch(<<"system", "show", "battery">>, TRUE),
  Switch(<<"system", "quick", "controls", "enabled">>, TRUE) >>

About == << Line(<<"about", "system", "name">>, "LDDE"),
            Line(<<"about", "version">>, "1.0.0") >>

InCategory(c) ==
  CASE c = "Appearance" -> Appearance [] c = "Display" -> Display
    [] c = "Windows" -> Windows [] c = "Desktop" -> Desktop
    [] c = "Dock" -> Dock [] c = "Launcher" -> Launcher
    [] c = "Input" -> Input [] c = "Notifications" -> Notifications
    [] c = "SystemUI" -> SystemUI [] c = "About" -> About

AllSettings == FlattenSeq([i \in DOMAIN Categories |-> InCategory(Categories[i])])

ASSUME KeysAssumption == Keys \subseteq {AllSettings[i].key : i \in DOMAIN AllSettings}

Find(key) == LET at == CHOOSE i \in DOMAIN AllSettings : AllSettings[i].key = key
             IN  AllSettings[at]

\* The defaults of the configuration that have a setting of the same key.
On == Word("true")
Off == Word("false")
ConfigDefaults == <<
  <<<<"display", "scale", "factor">>, Num(100)>>, <<<<"input", "tap", "to", "click">>, On>>,
  <<<<"input", "touch", "enabled">>, On>>, <<<<"input", "touch", "move", "threshold">>, Num(1000)>>,
  <<<<"input", "touch", "double", "tap", "timeout">>, Num(35000)>>,
  <<<<"launcher", "default", "view">>, Word("grid")>>, <<<<"launcher", "show", "categories">>, On>>,
  <<<<"launcher", "search", "enabled">>, On>>, <<<<"dock", "enabled">>, On>>,
  <<<<"dock", "position">>, Word("bottom")>>, <<<<"dock", "visibility">>, Word("visible")>>,
  <<<<"dock", "item", "size">>, Num(4800)>>, <<<<"desktop", "background", "mode">>, Word("gradient")>>,
  <<<<"desktop", "background", "color">>, Word("#121826")>>,
  <<<<"desktop", "background", "color", "bottom">>, Word("#0a0d14")>>,
  <<<<"desktop", "ambient", "glow">>, On>>, <<<<"desktop", "show", "empty", "hint">>, On>>,
  <<<<"system", "clock", "format">>, Word("24h")>>, <<<<"system", "show", "seconds">>, Off>>,
  <<<<"system", "show", "network">>, On>>, <<<<"system", "show", "audio">>, On>>,
  <<<<"system", "show", "battery">>, On>>, <<<<"system", "quick", "controls", "enabled">>, On>>,
  <<<<"notifications", "enabled">>, On>>, <<<<"notifications", "popup", "duration", "ms">>, Num(500000)>>,
  <<<<"notifications", "max", "visible", "popups">>, Num(300)>>,
  <<<<"notifications", "grouping", "enabled">>, On>> >>

Unset == [none |-> TRUE]
DefaultText(key) ==
  IF \E i \in DOMAIN ConfigDefaults : ConfigDefaults[i][1] = key
  THEN ConfigDefaults[CHOOSE i \in DOMAIN ConfigDefaults : ConfigDefaults[i][1] = key][2]
  ELSE Unset

-----------------------------------------------------------------------------
(* Values and texts. *)

Has(value, field) == field \in DOMAIN value
Truthy == {Word("true"), Num(100), Word("yes"), Word("on")}
Falsy == {Word("false"), Num(0), Word("no"), Word("off")}

\* SettingsValue::to_string: a double keeps two decimals.
Printed(value) ==
  CASE Has(value, "bool") -> IF value.bool THEN On ELSE Off
    [] Has(value, "int") -> Num(100 * value.int)
    [] Has(value, "dbl") -> Num((value.dbl + 5) \div 10)
    [] Has(value, "str") -> Word(value.str)

\* SettingsValue::from_string, as the set of results: empty when the text
\* cannot be read as the type.
Parsed(type, text) ==
  IF Has(text, "none") THEN {} ELSE
  CASE type = "Bool" -> IF text \in Truthy THEN {[bool |-> TRUE]}
                        ELSE IF text \in Falsy THEN {[bool |-> FALSE]} ELSE {}
    [] type = "Int" -> IF Has(text, "num") /\ text.num % 100 = 0
                       THEN {[int |-> text.num \div 100]} ELSE {}
    [] type = "Double" -> IF Has(text, "num") THEN {[dbl |-> 10 * text.num]} ELSE {}
    [] type \in {"String", "Enum"} -> IF Has(text, "word") THEN {[str |-> text.word]} ELSE {}

\* SettingsStore::get outside a transaction.
Read(key, text) ==
  LET def == Find(key)
      parsed == Parsed(def.type, text)
  IN  IF parsed # {} THEN CHOOSE v \in parsed : TRUE ELSE def.default

AsBool(value) ==
  CASE Has(value, "bool") -> {value.bool}
    [] Has(value, "int") -> {value.int # 0}
    [] Has(value, "str") -> {b \in BOOLEAN : Word(value.str) \in IF b THEN Truthy ELSE Falsy}
    [] OTHER -> {}

\* The number of a numeric value: in thousandths for a double.
AsInt(value) ==
  CASE Has(value, "int") -> {value.int}
    [] Has(value, "dbl") -> {value.dbl \div 1000}
    [] Has(value, "bool") -> {IF value.bool THEN 1 ELSE 0}
    [] OTHER -> {}

AsDouble(value) ==
  CASE Has(value, "dbl") -> {value.dbl}
    [] Has(value, "int") -> {1000 * value.int}
    [] OTHER -> {}

HexColors == {"#121826", "#0a0d14", "#4a90e2"}

\* Seeded fault: no upper bound.
ValidatesBelow(def, value) ==
  CASE def.type = "Bool" -> AsBool(value) # {}
    [] def.type = "Int" -> \E n \in AsInt(value) : n >= def.lo
    [] def.type = "Double" -> \E n \in AsDouble(value) : n >= def.lo
    [] OTHER -> TRUE

\* SettingDefinition::validate.
Validates(def, value) ==
  CASE def.type = "Bool" -> AsBool(value) # {}
    [] def.type = "Int" -> \E n \in AsInt(value) : n \in def.lo .. def.hi
    [] def.type = "Double" -> \E n \in AsDouble(value) : n \in def.lo .. def.hi
    [] def.type = "String" -> "color" \in ToSet(def.key) => \E c \in HexColors : value = [str |-> c]
    [] def.type = "Enum" -> \E i \in DOMAIN def.options : value = [str |-> def.options[i]]

(* Keys are unique, each default is valid and survives being printed, and  *)
(* a setting nobody touched reads as the default of the schema whether or  *)
(* not the configuration has a default of its own.                         *)
ASSUME SchemaIsSound ==
  /\ \A i, j \in DOMAIN AllSettings : AllSettings[i].key = AllSettings[j].key => i = j
  /\ \A i \in DOMAIN AllSettings :
       LET def == AllSettings[i] IN
       /\ def.type \in {"Bool", "Int", "Double", "String", "Enum"}
       /\ Validates(def, def.default)
       /\ Parsed(def.type, Printed(def.default)) = {def.default}
       /\ Read(def.key, DefaultText(def.key)) = def.default
  /\ \A i \in DOMAIN ConfigDefaults : \E j \in DOMAIN AllSettings :
       AllSettings[j].key = ConfigDefaults[i][1]
=============================================================================
