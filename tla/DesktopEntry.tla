---------------------------- MODULE DesktopEntry -----------------------------
(***************************************************************************)
(* What a desktop file says: from its lines to the application's metadata,  *)
(* its visibility, its categories and its rank in a search.                 *)
(*                                                                          *)
(* A line is a record: a group header, a value, or anything else (comments, *)
(* blank and malformed lines).  A text is the sequence of the items that    *)
(* semicolons part, so that <<>> is the empty text and a plain string is a  *)
(* sequence of one; raw categories and booleans are written in lower case.  *)
(* A locale is <<language, territory, modifier>>, with "" for what is       *)
(* missing.  How a text matches what was typed is given by a constant.      *)
(***************************************************************************)
EXTENDS Integers, Sequences, SequencesExt

CONSTANTS
  Locale,  \* of the session
  Desktop, \* the desktop's name, "" for any
  MatchOf  \* [text, number of letters typed] -> "equal", "prefix", "word", "inside" or "none"

NoText == <<>>
Untranslated == <<"", "", "">>
EntryGroup == "Desktop Entry"

Header(group) == [kind |-> "group", name |-> group]
Value(key, text) == [kind |-> "value", key |-> key, locale |-> Untranslated, text |-> text]
Translation(key, locale, text) == [kind |-> "value", key |-> key, locale |-> locale, text |-> text]

-----------------------------------------------------------------------------
(* DesktopEntryParser::parse.  An entry maps group, key and locale to a text. *)

Nowhere == ""

\* A value before the first header, or below an empty one, is skipped; of two
\* values for the same key the last one counts.
ParseLine(p, line) ==
  CASE line.kind = "group" -> [p EXCEPT !.group = line.name]
    [] line.kind = "value" /\ p.group # Nowhere ->
         [p EXCEPT !.entry = (<<p.group, line.key, line.locale>> :> line.text) @@ @]
    [] OTHER -> p

Parse(lines) ==
  FoldLeft(ParseLine, [group |-> Nowhere, entry |-> [k \in {} |-> NoText]], lines).entry

HasGroup(e, group) == \E k \in DOMAIN e : k[1] = group

\* generate_locale_candidates
Candidates(locale) ==
  LET lang == locale[1]  country == locale[2]  modifier == locale[3]
      If(b, tag) == IF b THEN <<tag>> ELSE <<>>
  IN  If(lang # "" /\ country # "" /\ modifier # "", <<lang, country, modifier>>)
        \o If(lang # "" /\ country # "", <<lang, country, "">>)
        \o If(lang # "" /\ modifier # "", <<lang, "", modifier>>)
        \o If(lang # "", <<lang, "", "">>)
        \o <<Untranslated>>

\* get_localized_string: the first candidate that says something.
Localized(e, group, key, locale) ==
  LET Says(tag) == <<group, key, tag>> \in DOMAIN e /\ e[<<group, key, tag>>] # NoText
      tags == SelectSeq(Candidates(locale), Says)
  IN  IF tags = <<>> THEN NoText ELSE e[<<group, key, Head(tags)>>]

Text(e, key) == Localized(e, EntryGroup, key, Untranslated)

\* get_bool, with FALSE for what is missing or is neither.
Truth(e, key) == Text(e, key) \in {<<"true">>, <<"1">>}

\* is_valid_application
Valid(e) ==
  /\ HasGroup(e, EntryGroup)
  /\ Text(e, "Type") = <<"Application">>
  /\ Text(e, "Name") # NoText
  /\ Text(e, "Exec") # NoText

-----------------------------------------------------------------------------
(* ApplicationMetadata                                                       *)

\* from_desktop_entry
Metadata(e) ==
  [name |-> Localized(e, EntryGroup, "Name", Locale),
   generic |-> Localized(e, EntryGroup, "GenericName", Locale),
   comment |-> Localized(e, EntryGroup, "Comment", Locale),
   keywords |-> Text(e, "Keywords"),
   categories |-> Text(e, "Categories"),
   terminal |-> Truth(e, "Terminal"),
   concealed |-> Truth(e, "Hidden") \/ Truth(e, "NoDisplay"),
   only |-> Text(e, "OnlyShowIn"),
   not |-> Text(e, "NotShowIn")]

\* is_visible_in_desktop and is_visible_to_user
VisibleInDesktop(m) ==
  \/ Desktop = ""
  \/ /\ m.only = <<>> \/ Desktop \in Range(m.only)
     /\ Desktop \notin Range(m.not)
VisibleToUser(m) == ~m.concealed /\ VisibleInDesktop(m)

-----------------------------------------------------------------------------
(* LauncherCategory                                                          *)

All == "All"
Other == "Other"

Synonyms ==
  [Development |-> {"development", "ide", "debugger", "building", "translation"},
   Education |-> {"education", "teaching", "languages"},
   Game |-> {"game", "games", "arcadegame", "actiongame", "boardgame"},
   Graphics |-> {"graphics", "rastergraphics", "vectorgraphics", "photography", "2dgraphics", "3dgraphics"},
   Network |-> {"network", "webbrowser", "email", "chat", "feed", "filetransfer"},
   AudioVideo |-> {"audio", "video", "audiovideo", "player", "recorder", "music"},
   Office |-> {"office", "wordprocessor", "spreadsheet", "presentation"},
   Science |-> {"science", "math", "astronomy", "chemistry", "physics"},
   Settings |-> {"settings", "desktopsettings", "hardwaresettings"},
   System |-> {"system", "terminalemulator", "filemanager", "monitor", "security"},
   Utility |-> {"utility", "utilities", "texteditor", "calculator", "archiving", "compression"}]

\* standard_category_ids
StandardCategories ==
  <<All, "Development", "Education", "Game", "Graphics", "Network", "AudioVideo", "Office",
    "Science", "Settings", "System", "Utility", Other>>

\* canonicalize_category
Canonical(raw) ==
  IF \E k \in DOMAIN Synonyms : raw \in Synonyms[k]
  THEN CHOOSE k \in DOMAIN Synonyms : raw \in Synonyms[k] ELSE raw

\* matches_category
MatchesCategory(m, k) ==
  LET canonical == {Canonical(raw) : raw \in Range(m.categories)}
  IN  \/ k = All
      \/ k = Other /\ canonical \cap DOMAIN Synonyms = {}
      \/ k # Other /\ k \in canonical

-----------------------------------------------------------------------------
(* LauncherSearch::score_match                                               *)

\* The points of a match in each field; a field does not look at word starts
\* but for the name.
Points(equal, prefix, word, inside, kind) ==
  CASE kind = "equal" -> equal [] kind = "prefix" -> prefix
    [] kind = "word" -> word [] kind = "inside" -> inside [] OTHER -> 0

\* The best field counts.
ScoreMatch(m, n) ==
  LET Of(text) == MatchOf[<<text, n>>]
      scores == {Points(1000, 800, 700, 600, Of(m.name)), Points(550, 500, 400, 400, Of(m.generic)),
                 Points(100, 100, 100, 100, Of(m.comment))}
                \cup {Points(350, 300, 250, 250, Of(<<k>>)) : k \in Range(m.keywords)}
                \cup {Points(200, 200, 200, 200, Of(<<k>>)) : k \in Range(m.categories)}
  IN  CHOOSE x \in scores : \A y \in scores : y <= x
=============================================================================
