------------------------------- MODULE Settings -------------------------------
(***************************************************************************)
(* Brawler::SettingsManager and its INIManager: the settings of the engine   *)
(* are loaded when a program starts, from the first of three places in which *)
(* there is a file with some, and saved in the first of them that there is   *)
(* when it ends.  Users edit the files, programs are killed.                 *)
(*                                                                         *)
(* A file is the tokens the parser makes of it, whose values are numbers;    *)
(* those of floats count tenths of the last place that is printed (the second *)
(* here, the sixth of std::to_string).                                       *)
(***************************************************************************)
EXTENDS Naturals, Sequences, SequencesExt

CONSTANTS DefaultVal,     \* of each setting, in the order of a std::map
          Type,           \* of each: "bool", "unsigned" or "float"
          Inputs,         \* of each: what SetOption is called with
          Edits,          \* the texts that users write
          MaxDisturbances \* bound: edits, changes of the places, and kills

VARIABLES files,         \* by place, the last being the current directory
          available,     \* the places there are
          phase, mSettingMap,
          disturbances,
          kept           \* history: what the next program should find, if undisturbed

settingsVars == <<files, available, phase, mSettingMap, disturbances, kept>>

Places == 1 .. 3
Settings == DOMAIN DefaultVal
NoFile == <<>>
Nobody == <<>>

-----------------------------------------------------------------------------
(* Tokens. *)

Mark(text) == [is |-> "mark", text |-> text, value |-> 0]
Word(text) == [is |-> "word", text |-> text, value |-> 0]
Integer(n) == [is |-> "integer", text |-> "", value |-> n]
Float(n)   == [is |-> "float", text |-> "", value |-> n]
Negative(number) == [number EXCEPT !.text = "-"]

IsNumber(t) == t.is \in {"integer", "float"}
Known(t) == IsNumber(t) \/ t \in {Word("TRUE"), Word("FALSE")}

\* AddConfigOption.
Rounded(n) == ((n + 5) \div 10) * 10
Printed(s, v) ==
    CASE Type[s] = "bool"  -> Word(IF v = 1 THEN "TRUE" ELSE "FALSE")
      [] Type[s] = "float" -> Float(Rounded(v))
      [] OTHER             -> Integer(v)

\* GetConfigOption, of an option that was found: a negative one is none where it is
\* unsigned; every other number is converted.
Throws(s, t) == Type[s] # "bool" /\ ~ IsNumber(t)
Options(s, t) ==
    LET one == 1000
    IN  CASE Type[s] = "bool" -> {IF t = Word("TRUE") THEN 1 ELSE 0}
          [] Type[s] = "unsigned" /\ t.text = "-" -> {}
          [] Type[s] = "unsigned" /\ t.is = "float" -> {t.value \div one}
          [] Type[s] = "float" /\ t.is = "integer" -> {t.value * one}
          [] OTHER -> {t.value}

-----------------------------------------------------------------------------
(* INIManager. *)

\* What INIParser does with the next token, by what it expects.  The rest of a text is
\* dropped at the first that is wrong, but for a header where a setting has begun.
NextToken(p, t) ==
    LET Then(expects) == [p EXCEPT !.expects = expects]
        Recover == Then(IF t = Mark("[") THEN "ID" ELSE "nothing")
    IN  CASE p.expects = "[" -> Recover
          [] p.expects = "ID" ->
                IF t.is = "word" THEN [Then("]") EXCEPT !.header = t.text]
                ELSE IF t = Mark("]") THEN [Then("setting") EXCEPT !.header = ""]
                ELSE Then("nothing")
          [] p.expects = "]" -> Then(IF t = Mark("]") THEN "setting" ELSE "nothing")
          [] p.expects = "setting" ->
                IF t.is = "word" THEN [Then("=") EXCEPT !.name = t.text]
                ELSE IF t = Mark("=") THEN [Then("value") EXCEPT !.name = ""]
                ELSE Recover
          [] p.expects = "=" -> IF t = Mark("=") THEN Then("value") ELSE Recover
          [] p.expects = "value" ->
                IF Known(t)
                THEN [Then("setting") EXCEPT
                         !.options = Append(@, [header |-> p.header, name |-> p.name, value |-> t])]
                ELSE Recover
          [] OTHER -> p

\* mSettingHeaderMap, in which the last of several values stays.
Parse(text) ==
    FoldLeft(NextToken, [expects |-> "[", header |-> "", name |-> "", options |-> <<>>],
             text).options
Found(text, name) ==
    LET options == SelectSeq(Parse(text), LAMBDA o : o.header = "Video" /\ o.name = name)
    IN  IF options = <<>> THEN {} ELSE {Last(options).value}

\* SaveToFile.
Text(map) ==
    FoldLeft(LAMBDA text, s :
                 text \o <<Word(DefaultVal[s].name), Mark("="), Printed(s, map[s])>>,
             <<Mark("["), Word("Video"), Mark("]")>>, [s \in Settings |-> s])

-----------------------------------------------------------------------------
(* SettingsManager. *)

RestoreDefaultSettings == [s \in Settings |-> DefaultVal[s].value]

LoadFromFile(place) == Parse(files[place]) # <<>>
Loaded == SelectSeq(<<1, 2, 3>>, LAMBDA place : place \in available /\ LoadFromFile(place))

\* A mutant: the defaults are restored after that.
LoadThenRestore == [s \in Settings |-> DefaultVal[s].value]
LoadConfigurationFile ==
    IF Loaded = <<>> THEN RestoreDefaultSettings
    ELSE [s \in Settings |->
             LET options == UNION {Options(s, t) : t \in Found(files[Head(Loaded)],
                                                               DefaultVal[s].name)}
             IN  IF options = {} THEN RestoreDefaultSettings[s] ELSE CHOOSE v \in options : TRUE]

\* A word where there should be a number: std::stoull throws, and there is no program.
CannotLoad ==
    Loaded # <<>> /\ \E s \in Settings :
        \E t \in Found(files[Head(Loaded)], DefaultVal[s].name) : Throws(s, t)

Initialize ==
    /\ phase = "off" /\ ~ CannotLoad
    /\ phase' = "running" /\ mSettingMap' = LoadConfigurationFile
    /\ UNCHANGED <<files, available, disturbances, kept>>

SetOption(s) ==
    /\ phase = "running"
    /\ \E v \in Inputs[s] : mSettingMap' = [mSettingMap EXCEPT ![s] = v]
    /\ UNCHANGED <<files, available, phase, disturbances, kept>>

SavePlace == Head(SelectSeq(<<1, 2, 3>>, LAMBDA place : place \in available))

\* SaveConfigurationFile: the std::ofstream makes the file empty before it is written.
BeginSaving ==
    /\ phase = "running" /\ phase' = "saving"
    /\ files' = [files EXCEPT ![SavePlace] = NoFile]
    /\ kept' = Nobody
    /\ UNCHANGED <<available, mSettingMap, disturbances>>

EndSaving ==
    /\ phase = "saving" /\ phase' = "off"
    /\ files' = [files EXCEPT ![SavePlace] = Text(mSettingMap)]
    /\ kept' = mSettingMap
    /\ mSettingMap' = Nobody
    /\ UNCHANGED <<available, disturbances>>

-----------------------------------------------------------------------------
(* What else happens. *)

Disturb == disturbances < MaxDisturbances /\ disturbances' = disturbances + 1

\* Of the text some of the first tokens are in the file, and of a number the first
\* digits.
Cut(t) == IF IsNumber(t) /\ t.value >= 10 THEN {t, Integer(t.value \div 10)} ELSE {t}
Kill ==
    /\ Disturb
    /\ phase # "off" /\ phase' = "off" /\ mSettingMap' = Nobody
    /\ \/ UNCHANGED files
       \/ /\ phase = "saving"
          /\ \E k \in 1 .. Len(Text(mSettingMap)) : \E last \in Cut(Text(mSettingMap)[k]) :
                files' = [files EXCEPT ![SavePlace] =
                             Append(SubSeq(Text(mSettingMap), 1, k - 1), last)]
    /\ UNCHANGED <<available, kept>>

Edit ==
    /\ Disturb
    /\ phase = "off" /\ kept' = Nobody
    /\ \E place \in Places, text \in Edits : files' = [files EXCEPT ![place] = text]
    /\ UNCHANGED <<available, phase, mSettingMap>>

ChangePlaces ==
    /\ Disturb
    /\ phase = "off" /\ kept' = Nobody
    /\ \E places \in SUBSET {1, 2} : available' = places \cup {3}
    /\ UNCHANGED <<files, phase, mSettingMap>>

SettingsInit ==
    /\ files = [place \in Places |-> NoFile] /\ available = Places
    /\ phase = "off" /\ mSettingMap = Nobody /\ disturbances = 0 /\ kept = Nobody

SettingsNext ==
    \/ Initialize \/ (\E s \in Settings : SetOption(s)) \/ BeginSaving \/ EndSaving
    \/ Kill \/ Edit \/ ChangePlaces

-----------------------------------------------------------------------------
Shown(map) == [s \in Settings |-> IF Type[s] = "float" THEN Rounded(map[s]) ELSE map[s]]

\* What a program had set when it ended, the next one starts with, but for the float's
\* places that are not printed; and it starts if that one did, whatever there was in
\* the files before (SettingsManager::~SettingsManager, LoadConfigurationFile).
ComeBack ==
    [][kept # Nobody /\ phase = "off" =>
          /\ ~ CannotLoad
          /\ phase' = "running" => mSettingMap' = Shown(kept)]_settingsVars
=============================================================================
