------------------------------- MODULE MCPanelParts -------------------------------
(***************************************************************************)
(* Five parts of the component that share no state, checked side by side:  *)
(* the part that runs is chosen at the start, the others stay as they are. *)
(***************************************************************************)
EXTENDS PanelSettings, Preprocessor, DropTarget, DelayLoader, ScriptApi

VARIABLE part

vars == <<part, settingsVars, preprocessorVars, dropVars, delayVars, apiVars>>

-----------------------------------------------------------------------------
(* Values of properties *)

CONSTANTS plain, withNul

\* The string plain, and the one that has a NUL and more behind it.
MCUtf8 == [string \in {plain, withNul} |-> plain]

-----------------------------------------------------------------------------
(* Scripts for the preprocessor *)

UpTo(n, tokens) == UNION {[1 .. m -> tokens] : m \in 0 .. n}

\* Markers, line ends and whole directives in any order.
Blocks ==
    {FlattenSeq(s) :
        s \in UpTo(6, {<<"BEGIN">>, <<"END">>, <<"newline">>,
                       <<"//", "@import", "quote", "a", "quote">>})}

InBlock(line) == <<"BEGIN", "newline", "space">> \o line \o <<"newline", "END">>

\* One line of any tokens behind the slashes.
Lines == {InBlock(<<"//">> \o s) : s \in UpTo(5, {"quote", "@import", "@name", "space"})}

\* Spaces and apostrophes at every place of a line with a directive.
Indented ==
    {InBlock(s[1] \o <<"//">> \o s[2] \o <<"@import">> \o s[3] \o <<"quote", "a", "quote">>) :
        s \in [1 .. 3 -> UpTo(2, {"space", "apostrophe"})]}

\* One import of any path.
Paths == {InBlock(<<"//", "@import", "space", "quote">> \o s) : s \in UpTo(6, {"quote", "%", "a", "b"})}

MCScripts == Blocks \cup Lines \cup Indented \cup Paths

MCVariable == <<"a", "b">>
MCExpansion == <<"x", "y">>

-----------------------------------------------------------------------------
(* Calls of the script API *)

\* Lists that Sort() made, and short ones of any order.
ListCalls ==
    LET sorted == {Sorted(s) : s \in SUBSET (1 .. 4)}
        short  == UpTo(3, 1 .. 3)
    IN  [op : ListCall, one : sorted, two : sorted] \cup [op : ListCall, one : short, two : short]

\* A wide and a narrow letter, and a sign that is neither letter nor punctuation.
MCWidth == [c \in {"a", "W", "sign", "blank", "dot", "LF", "CR"} |->
               CASE c = "W" -> 3 [] c = "sign" -> 2 [] OTHER -> 1]

\* Short texts of all characters, longer ones of some.
Texts ==
    UpTo(4, {"a", "W", "blank", "dot", "LF", "CR"}) \cup UpTo(6, {"a", "W", "blank"})
        \cup UpTo(4, {"a", "sign", "dot"})

MCCalls == ListCalls \cup [op : {"EstimateLineWrap"}, text : Texts, width : 0 .. 5]

NoCall == [op |-> "MakeUnion", one |-> <<>>, two |-> <<>>]

-----------------------------------------------------------------------------
Init ==
    /\ part \in {"settings", "preprocessor", "drop target", "messages", "api"}
    /\ part = "settings" \/ (part # "settings" /\ defaultUI = TRUE)
    /\ part = "preprocessor" \/ (part # "preprocessor" /\ script = <<>>)
    /\ part = "api" \/ (part # "api" /\ call = NoCall)
    /\ SettingsInit /\ PreprocessorInit /\ DropInit /\ DelayInit /\ ApiInit

Next ==
    /\ UNCHANGED part
    /\ \/ /\ part = "settings" /\ SettingsNext
          /\ UNCHANGED <<preprocessorVars, dropVars, delayVars, apiVars>>
       \/ /\ part = "preprocessor" /\ PreprocessorNext
          /\ UNCHANGED <<settingsVars, dropVars, delayVars, apiVars>>
       \/ /\ part = "drop target" /\ DropNext
          /\ UNCHANGED <<settingsVars, preprocessorVars, delayVars, apiVars>>
       \/ /\ part = "messages" /\ DelayNext
          /\ UNCHANGED <<settingsVars, preprocessorVars, dropVars, apiVars>>
       \/ /\ part = "api" /\ ApiNext
          /\ UNCHANGED <<settingsVars, preprocessorVars, dropVars, delayVars>>

Spec == Init /\ [][Next]_vars
=============================================================================
