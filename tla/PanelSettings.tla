------------------------------ MODULE PanelSettings ------------------------------
(***************************************************************************)
(* The settings of one panel (src/src/config.cpp): the properties of its   *)
(* script and the script's text, who changes them, and what of them        *)
(* survives being saved and loaded.                                        *)
(*                                                                         *)
(* Three parties write.  The script calls window.SetProperty whenever it   *)
(* runs, also while a dialog is open and while it is being unloaded.  The  *)
(* user edits a copy of the properties (ui_property.cpp) or of the text    *)
(* (ui_conf.cpp) in a modal dialog, of which there is one at a time, and   *)
(* applies it.  The player loads a configuration, before the window exists *)
(* or, in the default user interface, under a running script.              *)
(*                                                                         *)
(* A property is absent or has a value; values fall into types, and those  *)
(* in Odd are of a type that g_is_allowed_type refuses.  What is saved of  *)
(* a value is its UTF-8 form, which for a string with an embedded NUL or a *)
(* lone surrogate is that of another string.  The guid and the window      *)
(* placement are fields of the saved form only.                            *)
(***************************************************************************)
EXTENDS Naturals, Sequences

CONSTANTS Key, Types, Odd, Absent,  \* properties and their values
          Utf8,                     \* the value that is read of the bytes written for a value
          Code, DefaultCode,        \* texts, among them the one in the resources
          NoScript, NothingSaved

Good  == UNION Types
Value == Good \cup Odd
Map   == [Key -> Value \cup {Absent}]
WholeMap == [Key -> Good \cup {Absent}]

ASSUME SettingsAssumption ==
    /\ Absent \notin Value /\ Good \cap Odd = {}
    /\ Utf8 \in [Good -> Good] /\ \A type \in Types : \A v \in type : Utf8[v] \in type
    /\ DefaultCode \in Code /\ NoScript \notin Code
    /\ NothingSaved \notin [props : Map, code : Code, transparent : BOOLEAN]

VARIABLES
    defaultUI,    \* the host is the default user interface, not Columns UI
    props,        \* m_config_prop
    code,         \* m_script_code
    transparent,  \* m_pseudo_transparent
    running,      \* the text the running script was loaded from
    phase,        \* "new" before the window exists, "idle", or "updating" (update_script)
    dialog,       \* the open dialog, and whether its Apply waits for update_script
    copy,         \* m_dup_prop_map of the properties dialog
    text, box,    \* the editor's text and the check box of the configuration dialog
    saved,        \* the panel as it was when the player saved it
    (* history *)
    edited,       \* properties the user changed in the copy
    behind,       \* properties changed in the panel since the copy was made
    given,        \* each property's value as it was last given by anyone
    clobbered,    \* properties where Apply put an old value over a newer one
    foreign       \* a file with a value of an odd type was imported

panelVars  == <<props, code, transparent, running, phase>>
dialogVars == <<dialog, copy, text, box>>
settingsHistory == <<edited, behind, given, clobbered, foreign>>
settingsVars == <<defaultUI, panelVars, dialogVars, saved, settingsHistory>>

Empty == [k \in Key |-> Absent]
Closed == [is |-> "none", applying |-> "no"]
Opened(is) == [is |-> is, applying |-> "no"]

SettingsInit ==
    /\ defaultUI \in BOOLEAN
    /\ props = Empty /\ code = DefaultCode /\ transparent = FALSE
    /\ running = NoScript /\ phase = "new"
    /\ dialog = Closed /\ copy = Empty /\ text = DefaultCode /\ box = FALSE
    /\ saved = NothingSaved
    /\ edited = {} /\ behind = {} /\ given = Empty /\ clobbered = {} /\ foreign = FALSE

Idle == phase = "idle"
InDialog(is) == Idle /\ dialog = Opened(is)

-----------------------------------------------------------------------------
(* The map of properties *)

\* Mutant: a value of any type is stored.
StoredAnything(m, k, v) == [m EXCEPT ![k] = v]

\* prop_kv_config::set_config_item
Stored(m, k, v) == [m EXCEPT ![k] = IF v \in Good THEN v ELSE Absent]

\* FbWindow::GetProperty: get_config_item gives a value of an allowed type; else the
\* default is stored.
Fetched(m, k, default) == IF m[k] \in Good THEN m ELSE Stored(m, k, default)

\* The part of a map that is read before a read error, in an unknown order of the keys.
PartsOf(m) == {part \in Map : \A k \in Key : part[k] \in {m[k], Absent}}

\* Mutant: strings are written without their text.
NothingWritten(v) == v = Absent

\* g_save writes a value, and not only its key and type.
WrittenWhole(v) == v \in Good \cup {Absent}

\* g_load reads a value for every key, so a missing one garbles all that follows.
LegibleMap(m) == \A k \in Key : WrittenWhole(m[k])

\* What a legible map is once written and read: string_utf8_from_wide takes a BSTR up to
\* its first NUL and has no code for a lone surrogate.
Written(m) == [k \in Key |-> IF m[k] = Absent THEN Absent ELSE Utf8[m[k]]]

-----------------------------------------------------------------------------
(* The script *)

\* A script is there to call SetProperty: on its callbacks, in its top-level code, or
\* in on_script_unload.
ScriptRuns == phase = "updating" \/ running # NoScript

\* The panel's map becomes m, by someone else than the dialog.
Write(m) ==
    LET changed == {k \in Key : m[k] # props[k]}
    IN  /\ props' = m
        /\ given' = [k \in Key |-> IF k \in changed THEN m[k] ELSE given[k]]
        /\ clobbered' = clobbered \ changed
        /\ behind' = IF dialog.is = "properties" THEN behind \cup changed ELSE behind

SetProperty(k, v) ==
    /\ ScriptRuns
    /\ Write(Stored(props, k, v))
    /\ UNCHANGED <<defaultUI, code, transparent, running, phase, dialogVars, saved, edited, foreign>>

GetProperty(k, default) ==
    /\ ScriptRuns
    /\ Write(Fetched(props, k, default))
    /\ UNCHANGED <<defaultUI, code, transparent, running, phase, dialogVars, saved, edited, foreign>>

\* WM_CREATE; or update_script for window.Reload, the menu, a new theme.
LoadScript ==
    /\ phase \in {"new", "idle"}
    /\ phase' = "updating"
    /\ UNCHANGED <<defaultUI, props, code, transparent, running, dialogVars, saved, settingsHistory>>

\* A script error unloads the script.
ScriptFails ==
    /\ Idle /\ running # NoScript
    /\ running' = NoScript
    /\ UNCHANGED <<defaultUI, props, code, transparent, phase, dialogVars, saved, settingsHistory>>

\* Mutant: Apply goes on with the copy it had.
KeptCopy == copy

\* LoadProperties after Apply; the exception that it may end in, of a value that has no
\* string form, is not modelled.
Reloaded == props

\* update_script returns, to the dialog if its Apply waits for that.
UpdateEnds ==
    /\ phase = "updating"
    /\ phase' = "idle"
    /\ running' \in {code, NoScript}
    /\ dialog' = IF dialog.applying = "close" THEN Closed ELSE [dialog EXCEPT !.applying = "no"]
    /\ IF dialog.is = "properties" /\ dialog.applying # "no"
       THEN /\ copy' = IF dialog.applying = "close" THEN Empty ELSE Reloaded
            /\ behind' = {}
       ELSE UNCHANGED <<copy, behind>>
    /\ IF dialog.is = "configure" /\ dialog.applying = "close"
       THEN text' = DefaultCode /\ box' = FALSE
       ELSE UNCHANGED <<text, box>>
    /\ UNCHANGED <<defaultUI, props, code, transparent, saved, edited, given, clobbered, foreign>>

-----------------------------------------------------------------------------
(* The properties dialog *)

\* show_property_popup: modal_dialog_scope allows one dialog.
ShowProperties ==
    /\ Idle /\ dialog = Closed
    /\ dialog' = Opened("properties")
    /\ copy' = props
    /\ UNCHANGED <<defaultUI, panelVars, text, box, saved, settingsHistory>>

\* The user's copy becomes m, in the properties named.
Edit(m, which) ==
    /\ InDialog("properties")
    /\ copy' = m
    /\ edited' = edited \cup which
    /\ UNCHANGED <<defaultUI, panelVars, dialog, text, box, saved, behind, given, clobbered>>

\* OnPinItemChanged converts what was typed to the type the property has.  What cannot be
\* converted ends in the exception of ChangeType, which is not modelled.
ChangeItem(k, v) ==
    /\ \E type \in Types : {copy[k], v} \subseteq type
    /\ Edit([copy EXCEPT ![k] = v], {k})
    /\ UNCHANGED foreign

\* OnDelBnClicked
DeleteItem(k) ==
    /\ copy[k] # Absent
    /\ Edit([copy EXCEPT ![k] = Absent], {k})
    /\ UNCHANGED foreign

\* OnClearallBnClicked
ClearAll == Edit(Empty, Key) /\ UNCHANGED foreign

\* OnImportBnClicked: any file can be chosen, also one that was not written to its end.
Import(m) ==
    /\ Edit(m, Key)
    /\ foreign' = (foreign \/ \E k \in Key : m[k] \in Odd)

\* Mutant: what the user changed stays in the dialog.
NotCopied == props

\* Apply copies the whole map back.
CopiedBack == copy

\* IDAPPLY, and IDOK, which closes the dialog after it.
ApplyProperties(then) ==
    /\ InDialog("properties")
    /\ props' = CopiedBack
    /\ phase' = "updating"
    /\ dialog' = [dialog EXCEPT !.applying = then]
    /\ given' = [k \in Key |-> IF k \in edited THEN copy[k] ELSE given[k]]
    /\ clobbered' = (clobbered \cup behind) \ edited
    /\ edited' = {} /\ behind' = {}
    /\ UNCHANGED <<defaultUI, code, transparent, running, copy, text, box, saved, foreign>>

\* IDCANCEL
CloseProperties ==
    /\ InDialog("properties")
    /\ dialog' = Closed /\ copy' = Empty /\ edited' = {} /\ behind' = {}
    /\ UNCHANGED <<defaultUI, panelVars, text, box, saved, given, clobbered, foreign>>

-----------------------------------------------------------------------------
(* The configuration dialog *)

\* show_configure_popup; the check box is there in Columns UI only.
ShowConfigure ==
    /\ Idle /\ dialog = Closed
    /\ dialog' = Opened("configure")
    /\ text' = code /\ box' = (transparent /\ ~defaultUI)
    /\ UNCHANGED <<defaultUI, panelVars, copy, saved, settingsHistory>>

\* Typing, importing a file, Reset Default and Reset Current; the check box.
EditText(c, b) ==
    /\ InDialog("configure")
    /\ b => ~defaultUI
    /\ text' = c /\ box' = b
    /\ UNCHANGED <<defaultUI, panelVars, dialog, copy, saved, settingsHistory>>

\* CDialogConf::Apply, for OK, Apply, Ctrl+S, and Cancel when the user says to apply.
ApplyText(then) ==
    /\ InDialog("configure")
    /\ transparent' = box /\ code' = text
    /\ phase' = "updating"
    /\ dialog' = [dialog EXCEPT !.applying = then]
    /\ UNCHANGED <<defaultUI, props, running, copy, text, box, saved, settingsHistory>>

CloseConfigure ==
    /\ InDialog("configure")
    /\ dialog' = Closed /\ text' = DefaultCode /\ box' = FALSE
    /\ UNCHANGED <<defaultUI, panelVars, copy, saved, settingsHistory>>

-----------------------------------------------------------------------------
(* Saving and loading *)

\* save_config writes the fields, and load_config reads them, in this order.
SaveOrder == <<"guid", "props", "wndpl", "code", "transparent">>

LoadOrder == <<"guid", "props", "wndpl", "code", "transparent">>

Fields == 1 .. Len(LoadOrder)
Intact == Len(LoadOrder) + 1
NoData == 0

\* get_config, get_configuration
Save ==
    /\ saved' = [props |-> props, code |-> code, transparent |-> transparent]
    /\ UNCHANGED <<defaultUI, panelVars, dialogVars, settingsHistory>>

\* What was saved can be told apart field by field.
Legible == SaveOrder = LoadOrder /\ LegibleMap(saved.props)

\* Mutant: every read error is swallowed.
NoErrorSeen(cut) == FALSE

\* g_load swallows its read error; any other field's resets the settings.
ReadFails(cut) == \E n \in Fields : n >= cut /\ LoadOrder[n] # "props"

PropsField == CHOOSE n \in Fields : LoadOrder[n] = "props"

\* The maps that load_config may leave when the data ends in field number cut.
LoadedProps(cut) ==
    CASE cut < PropsField -> {props}
      [] cut >= PropsField /\ ~Legible -> Map
      [] cut = PropsField /\ Legible -> PartsOf(Written(saved.props))
      [] cut > PropsField /\ Legible -> {Written(saved.props)}

\* Mutant: a panel that has a window keeps its script.
NeverUpdates == UNCHANGED phase

\* js_panel_window_dui::set_configuration updates a panel that has its window.
UpdatesScript == phase' = IF phase = "new" THEN phase ELSE "updating"

\* set_config, which Columns UI calls before the window exists only; set_configuration.
Load(cut) ==
    /\ phase = "new" \/ (Idle /\ defaultUI)
    /\ saved # NothingSaved
    /\ \E m \in LoadedProps(cut) : Write(m)
    /\ IF cut = NoData \/ ReadFails(cut)
       THEN code' = DefaultCode /\ transparent' = FALSE
       ELSE IF Legible
            THEN code' = saved.code /\ transparent' = saved.transparent
            ELSE code' \in Code /\ transparent' \in BOOLEAN
    /\ UpdatesScript
    /\ UNCHANGED <<defaultUI, running, dialogVars, saved, edited, foreign>>

-----------------------------------------------------------------------------
SettingsNext ==
    \/ \E k \in Key, v \in Value : SetProperty(k, v) \/ GetProperty(k, v) \/ ChangeItem(k, v)
    \/ LoadScript \/ ScriptFails \/ UpdateEnds
    \/ ShowProperties \/ ClearAll \/ CloseProperties
    \/ \E k \in Key : DeleteItem(k)
    \/ \E m \in Map : Import(m)
    \/ \E then \in {"stay", "close"} : ApplyProperties(then) \/ ApplyText(then)
    \/ ShowConfigure \/ CloseConfigure
    \/ \E c \in Code, b \in BOOLEAN : EditText(c, b)
    \/ Save
    \/ \E cut \in NoData .. Intact : Load(cut)

SettingsSpec == SettingsInit /\ [][SettingsNext]_settingsVars

-----------------------------------------------------------------------------
(* Properties *)

\* Types; and no value of an odd type is anywhere, in the panel, the dialog or what is
\* saved, whatever scripts pass to SetProperty, unless it was imported.
SettingsTypeOK ==
    /\ defaultUI \in BOOLEAN /\ foreign \in BOOLEAN
    /\ code \in Code /\ text \in Code /\ {transparent, box} \subseteq BOOLEAN
    /\ running \in Code \cup {NoScript} /\ phase \in {"new", "idle", "updating"}
    /\ dialog \in [is : {"none", "properties", "configure"}, applying : {"no", "stay", "close"}]
    /\ {props, copy, given} \subseteq Map
    /\ saved \in [props : Map, code : Code, transparent : BOOLEAN] \cup {NothingSaved}
    /\ {edited, behind, clobbered} \subseteq SUBSET Key
    /\ ~foreign =>
           /\ {props, copy} \subseteq WholeMap
           /\ saved # NothingSaved => saved.props \in WholeMap

\* The properties dialog shows what the panel has, but for what the user changed in it
\* and what was written behind it; also after Apply, while the script that was unloaded
\* and the one that was loaded wrote properties (CDialogProperty::Apply).
DialogShowsPanel ==
    dialog = Opened("properties") =>
        \A k \in Key \ (edited \cup behind) : copy[k] = props[k]

\* A property has the value that a script, the user or a loaded configuration gave it
\* last: the user's change counts from Apply on, and may be overwritten by the script in
\* its on_script_unload.  An update is lost only if a script made it behind the open
\* dialog and the user did not touch the property (ui_property.cpp, Apply).
UpdatesKept == \A k \in Key \ clobbered : props[k] = given[k]

\* Between updates, the script that runs is the one that would be saved, whoever replaced
\* the text: the dialog, or the player under the running script (set_configuration).
RunningIsSaved == Idle => running \in {code, NoScript}

\* A configuration that is loaded whole is what the panel had when it was saved, text,
\* setting and properties, whatever types of values scripts stored before: a property that
\* was not there is not there, one that UTF-8 carries has its value, and a string it does
\* not carry comes back as another string, without harm to what is read after it (g_save,
\* g_load, set_config_item).
SavedIsReadBack ==
    [][Load(Intact) /\ ~foreign =>
          /\ code' = saved.code /\ transparent' = saved.transparent
          /\ \A k \in Key :
                 LET was == saved.props[k]
                 IN  /\ was = Absent <=> props'[k] = Absent
                     /\ was \in Good /\ Utf8[was] = was => props'[k] = was
                     /\ \A type \in Types : was \in type => props'[k] \in type]_settingsVars

\* When the data ends early, the script is never loaded with some of its properties
\* missing or without its setting: either all is as it was written, or text and setting
\* are those of a new panel, although g_load does not report its error (load_config).
NoHalfLoad ==
    [][(\E cut \in NoData .. Intact : Load(cut)) /\ Legible =>
          \/ /\ props' = Written(saved.props)
             /\ code' = saved.code /\ transparent' = saved.transparent
          \/ code' = DefaultCode /\ ~transparent']_settingsVars
=============================================================================
