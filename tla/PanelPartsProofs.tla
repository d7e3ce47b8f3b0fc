------------------------------ MODULE PanelPartsProofs ------------------------------
(***************************************************************************)
(* Proofs about three parts of the panel that share no state: the settings *)
(* (PanelSettings), for any keys, types and texts; the drop target         *)
(* (DropTarget), for any targets and any depth of loads; and the deferred  *)
(* messages (DelayLoader), for any messages.                               *)
(*                                                                         *)
(* SettingsTypeOK, DialogShowsPanel and RunningIsSaved are inductive one   *)
(* by one or on top of the types; UpdatesKept needs DialogShowsPanel: what *)
(* Apply writes back of a property the user did not touch is what the      *)
(* panel has, unless it was written behind the dialog.                     *)
(*                                                                         *)
(* TargetRegistered is inductive with the types.  That a drop goes where   *)
(* the script wants it needs the invariant that, while a drag is over a    *)
(* target, the choice it holds is the one made in this drag: the address   *)
(* of a target under a drag is not given to a new one.                     *)
(*                                                                         *)
(* ShownOnceInOrder speaks of the shown messages and of those that still   *)
(* wait; the invariant of its proof says of the shown ones which they are  *)
(* and in which order, and finds the waiting ones by the loop's index in   *)
(* what was asked for.                                                     *)
(***************************************************************************)
EXTENDS PanelSettings, DropTarget, DelayLoader, SequenceTheorems, TLAPS

-----------------------------------------------------------------------------
(* The map of properties *)

\* set_config_item stores a value of an allowed type, or nothing.
LEMMA StoredMap ==
    ASSUME NEW m \in Map, NEW k \in Key, NEW v \in Value
    PROVE  /\ Stored(m, k, v) \in Map
           /\ m \in WholeMap => Stored(m, k, v) \in WholeMap
BY DEF Stored, Map, WholeMap, Value

\* So does GetProperty.
LEMMA FetchedMap ==
    ASSUME NEW m \in Map, NEW k \in Key, NEW v \in Value
    PROVE  /\ Fetched(m, k, v) \in Map
           /\ m \in WholeMap => Fetched(m, k, v) \in WholeMap
BY StoredMap DEF Fetched

LEMMA EmptyMap == Empty \in Map /\ Empty \in WholeMap
BY DEF Empty, Map, WholeMap

\* A map without odd values is read back.
LEMMA WholeIsLegible ==
    ASSUME NEW m \in WholeMap
    PROVE  LegibleMap(m)
BY DEF LegibleMap, WrittenWhole, WholeMap

\* What is read of a map without odd values has none, and each value is of its type.
LEMMA WrittenMap ==
    ASSUME NEW m \in Map, LegibleMap(m)
    PROVE  Written(m) \in WholeMap /\ Written(m) \in Map
<1>1. ASSUME NEW k \in Key
      PROVE  Written(m)[k] \in Good \cup {Absent}
  <2>1. m[k] \in Good \cup {Absent}
    BY DEF LegibleMap, WrittenWhole
  <2> QED BY <2>1, SettingsAssumption DEF Written
<1>2. Written(m) \in WholeMap
  BY <1>1 DEF Written, WholeMap
<1> QED BY <1>2 DEF WholeMap, Map, Value

\* The properties are the second field.
LEMMA PropsAreSecond ==
    /\ PropsField = 2
    /\ Fields = 1 .. 5 /\ Intact = 6
    /\ LoadOrder[5] # "props"
<1>1. Fields = 1 .. 5 /\ Intact = 6
  BY DEF Fields, Intact, LoadOrder
<1>2. \A n \in 1 .. 5 : LoadOrder[n] = "props" <=> n = 2
  <2>1. /\ LoadOrder[1] = "guid" /\ LoadOrder[2] = "props" /\ LoadOrder[3] = "wndpl"
        /\ LoadOrder[4] = "code" /\ LoadOrder[5] = "transparent"
    BY DEF LoadOrder
  <2>2. \A n \in 1 .. 5 : n = 1 \/ n = 2 \/ n = 3 \/ n = 4 \/ n = 5
    OBVIOUS
  <2> QED BY <2>1, <2>2
<1> QED BY <1>1, <1>2 DEF PropsField

\* What load_config may leave of the properties.
LEMMA LoadedMap ==
    ASSUME SettingsTypeOK, saved # NothingSaved,
           NEW cut \in NoData .. Intact, NEW m \in LoadedProps(cut)
    PROVE  /\ m \in Map
           /\ ~foreign => m \in WholeMap
           /\ Legible /\ cut = 6 => m = Written(saved.props)
<1>1. cut \in 0 .. 6
  BY PropsAreSecond DEF NoData
<1>2. props \in Map /\ saved.props \in Map
  BY DEF SettingsTypeOK
<1>3. ~foreign => props \in WholeMap /\ saved.props \in WholeMap /\ Legible
  BY WholeIsLegible DEF SettingsTypeOK, Legible, SaveOrder, LoadOrder
<1>4. \/ cut < 2 /\ m = props
      \/ cut >= 2 /\ ~Legible
         /\ m \in Map
      \/ cut = 2 /\ Legible /\ m \in PartsOf(Written(saved.props))
      \/ cut > 2 /\ Legible /\ m = Written(saved.props)
  BY <1>1, PropsAreSecond DEF LoadedProps
<1>5. Legible => Written(saved.props) \in WholeMap /\ Written(saved.props) \in Map
  BY <1>2, WrittenMap DEF Legible
<1>6. ASSUME Legible, m \in PartsOf(Written(saved.props))
      PROVE  m \in Map /\ m \in WholeMap
  BY <1>5, <1>6 DEF PartsOf, Map, WholeMap
<1> QED BY <1>1, <1>2, <1>3, <1>4, <1>5, <1>6

-----------------------------------------------------------------------------
(* Types *)

\* The actions that change the panel's map leave a map, a whole one unless one was
\* imported.
LEMMA WriteTypes ==
    ASSUME SettingsTypeOK, NEW m \in Map, Write(m), ~foreign => m \in WholeMap
    PROVE  /\ props' = m /\ props' \in Map /\ given' \in Map
           /\ ~foreign => props' \in WholeMap
           /\ behind' \in SUBSET Key /\ clobbered' \in SUBSET Key
BY DEF SettingsTypeOK, Write, Map

LEMMA TypeInit == SettingsInit => SettingsTypeOK
<1> SUFFICES ASSUME SettingsInit PROVE SettingsTypeOK
  OBVIOUS
<1> QED BY EmptyMap, SettingsAssumption DEF SettingsInit, SettingsTypeOK, Closed

LEMMA TypeScript ==
    ASSUME SettingsTypeOK,
           NEW k \in Key, NEW v \in Value, SetProperty(k, v) \/ GetProperty(k, v)
    PROVE  SettingsTypeOK'
<1> DEFINE m == IF SetProperty(k, v) THEN Stored(props, k, v) ELSE Fetched(props, k, v)
<1>1. m \in Map /\ (props \in WholeMap => m \in WholeMap)
  BY StoredMap, FetchedMap DEF SettingsTypeOK
<1>2. Write(m) /\ UNCHANGED <<defaultUI, code, transparent, running, phase, dialogVars, saved, edited, foreign>>
  BY DEF SetProperty, GetProperty
<1> HIDE DEF m
<1>3. ~foreign => m \in WholeMap
  BY <1>1 DEF SettingsTypeOK
<1> QED BY <1>1, <1>2, <1>3, WriteTypes DEF SettingsTypeOK, dialogVars

LEMMA TypeUpdates ==
    ASSUME SettingsTypeOK, LoadScript \/ ScriptFails
    PROVE  SettingsTypeOK'
BY DEF SettingsTypeOK, LoadScript, ScriptFails, dialogVars, settingsHistory, Idle

LEMMA TypeUpdateEnds ==
    ASSUME SettingsTypeOK, UpdateEnds
    PROVE  SettingsTypeOK'
<1>1. dialog' \in [is : {"none", "properties", "configure"}, applying : {"no", "stay", "close"}]
  BY DEF SettingsTypeOK, UpdateEnds, Closed
<1>2. copy' \in Map /\ (~foreign => copy' \in WholeMap) /\ behind' \in SUBSET Key
  BY EmptyMap DEF SettingsTypeOK, UpdateEnds, Reloaded
<1>3. text' \in Code /\ box' \in BOOLEAN
  BY SettingsAssumption DEF SettingsTypeOK, UpdateEnds
<1> QED BY <1>1, <1>2, <1>3 DEF SettingsTypeOK, UpdateEnds

LEMMA TypeEdit ==
    ASSUME SettingsTypeOK, NEW m \in Map, NEW which \in SUBSET Key, Edit(m, which),
           foreign' \in BOOLEAN, ~foreign' => ~foreign /\ m \in WholeMap
    PROVE  SettingsTypeOK'
BY DEF SettingsTypeOK, Edit, panelVars

LEMMA TypeDialog ==
    ASSUME SettingsTypeOK,
           \/ \E k \in Key : DeleteItem(k) \/ \E v \in Value : ChangeItem(k, v)
           \/ ClearAll \/ \E m \in Map : Import(m)
    PROVE  SettingsTypeOK'
<1>1. ASSUME NEW k \in Key, NEW v \in Value, ChangeItem(k, v)
      PROVE  SettingsTypeOK'
  <2>1. v \in Good
    BY <1>1 DEF ChangeItem, Good
  <2>2. [copy EXCEPT ![k] = v] \in Map /\ (copy \in WholeMap => [copy EXCEPT ![k] = v] \in WholeMap)
    BY <2>1 DEF SettingsTypeOK, Map, WholeMap
  <2>3. Edit([copy EXCEPT ![k] = v], {k}) /\ foreign' = foreign
    BY <1>1 DEF ChangeItem
  <2>4. foreign' \in BOOLEAN /\ (~foreign' => ~foreign /\ [copy EXCEPT ![k] = v] \in WholeMap)
    BY <2>2, <2>3 DEF SettingsTypeOK
  <2> QED BY <2>2, <2>3, <2>4, TypeEdit
<1>2. ASSUME NEW k \in Key, DeleteItem(k)
      PROVE  SettingsTypeOK'
  <2>1. /\ [copy EXCEPT ![k] = Absent] \in Map
        /\ copy \in WholeMap => [copy EXCEPT ![k] = Absent] \in WholeMap
    BY DEF SettingsTypeOK, Map, WholeMap
  <2>2. Edit([copy EXCEPT ![k] = Absent], {k}) /\ foreign' = foreign
    BY <1>2 DEF DeleteItem
  <2>3. foreign' \in BOOLEAN /\ (~foreign' => ~foreign /\ [copy EXCEPT ![k] = Absent] \in WholeMap)
    BY <2>1, <2>2 DEF SettingsTypeOK
  <2> QED BY <2>1, <2>2, <2>3, TypeEdit
<1>3. CASE ClearAll
  <2>1. Edit(Empty, Key) /\ foreign' = foreign
    BY <1>3 DEF ClearAll
  <2> QED BY <2>1, EmptyMap, TypeEdit DEF SettingsTypeOK
<1>4. ASSUME NEW m \in Map, Import(m)
      PROVE  SettingsTypeOK'
  <2>1. Edit(m, Key) /\ foreign' = (foreign \/ \E k \in Key : m[k] \in Odd)
    BY <1>4 DEF Import
  <2>2. (\A k \in Key : m[k] \notin Odd) => m \in WholeMap
    BY DEF Map, WholeMap, Value
  <2> QED BY <2>1, <2>2, TypeEdit DEF SettingsTypeOK
<1> QED BY <1>1, <1>2, <1>3, <1>4

LEMMA TypeApply ==
    ASSUME SettingsTypeOK, NEW then \in {"stay", "close"}, ApplyProperties(then) \/ ApplyText(then)
    PROVE  SettingsTypeOK'
<1>1. CASE ApplyProperties(then)
  BY <1>1 DEF SettingsTypeOK, ApplyProperties, CopiedBack, Map, InDialog, Opened
<1>2. CASE ApplyText(then)
  BY <1>2 DEF SettingsTypeOK, ApplyText, settingsHistory, InDialog, Opened
<1> QED BY <1>1, <1>2

LEMMA TypeWindows ==
    ASSUME SettingsTypeOK,
           \/ ShowProperties \/ CloseProperties \/ ShowConfigure \/ CloseConfigure
           \/ \E c \in Code, b \in BOOLEAN : EditText(c, b)
    PROVE  SettingsTypeOK'
<1> USE EmptyMap, SettingsAssumption DEF SettingsTypeOK, panelVars, settingsHistory, Opened, Closed
<1>1. CASE ShowProperties
  BY <1>1 DEF ShowProperties
<1>2. CASE CloseProperties
  BY <1>2 DEF CloseProperties
<1>3. CASE ShowConfigure
  BY <1>3 DEF ShowConfigure
<1>4. CASE CloseConfigure
  BY <1>4 DEF CloseConfigure
<1>5. ASSUME NEW c \in Code, NEW b \in BOOLEAN, EditText(c, b)
      PROVE  SettingsTypeOK'
  BY <1>5 DEF EditText
<1> QED BY <1>1, <1>2, <1>3, <1>4, <1>5

LEMMA TypeSave ==
    ASSUME SettingsTypeOK, Save
    PROVE  SettingsTypeOK'
<1>1. saved' = [props |-> props, code |-> code, transparent |-> transparent]
  BY DEF Save
<1>2. saved' \in [props : Map, code : Code, transparent : BOOLEAN] /\ saved'.props = props
  BY <1>1 DEF SettingsTypeOK
<1> QED BY <1>2 DEF SettingsTypeOK, Save, panelVars, dialogVars, settingsHistory

LEMMA TypeLoad ==
    ASSUME SettingsTypeOK, NEW cut \in NoData .. Intact, Load(cut)
    PROVE  SettingsTypeOK'
<1>1. saved # NothingSaved /\ saved \in [props : Map, code : Code, transparent : BOOLEAN]
  BY DEF Load, SettingsTypeOK
<1>2. PICK m \in LoadedProps(cut) : Write(m)
  BY DEF Load
<1>3. m \in Map /\ (~foreign => m \in WholeMap)
  BY <1>1, LoadedMap
<1>4. /\ props' \in Map /\ given' \in Map /\ (~foreign => props' \in WholeMap)
      /\ behind' \in SUBSET Key /\ clobbered' \in SUBSET Key
  BY <1>2, <1>3, WriteTypes
<1>5. code' \in Code /\ transparent' \in BOOLEAN
  BY <1>1, SettingsAssumption DEF Load
<1>6. phase' \in {"new", "idle", "updating"}
  BY DEF Load, UpdatesScript, SettingsTypeOK
<1> QED BY <1>4, <1>5, <1>6 DEF SettingsTypeOK, Load, dialogVars

\* SettingsNext, action by action.
LEMMA Actions ==
    ASSUME SettingsNext
    PROVE  \/ \E k \in Key, v \in Value : SetProperty(k, v) \/ GetProperty(k, v)
           \/ LoadScript \/ ScriptFails \/ UpdateEnds
           \/ (\E k \in Key : DeleteItem(k) \/ \E v \in Value : ChangeItem(k, v))
           \/ ClearAll \/ (\E m \in Map : Import(m))
           \/ (\E then \in {"stay", "close"} : ApplyProperties(then) \/ ApplyText(then))
           \/ ShowProperties \/ CloseProperties \/ ShowConfigure \/ CloseConfigure
           \/ (\E c \in Code, b \in BOOLEAN : EditText(c, b))
           \/ Save \/ \E cut \in NoData .. Intact : Load(cut)
BY Zenon DEF SettingsNext

LEMMA TypeStep == SettingsTypeOK /\ [SettingsNext]_settingsVars => SettingsTypeOK'
<1> SUFFICES ASSUME SettingsTypeOK, [SettingsNext]_settingsVars PROVE SettingsTypeOK'
  OBVIOUS
<1>1. CASE SettingsNext
  BY Zenon, <1>1, Actions, TypeScript, TypeUpdates, TypeUpdateEnds, TypeDialog, TypeApply,
     TypeWindows, TypeSave, TypeLoad
<1>2. CASE UNCHANGED settingsVars
  BY <1>2 DEF SettingsTypeOK, settingsVars, panelVars, dialogVars, settingsHistory
<1> QED BY <1>1, <1>2

\* Type correctness of the settings, and no value of an odd type but an imported one.
THEOREM SettingsTypes == SettingsSpec => []SettingsTypeOK
BY TypeInit, TypeStep, PTL DEF SettingsSpec

-----------------------------------------------------------------------------
(* The properties dialog *)

DialogInv == SettingsTypeOK /\ DialogShowsPanel

\* A write behind the open dialog is known to be one.
LEMMA WriteBehind ==
    ASSUME DialogInv, NEW m \in Map, Write(m), dialog' = dialog, copy' = copy, edited' = edited
    PROVE  DialogShowsPanel'
<1> SUFFICES ASSUME dialog = Opened("properties"), NEW k \in Key \ (edited \cup behind')
             PROVE  copy[k] = m[k]
  BY DEF DialogShowsPanel, Write
<1>1. behind' = behind \cup {j \in Key : m[j] # props[j]}
  BY DEF Write, Opened
<1>2. k \notin behind /\ m[k] = props[k]
  BY <1>1
<1> QED BY <1>2 DEF DialogInv, DialogShowsPanel

LEMMA DialogUpdateEnds ==
    ASSUME DialogInv, UpdateEnds
    PROVE  DialogShowsPanel'
<1>1. CASE dialog.is = "properties" /\ dialog.applying # "no"
  <2>1. dialog.applying = "close" => dialog' # Opened("properties")
    BY DEF UpdateEnds, Closed, Opened
  <2>2. dialog.applying # "close" => copy' = props /\ props' = props
    BY <1>1 DEF UpdateEnds, Reloaded
  <2> QED BY <2>1, <2>2 DEF DialogShowsPanel
<1>2. CASE dialog.is = "properties" /\ dialog.applying = "no"
  <2>1. dialog = Opened("properties")
    BY <1>2 DEF DialogInv, SettingsTypeOK, Opened
  <2>2. UNCHANGED <<copy, props, edited, behind>>
    BY <1>2 DEF UpdateEnds
  <2> QED BY <2>1, <2>2 DEF DialogInv, DialogShowsPanel
<1>3. CASE dialog.is # "properties"
  BY <1>3 DEF DialogInv, SettingsTypeOK, UpdateEnds, DialogShowsPanel, Opened, Closed
<1> QED BY <1>1, <1>2, <1>3

LEMMA DialogStep == DialogInv /\ [SettingsNext]_settingsVars => DialogShowsPanel'
<1> SUFFICES ASSUME DialogInv, [SettingsNext]_settingsVars PROVE DialogShowsPanel'
  OBVIOUS
<1> USE DEF DialogShowsPanel
<1>1. ASSUME NEW k \in Key, NEW v \in Value, SetProperty(k, v) \/ GetProperty(k, v)
      PROVE  DialogShowsPanel'
  <2>1. \E m \in Map : Write(m)
    BY <1>1, StoredMap, FetchedMap DEF SetProperty, GetProperty, DialogInv, SettingsTypeOK
  <2>2. dialog' = dialog /\ copy' = copy /\ edited' = edited
    BY <1>1 DEF SetProperty, GetProperty, dialogVars
  <2> QED BY <2>1, <2>2, WriteBehind
<1>2. CASE LoadScript \/ ScriptFails \/ Save
  BY <1>2 DEF DialogInv, LoadScript, ScriptFails, Save, dialogVars, panelVars, settingsHistory
<1>3. CASE UpdateEnds
  BY <1>3, DialogUpdateEnds
<1>4. ASSUME NEW k \in Key, DeleteItem(k) \/ \E v \in Value : ChangeItem(k, v)
      PROVE  DialogShowsPanel'
  BY <1>4 DEF DialogInv, DeleteItem, ChangeItem, Edit, SettingsTypeOK, Map, panelVars
<1>5. CASE ClearAll \/ \E m \in Map : Import(m)
  BY <1>5 DEF ClearAll, Import, Edit
<1>6. ASSUME NEW then \in {"stay", "close"}, ApplyProperties(then) \/ ApplyText(then)
      PROVE  DialogShowsPanel'
  BY <1>6 DEF ApplyProperties, ApplyText, InDialog, Opened
<1>7. CASE ShowProperties \/ CloseProperties \/ ShowConfigure \/ CloseConfigure
  BY <1>7 DEF ShowProperties, CloseProperties, ShowConfigure, CloseConfigure, Closed, Opened, panelVars
<1>8. ASSUME NEW c \in Code, NEW b \in BOOLEAN, EditText(c, b)
      PROVE  DialogShowsPanel'
  BY <1>8 DEF EditText, InDialog, Opened
<1>9. ASSUME NEW cut \in NoData .. Intact, Load(cut)
      PROVE  DialogShowsPanel'
  <2>1. \E m \in LoadedProps(cut) : m \in Map /\ Write(m)
    BY <1>9, LoadedMap DEF Load, DialogInv
  <2>2. dialog' = dialog /\ copy' = copy /\ edited' = edited
    BY <1>9 DEF Load, dialogVars
  <2> QED BY <2>1, <2>2, WriteBehind
<1>10. CASE UNCHANGED settingsVars
  BY <1>10 DEF DialogInv, settingsVars, panelVars, dialogVars, settingsHistory
<1> QED BY Zenon, <1>1, <1>2, <1>3, <1>4, <1>5, <1>6, <1>7, <1>8, <1>9, <1>10, Actions

LEMMA DialogInitially == SettingsInit => DialogShowsPanel
BY DEF SettingsInit, DialogShowsPanel, Closed, Opened

\* The properties dialog shows what the panel has, but for what was changed on one side.
THEOREM DialogIsTrue == SettingsSpec => []DialogShowsPanel
<1>1. SettingsInit => DialogInv
  BY TypeInit, DialogInitially DEF DialogInv
<1>2. DialogInv /\ [SettingsNext]_settingsVars => DialogInv'
  BY DialogStep, TypeStep DEF DialogInv
<1>3. DialogInv => DialogShowsPanel
  BY DEF DialogInv
<1> QED BY <1>1, <1>2, <1>3, PTL DEF SettingsSpec

-----------------------------------------------------------------------------
(* Updates *)

UpdatesInv == DialogInv /\ UpdatesKept

LEMMA WriteKept ==
    ASSUME UpdatesInv, NEW m \in Map, Write(m)
    PROVE  UpdatesKept'
<1> SUFFICES ASSUME NEW k \in Key \ clobbered' PROVE m[k] = given'[k]
  BY DEF UpdatesKept, Write
<1>1. given'[k] = IF m[k] # props[k] THEN m[k] ELSE given[k]
  BY DEF Write
<1>2. CASE m[k] = props[k]
  <2>1. k \notin clobbered
    BY <1>2 DEF Write
  <2> QED BY <1>1, <1>2, <2>1 DEF UpdatesInv, UpdatesKept
<1> QED BY <1>1, <1>2

\* What Apply writes back is the user's change, the panel's own value, or known as old.
LEMMA ApplyKept ==
    ASSUME UpdatesInv, NEW then \in {"stay", "close"}, ApplyProperties(then)
    PROVE  UpdatesKept'
<1> SUFFICES ASSUME NEW k \in Key \ clobbered' PROVE props'[k] = given'[k]
  BY DEF UpdatesKept
<1>1. props'[k] = copy[k] /\ given'[k] = IF k \in edited THEN copy[k] ELSE given[k]
  BY DEF ApplyProperties, CopiedBack
<1>2. CASE k \notin edited
  <2>1. k \notin clobbered /\ k \notin behind
    BY <1>2 DEF ApplyProperties
  <2>2. dialog = Opened("properties")
    BY DEF ApplyProperties, InDialog
  <2>3. copy[k] = props[k]
    BY <1>2, <2>1, <2>2 DEF UpdatesInv, DialogInv, DialogShowsPanel
  <2> QED BY <1>1, <1>2, <2>1, <2>3 DEF UpdatesInv, UpdatesKept
<1> QED BY <1>1, <1>2

LEMMA UpdatesStep == UpdatesInv /\ [SettingsNext]_settingsVars => UpdatesKept'
<1> SUFFICES ASSUME UpdatesInv, [SettingsNext]_settingsVars PROVE UpdatesKept'
  OBVIOUS
<1>1. ASSUME NEW k \in Key, NEW v \in Value, SetProperty(k, v) \/ GetProperty(k, v)
      PROVE  UpdatesKept'
  <2>1. \E m \in Map : Write(m)
    BY <1>1, StoredMap, FetchedMap DEF SetProperty, GetProperty, UpdatesInv, DialogInv, SettingsTypeOK
  <2> QED BY <2>1, WriteKept
<1>2. ASSUME UNCHANGED <<props, given, clobbered>> PROVE UpdatesKept'
  BY <1>2 DEF UpdatesInv, UpdatesKept
<1>3. CASE LoadScript \/ ScriptFails \/ UpdateEnds \/ Save
  BY <1>2, <1>3 DEF LoadScript, ScriptFails, UpdateEnds, Save, panelVars, settingsHistory
<1>4. ASSUME NEW k \in Key, DeleteItem(k) \/ \E v \in Value : ChangeItem(k, v)
      PROVE  UpdatesKept'
  BY <1>2, <1>4 DEF DeleteItem, ChangeItem, Edit, panelVars
<1>5. CASE ClearAll \/ \E m \in Map : Import(m)
  BY <1>2, <1>5 DEF ClearAll, Import, Edit, panelVars
<1>6. ASSUME NEW then \in {"stay", "close"}, ApplyProperties(then) \/ ApplyText(then)
      PROVE  UpdatesKept'
  BY <1>2, <1>6, ApplyKept DEF ApplyText, settingsHistory
<1>7. CASE ShowProperties \/ CloseProperties \/ ShowConfigure \/ CloseConfigure
  BY <1>2, <1>7 DEF ShowProperties, CloseProperties, ShowConfigure, CloseConfigure, panelVars, settingsHistory
<1>8. ASSUME NEW c \in Code, NEW b \in BOOLEAN, EditText(c, b)
      PROVE  UpdatesKept'
  BY <1>2, <1>8 DEF EditText, panelVars, settingsHistory
<1>9. ASSUME NEW cut \in NoData .. Intact, Load(cut)
      PROVE  UpdatesKept'
  <2>1. \E m \in LoadedProps(cut) : m \in Map /\ Write(m)
    BY <1>9, LoadedMap DEF Load, UpdatesInv, DialogInv
  <2> QED BY <2>1, WriteKept
<1>10. CASE UNCHANGED settingsVars
  BY <1>2, <1>10 DEF settingsVars, panelVars, settingsHistory
<1> QED BY Zenon, <1>1, <1>3, <1>4, <1>5, <1>6, <1>7, <1>8, <1>9, <1>10, Actions

\* A property has the value it was given last, but for what a script wrote behind the
\* dialog and Apply then replaced.
THEOREM UpdatesAreKept == SettingsSpec => []UpdatesKept
<1>1. SettingsInit => UpdatesInv
  BY TypeInit, DialogInitially DEF UpdatesInv, DialogInv, UpdatesKept, SettingsInit
<1>2. UpdatesInv /\ [SettingsNext]_settingsVars => UpdatesInv'
  BY UpdatesStep, DialogStep, TypeStep DEF UpdatesInv, DialogInv
<1>3. UpdatesInv => UpdatesKept
  BY DEF UpdatesInv
<1> QED BY <1>1, <1>2, <1>3, PTL DEF SettingsSpec

-----------------------------------------------------------------------------
(* The script, and what is saved *)

LEMMA RunningStep == SettingsTypeOK /\ RunningIsSaved /\ [SettingsNext]_settingsVars => RunningIsSaved'
<1> SUFFICES ASSUME SettingsTypeOK, RunningIsSaved, [SettingsNext]_settingsVars PROVE RunningIsSaved'
  OBVIOUS
<1> USE DEF RunningIsSaved, Idle
<1>1. ASSUME UNCHANGED <<code, running, phase>> PROVE RunningIsSaved'
  BY <1>1
<1>2. ASSUME NEW k \in Key, NEW v \in Value, SetProperty(k, v) \/ GetProperty(k, v)
      PROVE  RunningIsSaved'
  BY <1>1, <1>2 DEF SetProperty, GetProperty
<1>3. CASE LoadScript \/ ScriptFails \/ UpdateEnds \/ Save
  BY <1>3 DEF LoadScript, ScriptFails, UpdateEnds, Save, panelVars
<1>4. ASSUME NEW k \in Key, DeleteItem(k) \/ \E v \in Value : ChangeItem(k, v)
      PROVE  RunningIsSaved'
  BY <1>1, <1>4 DEF DeleteItem, ChangeItem, Edit, panelVars
<1>5. CASE ClearAll \/ \E m \in Map : Import(m)
  BY <1>1, <1>5 DEF ClearAll, Import, Edit, panelVars
<1>6. ASSUME NEW then \in {"stay", "close"}, ApplyProperties(then) \/ ApplyText(then)
      PROVE  RunningIsSaved'
  BY <1>6 DEF ApplyProperties, ApplyText
<1>7. CASE ShowProperties \/ CloseProperties \/ ShowConfigure \/ CloseConfigure
  BY <1>1, <1>7 DEF ShowProperties, CloseProperties, ShowConfigure, CloseConfigure, panelVars
<1>8. ASSUME NEW c \in Code, NEW b \in BOOLEAN, EditText(c, b)
      PROVE  RunningIsSaved'
  BY <1>1, <1>8 DEF EditText, panelVars
<1>9. ASSUME NEW cut \in NoData .. Intact, Load(cut)
      PROVE  RunningIsSaved'
  BY <1>9 DEF Load, UpdatesScript
<1>10. CASE UNCHANGED settingsVars
  BY <1>1, <1>10 DEF settingsVars, panelVars
<1> QED BY Zenon, <1>2, <1>3, <1>4, <1>5, <1>6, <1>7, <1>8, <1>9, <1>10, Actions

\* Between updates the script that runs is the one that would be saved.
THEOREM RunningScriptIsSaved == SettingsSpec => []RunningIsSaved
<1>1. SettingsInit => SettingsTypeOK /\ RunningIsSaved
  BY TypeInit DEF RunningIsSaved, SettingsInit, Idle
<1> QED BY <1>1, RunningStep, TypeStep, PTL DEF SettingsSpec

\* Loaded without a read error, and legible: everything is as it was written.
LEMMA LoadedWhole ==
    ASSUME SettingsTypeOK, Legible, Load(6)
    PROVE  /\ props' = Written(saved.props)
           /\ code' = saved.code /\ transparent' = saved.transparent
<1>1. saved # NothingSaved
  BY DEF Load
<1>2. ~ReadFails(6) /\ 6 # NoData
  BY PropsAreSecond DEF ReadFails, NoData
<1>3. code' = saved.code /\ transparent' = saved.transparent
  BY <1>2 DEF Load
<1>4. 6 \in NoData .. Intact
  BY PropsAreSecond DEF NoData
<1>5. props' = Written(saved.props)
  <2>1. PICK m \in LoadedProps(6) : Write(m)
    BY DEF Load
  <2>2. m = Written(saved.props)
    BY <1>1, <1>4, <2>1, LoadedMap
  <2> QED BY <2>1, <2>2 DEF Write
<1> QED BY <1>3, <1>5

\* Of a configuration that is loaded whole everything comes back, but for the strings that
\* UTF-8 does not carry, which come back as other strings.
THEOREM SavedComesBack == SettingsSpec => SavedIsReadBack
<1> DEFINE Back(k) ==
               LET was == saved.props[k]
               IN  /\ was = Absent <=> props'[k] = Absent
                   /\ was \in Good /\ Utf8[was] = was => props'[k] = was
                   /\ \A type \in Types : was \in type => props'[k] \in type
<1>1. SettingsTypeOK /\ [SettingsNext]_settingsVars =>
         [Load(Intact) /\ ~foreign =>
            /\ code' = saved.code /\ transparent' = saved.transparent
            /\ \A k \in Key : Back(k)]_settingsVars
  <2> SUFFICES ASSUME SettingsTypeOK, Load(Intact), ~foreign
               PROVE  /\ code' = saved.code /\ transparent' = saved.transparent
                      /\ \A k \in Key : Back(k)
    OBVIOUS
  <2>1. saved # NothingSaved
    BY DEF Load
  <2>2. saved.props \in WholeMap
    BY <2>1 DEF SettingsTypeOK
  <2>3. Legible
    BY <2>2, WholeIsLegible DEF Legible, SaveOrder, LoadOrder
  <2>4. props' = Written(saved.props) /\ code' = saved.code /\ transparent' = saved.transparent
    BY <2>3, PropsAreSecond, LoadedWhole
  <2>5. ASSUME NEW k \in Key
        PROVE  Back(k)
    <3>1. props'[k] = IF saved.props[k] = Absent THEN Absent ELSE Utf8[saved.props[k]]
      BY <2>4 DEF Written
    <3>2. saved.props[k] \in Good \cup {Absent} /\ Absent \notin Good
      BY <2>2, SettingsAssumption DEF WholeMap, Value
    <3>3. /\ \A v \in Good : Utf8[v] \in Good
          /\ \A type \in Types : \A v \in type : v \in Good /\ Utf8[v] \in type
      BY SettingsAssumption DEF Good
    <3> QED BY <3>1, <3>2, <3>3
  <2> QED BY <2>4, <2>5
<1> QED BY <1>1, TypeInit, TypeStep, PTL DEF SettingsSpec, SavedIsReadBack

\* A configuration that is not read whole leaves a new panel's text and setting.
THEOREM NothingHalfLoaded == SettingsSpec => NoHalfLoad
<1>1. SettingsTypeOK /\ [SettingsNext]_settingsVars =>
         [(\E cut \in NoData .. Intact : Load(cut)) /\ Legible =>
            \/ /\ props' = Written(saved.props)
               /\ code' = saved.code /\ transparent' = saved.transparent
            \/ code' = DefaultCode /\ ~transparent']_settingsVars
  <2> SUFFICES ASSUME SettingsTypeOK, Legible, NEW cut \in NoData .. Intact, Load(cut)
               PROVE  \/ /\ props' = Written(saved.props)
                         /\ code' = saved.code /\ transparent' = saved.transparent
                      \/ code' = DefaultCode /\ ~transparent'
    OBVIOUS
  <2>1. CASE cut = 6
    BY <2>1, LoadedWhole
  <2>2. CASE cut # 6
    <3>1. cut <= 5
      BY <2>2, PropsAreSecond DEF NoData
    <3>2. ReadFails(cut)
      BY <3>1, PropsAreSecond DEF ReadFails
    <3> QED BY <3>2 DEF Load
  <2> QED BY <2>1, <2>2
<1> QED BY <1>1, TypeInit, TypeStep, PTL DEF SettingsSpec, NoHalfLoad

-----------------------------------------------------------------------------
(* The drop target *)

DropTypeOK ==
    /\ windowOpen \in BOOLEAN /\ flag \in BOOLEAN /\ outlived \in BOOLEAN
    /\ loads \in 0 .. MaxLoads
    /\ {current, registered, drag} \subseteq Target \cup {NoTarget}
    /\ chosen \in [Target -> Choice] /\ wanted \in Choice /\ inserted \in Choice \cup {Nothing}

DragIsFresh == drag # NoTarget => chosen[drag] = wanted

DropInv == DropTypeOK /\ TargetRegistered /\ DragIsFresh

\* A release leaves the registration or takes it away.
LEMMA ReleaseOutcome ==
    \A references, registration :
        AfterRelease(references, registration) \in {registration, NoTarget}
BY DEF AfterRelease

\* script_load leaves an open window registered: the new target, or one that already was.
LEMMA RegisteredOutcome ==
    ASSUME NEW t \in Target
    PROVE  Registered(t) \in {t, registered, NoTarget} /\ (windowOpen => Registered(t) # NoTarget)
BY ReleaseOutcome, DropAssumption DEF Registered

LEMMA DropInitially == DropInit => DropInv
<1> SUFFICES ASSUME DropInit PROVE DropInv
  OBVIOUS
<1>1. DropTypeOK
  <2>1. loads \in 0 .. MaxLoads
    BY DropAssumption DEF DropInit
  <2>2. chosen \in [Target -> Choice] /\ wanted \in Choice /\ inserted \in Choice \cup {Nothing}
    BY DropAssumption DEF DropInit
  <2>3. {current, registered, drag} \subseteq Target \cup {NoTarget}
    BY DEF DropInit
  <2>4. windowOpen \in BOOLEAN /\ flag \in BOOLEAN /\ outlived \in BOOLEAN
    BY DEF DropInit
  <2> QED BY <2>1, <2>2, <2>3, <2>4 DEF DropTypeOK
<1>2. TargetRegistered /\ DragIsFresh
  BY DEF DropInit, TargetRegistered, DragIsFresh
<1> QED BY <1>1, <1>2 DEF DropInv

LEMMA DropStep == DropInv /\ [DropNext]_dropVars => DropInv'
<1> SUFFICES ASSUME DropInv, [DropNext]_dropVars PROVE DropInv'
  OBVIOUS
<1> USE DropAssumption DEF DropInv, DropTypeOK, TargetRegistered, DragIsFresh
<1>1. CASE BeginLoad
  <2>1. DropTypeOK'
    <3>1. loads' \in 0 .. MaxLoads
      BY <1>1 DEF BeginLoad
    <3>2. {current', registered', drag'} \subseteq Target \cup {NoTarget}
      BY <1>1 DEF BeginLoad, Unload
    <3>3. flag' \in BOOLEAN /\ UNCHANGED <<windowOpen, outlived, chosen, wanted, inserted>>
      BY <1>1 DEF BeginLoad, Unload
    <3> QED BY <3>1, <3>2, <3>3
  <2>2. TargetRegistered' /\ DragIsFresh'
    BY <1>1 DEF BeginLoad, Unload
  <2> QED BY <2>1, <2>2
<1>2. CASE EndScript
  BY <1>2 DEF EndScript, Unload
<1>3. CASE NoTargetWanted
  BY <1>3 DEF NoTargetWanted
<1>4. CASE CloseWindow
  BY <1>4 DEF CloseWindow, Unload
<1>5. ASSUME NEW t \in Target, MakeTarget(t)
      PROVE  DropInv'
  <2>1. registered' \in Target \cup {NoTarget} /\ (windowOpen => registered' # NoTarget)
    BY <1>5, RegisteredOutcome DEF MakeTarget
  <2>2. t # drag
    BY <1>5 DEF MakeTarget, Alive
  <2>3. DropTypeOK'
    <3>1. loads' \in 0 .. MaxLoads
      BY <1>5 DEF MakeTarget
    <3>2. {current', registered', drag'} \subseteq Target \cup {NoTarget}
      BY <1>5, <2>1 DEF MakeTarget
    <3>3. flag' \in BOOLEAN /\ outlived' \in BOOLEAN /\ chosen' \in [Target -> Choice]
      BY <1>5 DEF MakeTarget
    <3>4. UNCHANGED <<windowOpen, wanted, inserted>>
      BY <1>5 DEF MakeTarget
    <3> QED BY <3>1, <3>2, <3>3, <3>4
  <2>4. TargetRegistered'
    BY <1>5, <2>1 DEF MakeTarget
  <2>5. DragIsFresh'
    BY <1>5, <2>2 DEF MakeTarget
  <2> QED BY <2>3, <2>4, <2>5
<1>6. ASSUME NEW t \in Target, NEW choice \in Choice, Choose(t, choice)
      PROVE  DropInv'
  BY <1>6 DEF Choose
<1>7. CASE DragEnter
  BY <1>7 DEF DragEnter, ResetChoice
<1>8. CASE DragLeave \/ Drop
  <2>1. EndDrag /\ inserted' \in {inserted, Nothing} \cup Choice
    BY <1>8 DEF DragLeave, Drop, EndDrag
  <2>2. /\ drag' = NoTarget /\ registered' \in {registered, NoTarget}
        /\ outlived' = (outlived \/ registered' # registered)
        /\ UNCHANGED <<windowOpen, loads, current, flag, chosen, wanted>>
    BY <2>1, ReleaseOutcome DEF EndDrag
  <2> QED BY <2>1, <2>2
<1>9. CASE UNCHANGED dropVars
  BY <1>9 DEF dropVars
<1> QED BY Zenon, <1>1, <1>2, <1>3, <1>4, <1>5, <1>6, <1>7, <1>8, <1>9 DEF DropNext

\* The panel's flag and the system agree, unless a target outlived its script in a drag.
THEOREM FlagIsTrue == DropSpec => []TargetRegistered
<1>1. DropInv => TargetRegistered
  BY DEF DropInv
<1> QED BY <1>1, DropInitially, DropStep, PTL DEF DropSpec

\* A drop goes where the script said in its drag.
THEOREM DropsGoWhereWanted == DropSpec => DropAsWanted
<1>1. DropInv /\ [DropNext]_dropVars => [Drop => inserted' \in {wanted, Nothing}]_dropVars
  BY DEF DropInv, DragIsFresh, Drop, EndDrag
<1> QED BY <1>1, DropInitially, DropStep, PTL DEF DropSpec, DropAsWanted

-----------------------------------------------------------------------------
(* The deferred messages *)

DelayTypeOK ==
    /\ ready \in BOOLEAN /\ at \in Nat /\ early \in Nat
    /\ callbacks \in Seq(Message) /\ shown \in Seq(Message) /\ requested \in Seq(Message)

\* Where the loop of g_set_ready may be, and what the list holds then.
Phases ==
    /\ ~ready => at = 0 /\ shown = <<>> /\ callbacks = requested /\ early = 0
    /\ ready /\ at = 0 => callbacks = <<>>
    /\ at > 0 => /\ ready /\ at <= Len(callbacks) + 1 /\ Len(callbacks) = early
                 /\ \A i \in 1 .. early : callbacks[i] = requested[i]
    /\ early <= Len(requested)

RequestedOnce ==
    \A m, n \in 1 .. Len(requested) : requested[m] = requested[n] => m = n

\* Of the messages that waited, those before the loop's index were shown.
Done(n) == n > early \/ at = 0 \/ n < at

ShownAreDone ==
    /\ \A i \in 1 .. Len(shown) : \E n \in 1 .. Len(requested) : shown[i] = requested[n]
    /\ \A n \in 1 .. Len(requested) :
           ready => (Done(n) <=> \E i \in 1 .. Len(shown) : shown[i] = requested[n])

ShownInOrder ==
    \A i, j \in 1 .. Len(shown), m, n \in 1 .. Len(requested) :
        shown[i] = requested[m] /\ shown[j] = requested[n] /\ SameSide(m, n)
            => (i < j <=> m < n)

DelayInv == DelayTypeOK /\ Phases /\ RequestedOnce /\ ShownAreDone /\ ShownInOrder

\* At first nothing was asked for.
LEMMA DelayInitially == DelayInit => DelayInv
<1> SUFFICES ASSUME DelayInit PROVE DelayInv
  OBVIOUS
<1>1. /\ ready = FALSE /\ at = 0 /\ early = 0 /\ callbacks = <<>> /\ shown = <<>> /\ requested = <<>>
      /\ Len(shown) = 0 /\ Len(requested) = 0
  BY DEF DelayInit
<1>2. DelayTypeOK
  BY <1>1, EmptySeq DEF DelayTypeOK
<1>3. Phases
  BY <1>1 DEF Phases
<1>4. RequestedOnce /\ ShownAreDone /\ ShownInOrder
  BY <1>1 DEF RequestedOnce, ShownAreDone, ShownInOrder
<1> QED BY <1>2, <1>3, <1>4 DEF DelayInv

\* A sequence with one more at its end.
LEMMA Longer ==
    ASSUME NEW q \in Seq(Message), NEW m \in Message
    PROVE  /\ Append(q, m) \in Seq(Message) /\ Len(Append(q, m)) = Len(q) + 1 /\ Len(q) \in Nat
           /\ \A i \in 1 .. Len(q) : Append(q, m)[i] = q[i] /\ q[i] \in Message
           /\ Append(q, m)[Len(q) + 1] = m
OBVIOUS

\* A message more, shown or waiting.
LEMMA ShowStep == ASSUME NEW msg \in Message, DelayInv, Show(msg) PROVE DelayInv'
<1>0. DelayTypeOK /\ Phases /\ RequestedOnce /\ ShownAreDone /\ ShownInOrder
  BY DEF DelayInv
<1>s. callbacks \in Seq(Message) /\ shown \in Seq(Message) /\ requested \in Seq(Message)
  BY <1>0 DEF DelayTypeOK
<1>t. /\ ready \in BOOLEAN /\ at \in Nat /\ early \in Nat
      /\ Len(callbacks) \in Nat /\ Len(shown) \in Nat /\ Len(requested) \in Nat
  BY <1>0 DEF DelayTypeOK
<1>1. /\ requested' = Append(requested, msg) /\ UNCHANGED <<ready, at, early>>
      /\ ready => shown' = Append(shown, msg) /\ callbacks' = callbacks
      /\ ~ready => callbacks' = Append(callbacks, msg) /\ shown' = shown
  BY DEF Show, ExecuteNow
<1>2. \A n \in 1 .. Len(requested) : requested[n] # msg
  BY DEF Show, ToSet
<1>3. /\ Len(requested') = Len(requested) + 1 /\ requested'[Len(requested) + 1] = msg
      /\ \A n \in 1 .. Len(requested) : requested'[n] = requested[n]
      /\ Len(requested) \in Nat
  BY <1>s, <1>t, <1>1, Longer
<1>4. ready => /\ Len(shown') = Len(shown) + 1 /\ shown'[Len(shown) + 1] = msg
               /\ \A n \in 1 .. Len(shown) : shown'[n] = shown[n]
  BY <1>s, <1>t, <1>1, Longer
<1>5. DelayTypeOK'
  <2>1. requested' \in Seq(Message) /\ shown' \in Seq(Message) /\ callbacks' \in Seq(Message)
    BY <1>s, <1>t, <1>1, Longer
  <2> QED BY <1>t, <1>1, <2>1 DEF DelayTypeOK
<1>6. Phases'
  <2>1. \A i \in 1 .. early : at > 0 => i \in 1 .. Len(requested)
    BY <1>0, <1>t, <1>3 DEF Phases
  <2> QED BY <1>0, <1>t, <1>1, <1>3, <2>1 DEF Phases
<1>7. RequestedOnce'
  BY <1>0, <1>t, <1>2, <1>3 DEF RequestedOnce
<1>8. \A i \in 1 .. Len(shown) : shown[i] # msg
  BY <1>0, <1>t, <1>2 DEF ShownAreDone
<1>9. CASE ready
  <2>1. ShownAreDone'
    <3>1. ASSUME NEW i \in 1 .. Len(shown')
          PROVE  \E n \in 1 .. Len(requested') : shown'[i] = requested'[n]
      <4>1. CASE i = Len(shown) + 1
        BY <1>t, <1>3, <1>4, <1>9, <4>1
      <4>2. CASE i # Len(shown) + 1
        <5>1. i \in 1 .. Len(shown) /\ shown'[i] = shown[i]
          BY <1>t, <1>4, <1>9, <4>2
        <5>2. PICK n \in 1 .. Len(requested) : shown[i] = requested[n]
          BY <1>0, <5>1 DEF ShownAreDone
        <5> QED BY <1>t, <1>3, <5>1, <5>2
      <4> QED BY <4>1, <4>2
    <3>2. ASSUME NEW n \in 1 .. Len(requested)
          PROVE  Done(n)' <=> \E i \in 1 .. Len(shown') : shown'[i] = requested'[n]
      <4>1. Done(n)' <=> Done(n)
        BY <1>t, <1>1 DEF Done
      <4>2. (\E i \in 1 .. Len(shown') : shown'[i] = requested'[n])
              <=> \E i \in 1 .. Len(shown) : shown[i] = requested[n]
        BY <1>t, <1>2, <1>3, <1>4, <1>9
      <4> QED BY <1>0, <1>t, <4>1, <4>2, <1>9 DEF ShownAreDone
    <3>3. ASSUME NEW n \in 1 .. Len(requested'), n = Len(requested) + 1 PROVE Done(n)'
      BY <3>3, <1>0, <1>t, <1>1, <1>3 DEF Done, Phases
    <3>4. \E i \in 1 .. Len(shown') : shown'[i] = requested'[Len(requested) + 1]
      BY <1>t, <1>3, <1>4, <1>9
    <3>5. \A n \in 1 .. Len(requested') :
              Done(n)' <=> \E i \in 1 .. Len(shown') : shown'[i] = requested'[n]
      <4> SUFFICES ASSUME NEW n \in 1 .. Len(requested')
                   PROVE  Done(n)' <=> \E i \in 1 .. Len(shown') : shown'[i] = requested'[n]
        OBVIOUS
      <4>1. CASE n = Len(requested) + 1
        BY <3>3, <3>4, <4>1
      <4>2. CASE n # Len(requested) + 1
        <5>1. n \in 1 .. Len(requested)
          BY <1>t, <1>3, <4>2
        <5> QED BY <3>2, <5>1
      <4> QED BY <4>1, <4>2
    <3> QED BY <3>1, <3>5 DEF ShownAreDone
  <2>2. ShownInOrder'
    <3> SUFFICES ASSUME NEW i \in 1 .. Len(shown'), NEW j \in 1 .. Len(shown'),
                        NEW m \in 1 .. Len(requested'), NEW n \in 1 .. Len(requested'),
                        shown'[i] = requested'[m], shown'[j] = requested'[n], SameSide(m, n)'
                 PROVE  i < j <=> m < n
      BY DEF ShownInOrder
    <3>1. SameSide(m, n)
      BY <1>t, <1>1 DEF SameSide
    <3>a. ASSUME NEW k \in 1 .. Len(shown'), NEW l \in 1 .. Len(requested'),
                 shown'[k] = requested'[l]
          PROVE  k = Len(shown) + 1 <=> l = Len(requested) + 1
      <4>1. CASE k = Len(shown) + 1
        BY <1>t, <1>2, <1>3, <1>4, <1>9, <3>a, <4>1
      <4>2. CASE k # Len(shown) + 1
        <5>1. k \in 1 .. Len(shown) /\ shown'[k] = shown[k]
          BY <1>t, <1>4, <1>9, <4>2
        <5> QED BY <1>3, <1>8, <3>a, <4>2, <5>1
      <4> QED BY <4>1, <4>2
    <3>2. i = Len(shown) + 1 <=> m = Len(requested) + 1
      BY <3>a
    <3>3. j = Len(shown) + 1 <=> n = Len(requested) + 1
      BY <3>a
    <3>4. CASE i <= Len(shown) /\ j <= Len(shown)
      BY <1>0, <1>t, <1>3, <1>4, <1>9, <3>1, <3>2, <3>3, <3>4 DEF ShownInOrder
    <3>5. CASE ~(i <= Len(shown) /\ j <= Len(shown))
      BY <1>t, <1>3, <1>4, <1>9, <3>2, <3>3, <3>5
    <3> QED BY <3>4, <3>5
  <2> QED BY <1>5, <1>6, <1>7, <2>1, <2>2 DEF DelayInv
<1>10. CASE ~ready
  <2>1. shown' = <<>> /\ Len(shown') = 0
    BY <1>0, <1>t, <1>1, <1>10 DEF Phases
  <2> QED BY <1>0, <1>t, <1>1, <1>5, <1>6, <1>7, <1>10, <2>1 DEF ShownAreDone, ShownInOrder, DelayInv
<1> QED BY <1>9, <1>10

\* The services are ready: the loop begins.
LEMMA ReadyStep == DelayInv /\ SetReady => DelayInv'
<1> SUFFICES ASSUME DelayInv, SetReady PROVE DelayInv'
  OBVIOUS
<1>0. DelayTypeOK /\ Phases /\ RequestedOnce /\ ShownAreDone /\ ShownInOrder
  BY DEF DelayInv
<1>s. callbacks \in Seq(Message) /\ shown \in Seq(Message) /\ requested \in Seq(Message)
  BY <1>0 DEF DelayTypeOK
<1>t. /\ ready \in BOOLEAN /\ at \in Nat /\ early \in Nat
      /\ Len(callbacks) \in Nat /\ Len(shown) \in Nat /\ Len(requested) \in Nat
  BY <1>0 DEF DelayTypeOK
<1>1. /\ ~ready /\ ready' /\ at' = 1 /\ early' = Len(requested)
      /\ UNCHANGED <<callbacks, shown, requested>>
  BY DEF SetReady
<1>2. shown = <<>> /\ callbacks = requested /\ Len(shown) = 0 /\ Len(requested) \in Nat
  BY <1>0, <1>t, <1>1 DEF Phases
<1>3. DelayTypeOK' /\ RequestedOnce'
  BY <1>0, <1>s, <1>t, <1>1 DEF DelayTypeOK, RequestedOnce
<1>4. Phases'
  BY <1>0, <1>t, <1>1, <1>2 DEF Phases
<1>5. ShownAreDone' /\ ShownInOrder'
  BY <1>0, <1>t, <1>1, <1>2 DEF ShownAreDone, ShownInOrder, Done
<1> QED BY <1>3, <1>4, <1>5 DEF DelayInv

\* A turn of the loop shows a message that waited.
LEMMA ExecuteStep == DelayInv /\ ExecuteNext => DelayInv'
<1> SUFFICES ASSUME DelayInv, ExecuteNext PROVE DelayInv'
  OBVIOUS
<1>0. DelayTypeOK /\ Phases /\ RequestedOnce /\ ShownAreDone /\ ShownInOrder
  BY DEF DelayInv
<1>s. callbacks \in Seq(Message) /\ shown \in Seq(Message) /\ requested \in Seq(Message)
  BY <1>0 DEF DelayTypeOK
<1>t. /\ ready \in BOOLEAN /\ at \in Nat /\ early \in Nat
      /\ Len(callbacks) \in Nat /\ Len(shown) \in Nat /\ Len(requested) \in Nat
  BY <1>0 DEF DelayTypeOK
<1>1. /\ at \in 1 .. Len(callbacks) /\ shown' = Append(shown, callbacks[at]) /\ at' = at + 1
      /\ UNCHANGED <<ready, callbacks, requested, early>>
  BY DEF ExecuteNext
<1>2. /\ ready /\ at \in 1 .. early /\ callbacks[at] = requested[at] /\ at \in 1 .. Len(requested)
      /\ Len(requested) \in Nat /\ Len(shown) \in Nat /\ early = Len(callbacks)
  BY <1>0, <1>t, <1>1 DEF Phases
<1>3. /\ Len(shown') = Len(shown) + 1 /\ shown'[Len(shown) + 1] = requested[at]
      /\ \A n \in 1 .. Len(shown) : shown'[n] = shown[n]
      /\ shown' \in Seq(Message)
  BY <1>s, <1>t, <1>1, <1>2, Longer
<1>4. \A i \in 1 .. Len(shown) : shown[i] # requested[at]
  <2>1. ~Done(at)
    BY <1>t, <1>2 DEF Done
  <2> QED BY <1>0, <1>t, <1>2, <2>1 DEF ShownAreDone
<1>5. DelayTypeOK' /\ RequestedOnce' /\ Phases'
  <2>1. DelayTypeOK'
    BY <1>s, <1>t, <1>1, <1>3 DEF DelayTypeOK
  <2>2. RequestedOnce'
    BY <1>0, <1>1 DEF RequestedOnce
  <2>3. Phases'
    BY <1>0, <1>t, <1>1, <1>2 DEF Phases
  <2> QED BY <2>1, <2>2, <2>3
<1>6. ShownAreDone'
  <2>1. ASSUME NEW i \in 1 .. Len(shown')
        PROVE  \E n \in 1 .. Len(requested') : shown'[i] = requested'[n]
    BY <1>0, <1>t, <1>1, <1>2, <1>3 DEF ShownAreDone
  <2>2. ASSUME NEW n \in 1 .. Len(requested)
        PROVE  Done(n)' <=> \E i \in 1 .. Len(shown') : shown'[i] = requested'[n]
    <3>1. Done(n)' <=> Done(n) \/ n = at
      BY <1>t, <1>1, <1>2 DEF Done
    <3>2. (\E i \in 1 .. Len(shown') : shown'[i] = requested'[n])
            <=> n = at \/ \E i \in 1 .. Len(shown) : shown[i] = requested[n]
      BY <1>0, <1>t, <1>1, <1>2, <1>3 DEF RequestedOnce
    <3> QED BY <1>0, <1>t, <1>2, <3>1, <3>2 DEF ShownAreDone
  <2> QED BY <1>0, <1>t, <1>1, <2>1, <2>2 DEF ShownAreDone
<1>7. ShownInOrder'
  <2> SUFFICES ASSUME NEW i \in 1 .. Len(shown'), NEW j \in 1 .. Len(shown'),
                      NEW m \in 1 .. Len(requested), NEW n \in 1 .. Len(requested),
                      shown'[i] = requested[m], shown'[j] = requested[n], SameSide(m, n)'
               PROVE  i < j <=> m < n
    BY <1>0, <1>t, <1>1 DEF ShownInOrder
  <2>1. SameSide(m, n)
    BY <1>t, <1>1 DEF SameSide
  <2>2. (i = Len(shown) + 1 <=> m = at) /\ (j = Len(shown) + 1 <=> n = at)
    <3>1. ASSUME NEW k \in 1 .. Len(shown'), NEW l \in 1 .. Len(requested), shown'[k] = requested[l]
          PROVE  k = Len(shown) + 1 <=> l = at
      <4>1. CASE k = Len(shown) + 1
        BY <1>0, <1>2, <1>3, <3>1, <4>1 DEF RequestedOnce
      <4>2. CASE k # Len(shown) + 1
        <5>1. k \in 1 .. Len(shown) /\ shown'[k] = shown[k]
          BY <1>t, <1>3, <4>2
        <5> QED BY <1>4, <3>1, <4>2, <5>1
      <4> QED BY <4>1, <4>2
    <3> QED BY <3>1
  <2>3. i <= Len(shown) => Done(m) /\ shown[i] = requested[m]
    BY <1>0, <1>t, <1>2, <1>3 DEF ShownAreDone
  <2>4. j <= Len(shown) => Done(n) /\ shown[j] = requested[n]
    BY <1>0, <1>t, <1>2, <1>3 DEF ShownAreDone
  <2>5. CASE i <= Len(shown) /\ j <= Len(shown)
    BY <1>0, <1>t, <1>2, <2>1, <2>3, <2>4, <2>5 DEF ShownInOrder
  <2>6. CASE i = Len(shown) + 1 /\ j = Len(shown) + 1
    BY <2>2, <2>6
  <2>7. CASE i <= Len(shown) /\ j = Len(shown) + 1
    BY <1>t, <1>2, <2>1, <2>2, <2>3, <2>7 DEF SameSide, Done
  <2>8. CASE i = Len(shown) + 1 /\ j <= Len(shown)
    BY <1>t, <1>2, <2>1, <2>2, <2>4, <2>8 DEF SameSide, Done
  <2> QED BY <1>t, <1>2, <1>3, <2>5, <2>6, <2>7, <2>8
<1> QED BY <1>5, <1>6, <1>7 DEF DelayInv

\* The loop ends: all that waited are shown.
LEMMA RemoveStep == DelayInv /\ RemoveAll => DelayInv'
<1> SUFFICES ASSUME DelayInv, RemoveAll PROVE DelayInv'
  OBVIOUS
<1>0. DelayTypeOK /\ Phases /\ RequestedOnce /\ ShownAreDone /\ ShownInOrder
  BY DEF DelayInv
<1>s. callbacks \in Seq(Message) /\ shown \in Seq(Message) /\ requested \in Seq(Message)
  BY <1>0 DEF DelayTypeOK
<1>t. /\ ready \in BOOLEAN /\ at \in Nat /\ early \in Nat
      /\ Len(callbacks) \in Nat /\ Len(shown) \in Nat /\ Len(requested) \in Nat
  BY <1>0 DEF DelayTypeOK
<1>1. /\ at > Len(callbacks) /\ callbacks' = <<>> /\ at' = 0
      /\ UNCHANGED <<ready, shown, requested, early>>
  BY DEF RemoveAll
<1>2. ready /\ at = early + 1 /\ Len(requested) \in Nat
  BY <1>0, <1>t, <1>1 DEF Phases
<1>3. DelayTypeOK' /\ RequestedOnce' /\ Phases' /\ ShownInOrder'
  <2>1. DelayTypeOK'
    BY <1>s, <1>t, <1>1, EmptySeq DEF DelayTypeOK
  <2>2. Phases'
    BY <1>0, <1>t, <1>1, <1>2 DEF Phases
  <2>3. RequestedOnce' /\ ShownInOrder'
    BY <1>0, <1>1 DEF RequestedOnce, ShownInOrder, SameSide
  <2> QED BY <2>1, <2>2, <2>3
<1>4. \A n \in 1 .. Len(requested) : Done(n)' <=> Done(n)
  BY <1>t, <1>1, <1>2 DEF Done
<1>5. ShownAreDone'
  BY <1>0, <1>t, <1>1, <1>4 DEF ShownAreDone
<1> QED BY <1>3, <1>5 DEF DelayInv

\* Every step.
LEMMA DelayStep == DelayInv /\ [DelayNext]_delayVars => DelayInv'
<1> SUFFICES ASSUME DelayInv, [DelayNext]_delayVars PROVE DelayInv'
  OBVIOUS
<1>1. CASE UNCHANGED delayVars
  BY <1>1 DEF delayVars, DelayInv, DelayTypeOK, Phases, RequestedOnce, ShownAreDone, ShownInOrder,
              SameSide, Done
<1> QED BY <1>1, ShowStep, ReadyStep, ExecuteStep, RemoveStep DEF DelayNext

\* What is shown and what waits make up what was asked for.
LEMMA OrderOfAll == DelayInv => ShownOnceInOrder
<1> SUFFICES ASSUME DelayInv PROVE ShownOnceInOrder
  OBVIOUS
<1>0. DelayTypeOK /\ Phases /\ RequestedOnce /\ ShownAreDone /\ ShownInOrder
  BY DEF DelayInv
<1>s. callbacks \in Seq(Message) /\ shown \in Seq(Message) /\ requested \in Seq(Message)
  BY <1>0 DEF DelayTypeOK
<1>t. /\ ready \in BOOLEAN /\ at \in Nat /\ early \in Nat
      /\ Len(callbacks) \in Nat /\ Len(shown) \in Nat /\ Len(requested) \in Nat
  BY <1>0 DEF DelayTypeOK
<1> DEFINE order == shown \o Waiting
           from  == IF at = 0 THEN 1 ELSE at
<1>1. Len(shown) \in Nat /\ Len(requested) \in Nat /\ Len(callbacks) \in Nat /\ from \in 1 .. Len(callbacks) + 1
  BY <1>0, <1>t DEF Phases
<1>2. /\ Waiting \in Seq(Message) /\ Len(Waiting) = Len(callbacks) - from + 1
      /\ \A k \in 1 .. Len(Waiting) : Waiting[k] = callbacks[k + from - 1]
  <2>1. CASE at = 0
    <3>1. Waiting = callbacks
      BY <1>0, <1>t, <2>1 DEF Waiting, Phases
    <3> QED BY <1>s, <1>t, <2>1, <3>1
  <2>2. CASE at # 0
    <3>1. Waiting = SubSeq(callbacks, at, Len(callbacks))
      BY <1>0, <1>t, <2>2 DEF Waiting, Phases
    <3> QED BY <1>s, <1>t, <1>1, <2>2, <3>1, SubSeqProperties
  <2> QED BY <2>1, <2>2
<1>3. /\ order \in Seq(Message) /\ Len(order) = Len(shown) + Len(Waiting)
      /\ \A i \in 1 .. Len(order) :
             order[i] = IF i <= Len(shown) THEN shown[i] ELSE callbacks[i - Len(shown) + from - 1]
  <2>1. /\ order \in Seq(Message) /\ Len(order) = Len(shown) + Len(Waiting)
        /\ \A i \in 1 .. Len(shown) + Len(Waiting) :
               order[i] = IF i <= Len(shown) THEN shown[i] ELSE Waiting[i - Len(shown)]
    BY <1>s, <1>2, ConcatProperties
  <2> HIDE DEF order, from
  <2>2. ASSUME NEW i \in 1 .. Len(order), i > Len(shown)
        PROVE  order[i] = callbacks[i - Len(shown) + from - 1]
    <3>1. i - Len(shown) \in 1 .. Len(Waiting) /\ i \in 1 .. Len(shown) + Len(Waiting)
      BY <1>t, <1>1, <1>2, <2>1, <2>2
    <3> QED BY <1>t, <1>2, <2>1, <2>2, <3>1
  <2> QED BY <1>t, <1>1, <1>2, <2>1, <2>2
<1>4. \A k \in from .. Len(callbacks) : k \in 1 .. Len(requested) /\ callbacks[k] = requested[k]
                                        /\ (ready => ~Done(k) /\ k <= early)
  BY <1>0, <1>t, <1>1 DEF Phases, Done
<1>5. ASSUME NEW n \in 1 .. Len(requested)
      PROVE  \/ \E i \in 1 .. Len(shown) : shown[i] = requested[n]
             \/ n \in from .. Len(callbacks)
  <2>1. CASE ~ready
    BY <1>0, <1>t, <1>1, <2>1 DEF Phases
  <2>2. CASE ready
    BY <1>0, <1>t, <1>1, <2>2 DEF Phases, ShownAreDone, Done
  <2> QED BY <2>1, <2>2
<1> HIDE DEF from, order
<1>a. /\ \A i \in 1 .. Len(order) : i > Len(shown) =>
             /\ i - Len(shown) + from - 1 \in from .. Len(callbacks)
             /\ order[i] = requested[i - Len(shown) + from - 1]
      /\ \A k \in from .. Len(callbacks) :
             /\ Len(shown) + k - from + 1 \in 1 .. Len(order)
             /\ order[Len(shown) + k - from + 1] = requested[k]
  <2>1. ASSUME NEW i \in 1 .. Len(order), i > Len(shown)
        PROVE  /\ i - Len(shown) + from - 1 \in from .. Len(callbacks)
               /\ order[i] = requested[i - Len(shown) + from - 1]
    BY <2>1, <1>1, <1>2, <1>3, <1>4
  <2>2. ASSUME NEW k \in from .. Len(callbacks)
        PROVE  /\ Len(shown) + k - from + 1 \in 1 .. Len(order)
               /\ order[Len(shown) + k - from + 1] = requested[k]
    <3>1. Len(shown) + k - from + 1 \in 1 .. Len(order)
      BY <1>t, <1>1, <1>2, <1>3
    <3>2. (Len(shown) + k - from + 1) - Len(shown) + from - 1 = k /\ Len(shown) + k - from + 1 > Len(shown)
      BY <1>t, <1>1
    <3> QED BY <2>1, <3>1, <3>2
  <2> QED BY <2>1, <2>2
<1>6. ASSUME NEW i \in 1 .. Len(order), NEW j \in 1 .. Len(order),
             NEW m \in 1 .. Len(requested), NEW n \in 1 .. Len(requested),
             order[i] = requested[m], order[j] = requested[n], SameSide(m, n)
      PROVE  i < j <=> m < n
  <2>a. ASSUME NEW k \in 1 .. Len(order), NEW l \in 1 .. Len(requested), order[k] = requested[l],
               k > Len(shown)
        PROVE  l = k - Len(shown) + from - 1 /\ l \in from .. Len(callbacks)
    <3> DEFINE s == k - Len(shown) + from - 1
    <3>1. s \in from .. Len(callbacks) /\ order[k] = requested[s]
      BY <1>a, <2>a
    <3>2. s \in 1 .. Len(requested)
      BY <1>4, <3>1
    <3> HIDE DEF s
    <3>3. s = l
      BY <1>0, <2>a, <3>1, <3>2 DEF RequestedOnce
    <3> QED BY <3>1, <3>3 DEF s
  <2>1. CASE i <= Len(shown) /\ j <= Len(shown)
    <3>1. order[i] = shown[i] /\ order[j] = shown[j] /\ i \in 1 .. Len(shown) /\ j \in 1 .. Len(shown)
      BY <1>t, <1>3, <2>1
    <3>2. shown[i] = requested[m] /\ shown[j] = requested[n]
      BY <1>6, <3>1
    <3> QED BY <1>0, <1>6, <3>1, <3>2 DEF ShownInOrder
  <2>2. i > Len(shown) => m = i - Len(shown) + from - 1 /\ m \in from .. Len(callbacks)
    BY <2>a, <1>6
  <2>3. j > Len(shown) => n = j - Len(shown) + from - 1 /\ n \in from .. Len(callbacks)
    BY <2>a, <1>6
  <2>4. CASE i > Len(shown) /\ j > Len(shown)
    BY <1>t, <1>1, <2>2, <2>3, <2>4
  <2>5. CASE i > Len(shown) /\ j <= Len(shown)
    <3>1. ready /\ shown[j] = requested[n] /\ Done(n) /\ ~Done(m)
      BY <1>0, <1>t, <1>1, <1>3, <1>4, <1>6, <2>2, <2>5 DEF Phases, ShownAreDone
    <3> QED BY <1>t, <1>1, <1>6, <2>5, <3>1 DEF SameSide, Done
  <2>6. CASE i <= Len(shown) /\ j > Len(shown)
    <3>1. ready /\ shown[i] = requested[m] /\ Done(m) /\ ~Done(n)
      BY <1>0, <1>t, <1>1, <1>3, <1>4, <1>6, <2>3, <2>6 DEF Phases, ShownAreDone
    <3> QED BY <1>t, <1>1, <1>6, <2>6, <3>1 DEF SameSide, Done
  <2> QED BY <1>t, <1>1, <1>3, <2>1, <2>4, <2>5, <2>6
<1>7. ASSUME NEW i \in 1 .. Len(order)
      PROVE  \E n \in 1 .. Len(requested) : order[i] = requested[n]
  <2>1. CASE i <= Len(shown)
    <3>1. order[i] = shown[i] /\ i \in 1 .. Len(shown)
      BY <1>t, <1>3, <2>1
    <3> QED BY <1>0, <3>1 DEF ShownAreDone
  <2>2. CASE i > Len(shown)
    BY <1>t, <1>1, <1>4, <1>a, <2>2
  <2> QED BY <1>t, <1>1, <1>3, <2>1, <2>2
<1>8. ASSUME NEW n \in 1 .. Len(requested)
      PROVE  \E i \in 1 .. Len(order) : order[i] = requested[n]
  <2>1. CASE n \in from .. Len(callbacks)
    BY <1>a, <2>1
  <2>2. CASE \E i \in 1 .. Len(shown) : shown[i] = requested[n]
    BY <1>t, <1>1, <1>2, <1>3, <2>2
  <2> QED BY <1>t, <1>5, <2>1, <2>2
<1>9. DOMAIN order = 1 .. Len(order) /\ DOMAIN requested = 1 .. Len(requested) /\ Len(order) \in Nat
  BY <1>t, <1>3
<1>10. IsInjective(order)
  <2> SUFFICES ASSUME NEW i \in 1 .. Len(order), NEW j \in 1 .. Len(order), order[i] = order[j]
               PROVE  i = j
    BY <1>t, <1>9 DEF IsInjective
  <2>1. PICK n \in 1 .. Len(requested) : order[i] = requested[n]
    BY <1>t, <1>7
  <2>2. ~(n < n) /\ SameSide(n, n)
    BY <1>t, <1>1 DEF SameSide
  <2>3. ~(i < j) /\ ~(j < i)
    BY <1>t, <1>6, <2>1, <2>2
  <2> QED BY <1>t, <1>9, <2>3
<1>11. ToSet(order) = ToSet(requested)
  <2>1. ASSUME NEW x \in ToSet(order) PROVE x \in ToSet(requested)
    BY <1>7, <1>9, <2>1 DEF ToSet
  <2>2. ASSUME NEW x \in ToSet(requested) PROVE x \in ToSet(order)
    BY <1>8, <1>9, <2>2 DEF ToSet
  <2> QED BY <2>1, <2>2
<1>12. ~ready => shown = <<>>
  BY <1>0, <1>t DEF Phases
<1> QED BY <1>t, <1>6, <1>10, <1>11, <1>12 DEF ShownOnceInOrder, order

\* Each message is shown once, those that waited in their order.
THEOREM MessagesShownOnce == DelaySpec => []ShownOnceInOrder
BY OrderOfAll, DelayInitially, DelayStep, PTL DEF DelaySpec
=============================================================================
