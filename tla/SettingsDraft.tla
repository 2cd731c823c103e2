----------------------------- MODULE SettingsDraft -----------------------------
(***************************************************************************)
(* The preferences of the application: the document on disk, the settings  *)
(* in use, and the draft of the preferences dialog.  SettingsDialog.tsx    *)
(* with its pages (KeybindEditor, ThemeEditor, IntegrationsPage), import   *)
(* and export (settingsTransfer.ts), what is made of a document that was   *)
(* read (normalizeAppSettings of workspace.ts, lib/keybinds.ts), the       *)
(* colours of the window (theme.ts) and the delayed save                   *)
(* (useWorkspaceBootstrap.ts), with what the core accepts                  *)
(* (validate_settings of state.rs).                                        *)
(*                                                                         *)
(* A key combination is the modifiers held and the key, compared without   *)
(* their case.  A theme is its id, the length of its trimmed name, and two *)
(* paints: the interface and the graph lanes; Junk stands for any field    *)
(* that is not well formed.  Graph columns are in HistoryColumns.          *)
(***************************************************************************)
EXTENDS Integers, Sequences, FiniteSets, SequencesExt

CONSTANTS DefaultKeys,  \* DEFAULT_KEYBINDS: function from an action to its key
          Unchecked,    \* actions the core's own list of bindings leaves out
          Pressed,      \* combinations that can be pressed
          SystemKeys,   \* RESERVED_OS_KEYBINDS
          BareKeys,     \* BARE_INTERACTION_KEYS
          Presets,      \* DEFAULT_THEMES, a sequence of themes
          StateFiles,   \* documents a state file or an import may hold
          TypedNames,   \* theme names that can be typed
          TypedNumbers, \* numbers that can be typed
          TypedHosts,   \* host names that can be typed
          HostRoom,     \* MAX_FORGE_OVERRIDES of the core
          EditBound     \* edits and imports in a run, none is begun at the bound

ASSUME SettingsAssumption ==
    /\ HostRoom \in Nat /\ EditBound \in Nat
    /\ Unchecked \subseteq DOMAIN DefaultKeys
    /\ TypedNumbers \subseteq Int /\ "junk" \notin TypedHosts

VARIABLES
    disk,       \* settings of the state file, a document
    inUse,      \* persisted.settings
    hydrated,   \* the state file was read or refused, and the window is shown
    dirty,      \* the 250 ms timer that saves persisted is set
    draft,      \* settings of the open dialog, or NoDraft
    recording,  \* action whose shortcut is being captured, or ""
    transfer,   \* import or export in flight: "none", "import", "export"
    painted,    \* paints on the root element of the window
    edits       \* edits and imports so far (bound)

settingsVars == <<disk, inUse, hydrated, dirty, draft, recording, transfer, painted,
                  edits>>

KeyActions == DOMAIN DefaultKeys
Unassigned == [held |-> {}, key |-> ""]
Missing    == [held |-> {}, key |-> "missing"]  \* the field is not a string
Junk       == <<0, 0>>
NoLegacy   == <<-1, -1>>
MaxName    == 64
Flags      == {"auto_prune", "pull_requests", "checks"}
PullModes  == {"merge", "fast_forward_only", "rebase"}

\* The range boundedNumber and the core give every number.
NumberRange == [auto_fetch_interval_minutes |-> <<0, 60>>, history_page_size |-> <<1, 500>>,
                diff_context_lines |-> <<0, 100>>]

DefaultSettings ==
    [keys |-> DefaultKeys, themes |-> Presets, active |-> Presets[1].id,
     hosts |-> <<>>, mode |-> "merge", flags |-> Flags,
     numbers |-> [auto_fetch_interval_minutes |-> 1, history_page_size |-> 200,
                  diff_context_lines |-> 3]]

\* Themes of the presets or of a document, whatever their names and paints.
ThemeShape(t) ==
    /\ t = [id |-> t.id, name |-> t.name, preset |-> t.preset, paints |-> t.paints]
    /\ t.id = <<t.id[1], t.id[2]>> /\ t.id[2] \in Nat

ThemeList(themes) ==
    /\ themes \in Seq({themes[i] : i \in DOMAIN themes})
    /\ \A i \in DOMAIN themes : ThemeShape(themes[i])

\* Settings, and what a document holds in their place: every field, with whatever
\* is in it.
SettingsShape(s) ==
    /\ s = [keys |-> s.keys, themes |-> s.themes, active |-> s.active, hosts |-> s.hosts,
            mode |-> s.mode, flags |-> s.flags, numbers |-> s.numbers]
    /\ ThemeList(s.themes)
    /\ s.numbers \in [DOMAIN NumberRange -> Int]

\* The themes the application comes with.
ASSUME PresetAssumption ==
    /\ ThemeList(Presets) /\ Presets # <<>>
    /\ \A i \in DOMAIN Presets : /\ Presets[i].id[1] # "migrated-theme"
                                 /\ Presets[i].name \in 1..MaxName /\ Presets[i].paints # Junk
    /\ \A i, j \in DOMAIN Presets : Presets[i].id = Presets[j].id => i = j

ASSUME FilesAssumption ==
    \A file \in StateFiles : SettingsShape(file.settings) /\ DOMAIN file.settings.keys = KeyActions

NoDraft == [keys |-> <<>>]

-----------------------------------------------------------------------------
(* Shortcuts: lib/keybinds.ts. *)

\* keybindFromEvent: a modifier alone is no combination yet.
ModifierKeys == {"Control", "Shift", "Alt", "Meta"}
FromEvent(event) == IF event.key \in ModifierKeys THEN Unassigned ELSE event

\* keybindValidationError: the system's combinations, and the keys that move
\* through a window unless more than Shift is held with them.
Reserved(combination) ==
    \/ combination \in SystemKeys
    \/ combination.key \in BareKeys /\ combination.held \subseteq {"Shift"}

\* DEFAULT_KEYBINDS are combinations that could be captured, each for one action.
ASSUME KeysAssumption ==
    /\ IsFiniteSet(KeyActions)
    /\ \A a \in KeyActions : DefaultKeys[a] # Missing /\ ~Reserved(DefaultKeys[a])
    /\ \A a, b \in KeyActions : DefaultKeys[a] = DefaultKeys[b] => a = b

\* duplicateKeybinds: the actions that share their combination with another.
Clashes(keys) ==
    {a \in KeyActions : /\ keys[a] # Unassigned
                        /\ \E b \in KeyActions \ {a} : keys[b] = keys[a]}

Reset(keys, actions) ==
    [a \in KeyActions |-> IF a \in actions THEN DefaultKeys[a] ELSE keys[a]]

Invalid(combination) == combination = Missing \/ Reserved(combination)

\* normalizePersistedKeybinds with one look at the clashes.
NormalKeysOnce(read) ==
    LET first == Reset(read, {a \in KeyActions : Invalid(read[a])})
    IN  Reset(first, Clashes(first))

\* normalizePersistedKeybinds: giving a default back may take it from an action
\* that holds it, so the clashes are looked for again, once per action.
NormalKeys(read) ==
    LET first == Reset(read, {a \in KeyActions : Invalid(read[a])})
        pass[n \in 0..Cardinality(KeyActions)] ==
            IF n = 0 THEN first ELSE Reset(pass[n - 1], Clashes(pass[n - 1]))
    IN  pass[Cardinality(KeyActions)]

-----------------------------------------------------------------------------
(* Themes. *)

IdsOf(themes) == {themes[i].id : i \in DOMAIN themes}

\* uniqueThemeId: the id, or the first free one with a number behind it.
FreeId(id, themes) ==
    CHOOSE free \in {<<id[1], n>> : n \in id[2] .. id[2] + Len(themes)} :
        /\ free \notin IdsOf(themes)
        /\ \A n \in id[2] .. free[2] - 1 : <<id[1], n>> \in IdsOf(themes)

\* uniqueThemeName: a number is added when the name is taken.
FreeNames(length, themes) ==
    IF \E i \in DOMAIN themes : themes[i].name = length THEN {length, length + 2} ELSE {length}

\* activeTheme: the chosen theme, or the first.
ActiveTheme(s) ==
    LET at == SelectInSeq(s.themes, LAMBDA t : t.id = s.active)
    IN  s.themes[IF at = 0 THEN 1 ELSE at]

PaintsOf(s) == ActiveTheme(s).paints

\* The conditions under which normalizeAppSettings keeps a stored theme.
Storable(theme) ==
    /\ theme.id \notin IdsOf(Presets)
    /\ theme.name \in 1..MaxName
    /\ theme.paints # Junk

KeepTheme(kept, theme) ==
    IF Storable(theme)
    THEN Append(kept, [theme EXCEPT !.id = FreeId(theme.id, kept), !.preset = FALSE])
    ELSE kept

\* The presets, and behind them the stored themes that are kept, in their order.
StoredThemes(themes) ==
    LET kept[i \in 0..Len(themes)] ==
            IF i = 0 THEN Presets ELSE KeepTheme(kept[i - 1], themes[i])
    IN  kept[Len(themes)]

Migrated(paints) == [id |-> <<"migrated-theme", 1>>, name |-> 14, preset |-> FALSE, paints |-> paints]

-----------------------------------------------------------------------------
(* normalizeAppSettings: the settings made of a document. *)

Bounded(field, number) ==
    LET least == NumberRange[field][1]
        most  == NumberRange[field][2]
    IN  IF number < least THEN least ELSE IF number > most THEN most ELSE number

\* normalizeForgeOverrides: only a bare host with a known service stays.
NormalHosts(hosts) ==
    [h \in {h \in DOMAIN hosts : h # "junk" /\ hosts[h] # "unknown"} |-> hosts[h]]

Normalized(document, legacy) ==
    LET stored == IF legacy # NoLegacy THEN Presets
                  ELSE StoredThemes(document.themes)
        moved  == legacy \notin {NoLegacy, Junk, Presets[1].paints}
    IN [document EXCEPT
          !.keys    = NormalKeys(@),
          !.themes  = IF moved THEN Append(stored, Migrated(legacy)) ELSE stored,
          !.active  = IF moved THEN Migrated(legacy).id
                      ELSE IF @ \in IdsOf(stored) THEN @ ELSE Presets[1].id,
          !.hosts   = NormalHosts(@),
          !.numbers = [f \in DOMAIN NumberRange |-> Bounded(f, @[f])]]

\* validate_settings: what the core reads and writes.
Accepted(s) ==
    LET listed == KeyActions \ Unchecked IN
    /\ \A f \in DOMAIN NumberRange : s.numbers[f] = Bounded(f, s.numbers[f])
    /\ Cardinality(DOMAIN s.hosts) <= HostRoom /\ "junk" \notin DOMAIN s.hosts
    /\ \A a \in listed : ~Reserved(s.keys[a])
    /\ \A a, b \in listed : a # b /\ s.keys[a] # Unassigned => s.keys[a] # s.keys[b]
    /\ s.active \in IdsOf(s.themes)
    /\ Cardinality(IdsOf(s.themes)) = Len(s.themes)
    /\ \A i \in DOMAIN s.themes : /\ s.themes[i].name \in 1..MaxName
                                  /\ s.themes[i].paints # Junk

\* What the core makes of a document before it looks: absent fields and the
\* colours of an older version are filled in.
Filled(file) ==
    LET s == [file.settings EXCEPT !.keys = Reset(@, {a \in KeyActions : @[a] = Missing})]
    IN  IF file.legacy = NoLegacy THEN s
        ELSE [s EXCEPT !.themes = Append(Presets, Migrated(file.legacy)),
                       !.active = Migrated(file.legacy).id]

-----------------------------------------------------------------------------
SettingsInit ==
    /\ disk \in {file \in StateFiles : file.ours}
    /\ inUse = DefaultSettings /\ painted = PaintsOf(DefaultSettings)
    /\ hydrated = FALSE /\ dirty = FALSE
    /\ draft = NoDraft /\ recording = "" /\ transfer = "none"
    /\ edits = 0

\* The bootstrap reads the state file.  A document the core refuses leaves the
\* settings the application was born with, and both are saved.
LoadSettings ==
    /\ ~hydrated /\ hydrated' = TRUE /\ dirty' = TRUE
    /\ LET filled == Filled(disk)
           s == IF Accepted(filled) THEN Normalized(filled, NoLegacy) ELSE inUse
       IN  inUse' = s /\ painted' = PaintsOf(s)
    /\ UNCHANGED <<disk, draft, recording, transfer, edits>>

\* The timer of the save; the disk may refuse it.
SaveState ==
    /\ dirty /\ dirty' = FALSE
    /\ \/ Accepted(inUse) /\ disk' = [settings |-> inUse, legacy |-> NoLegacy, ours |-> TRUE]
       \/ UNCHANGED disk
    /\ UNCHANGED <<inUse, hydrated, draft, recording, transfer, painted, edits>>

\* A tab, a recent repository or a directory is recorded: the effect of
\* persisted paints the window again and sets the timer.
WorkspaceMoves ==
    /\ hydrated
    /\ dirty' = TRUE /\ painted' = PaintsOf(inUse)
    /\ UNCHANGED <<disk, inUse, hydrated, draft, recording, transfer, edits>>

\* The window is closed, a set timer with it, and the application started again.
RestartSettings ==
    /\ hydrated /\ hydrated' = FALSE /\ dirty' = FALSE
    /\ inUse' = DefaultSettings /\ painted' = PaintsOf(DefaultSettings)
    /\ draft' = NoDraft /\ recording' = "" /\ transfer' = "none"
    /\ UNCHANGED <<disk, edits>>

OpenSettings ==
    /\ hydrated /\ draft = NoDraft
    /\ draft' = inUse /\ painted' = PaintsOf(inUse)
    /\ UNCHANGED <<disk, inUse, hydrated, dirty, recording, transfer, edits>>

-----------------------------------------------------------------------------
(* The dialog. *)

Savable == Clashes(draft.keys) = {} /\ ActiveTheme(draft).name # 0

\* The dialog is taken away without the cleanup of its preview.
PaintAfterDraft(s) == PaintsOf(draft)

\* The cleanup of the preview paints the settings the dialog was opened with,
\* and the effect of persisted the ones in use now.
PaintAfterDialog(s) == PaintsOf(s)

CloseDialog(s) ==
    /\ draft' = NoDraft /\ recording' = "" /\ transfer' = "none"
    /\ painted' = PaintAfterDialog(s)
    /\ inUse' = s

CancelSettings ==
    /\ draft # NoDraft /\ CloseDialog(inUse)
    /\ UNCHANGED <<disk, hydrated, dirty, edits>>

SaveSettings ==
    /\ draft # NoDraft /\ Savable
    /\ CloseDialog(Normalized(draft, NoLegacy))
    /\ dirty' = TRUE
    /\ UNCHANGED <<disk, hydrated, edits>>

\* setDraft and the preview of the new draft.
EditDraft(s) ==
    /\ edits < EditBound /\ edits' = edits + 1
    /\ draft' = s /\ painted' = PaintsOf(s)
    /\ UNCHANGED <<disk, inUse, hydrated, dirty>>

\* Any page of the dialog can be turned to; the shortcuts page takes a capture
\* with it.
Turned == draft # NoDraft /\ UNCHANGED transfer /\ recording' = ""

ResetDefaults ==
    /\ draft # NoDraft /\ EditDraft(DefaultSettings) /\ UNCHANGED <<recording, transfer>>

TypeNumber(field, number) ==
    /\ Turned
    /\ EditDraft([draft EXCEPT !.numbers[field] = number])

\* The check box of the checks is disabled without the pull requests.
ToggleFlag(flag) ==
    /\ Turned
    /\ flag = "checks" => "pull_requests" \in draft.flags
    /\ EditDraft([draft EXCEPT !.flags = (@ \ {flag}) \cup ({flag} \ @)])

ChoosePullMode(mode) ==
    /\ Turned
    /\ EditDraft([draft EXCEPT !.mode = mode])

-----------------------------------------------------------------------------
(* The shortcuts page. *)

Record(action) ==
    /\ draft # NoDraft /\ UNCHANGED transfer /\ recording' = action
    /\ edits < EditBound
    /\ UNCHANGED <<disk, inUse, hydrated, dirty, draft, painted, edits>>

\* The focus is lost or another page shown.
StopRecording ==
    /\ draft # NoDraft /\ UNCHANGED transfer /\ recording # "" /\ recording' = ""
    /\ UNCHANGED <<disk, inUse, hydrated, dirty, draft, painted, edits>>

\* A key goes down during a capture: Escape gives up, Backspace and Delete clear
\* the shortcut whatever is held with them, a reserved combination is refused.
Capture(event) ==
    /\ draft # NoDraft /\ UNCHANGED transfer /\ recording # ""
    /\ recording' = ""
    /\ LET combination == FromEvent(event) IN
       \/ /\ event.key \in {"Backspace", "Delete"}
          /\ EditDraft([draft EXCEPT !.keys[recording] = Unassigned])
       \/ /\ event.key \notin {"Escape", "Backspace", "Delete"}
          /\ combination # Unassigned /\ ~Reserved(combination)
          /\ EditDraft([draft EXCEPT !.keys[recording] = combination])
       \/ /\ \/ event.key = "Escape"
             \/ event.key \notin {"Backspace", "Delete"} /\ Reserved(combination)
          /\ UNCHANGED <<disk, inUse, hydrated, dirty, draft, painted, edits>>

ResetKey(action) ==
    /\ draft # NoDraft /\ UNCHANGED transfer /\ UNCHANGED recording
    /\ draft.keys[action] # DefaultKeys[action]
    /\ EditDraft([draft EXCEPT !.keys[action] = DefaultKeys[action]])

-----------------------------------------------------------------------------
(* The themes page and the hosts of the integrations page. *)

\* createTheme: a copy of a theme under a new name becomes the chosen one.
AddTheme(source, length) ==
    LET id == FreeId(<<"theme", 1>>, draft.themes) IN
    \E name \in FreeNames(length, draft.themes) :
        EditDraft([draft EXCEPT
            !.active = id,
            !.themes = Append(@, [id |-> id, name |-> name, preset |-> FALSE,
                                  paints |-> source.paints])])

CreateTheme ==
    Turned /\ AddTheme(ActiveTheme(draft), 12)

DuplicateTheme ==
    /\ Turned
    /\ AddTheme(ActiveTheme(draft), ActiveTheme(draft).name + 5)

SelectTheme(id) ==
    /\ Turned
    /\ EditDraft([draft EXCEPT !.active = id])

OwnTheme(theme) == Turned /\ ~theme.preset

\* The themes of other ids, and the presets.
ThemesBut(themes, id) ==
    LET keep == {i \in DOMAIN themes : themes[i].id # id \/ themes[i].preset}
        f[i \in 0..Len(themes)] == IF i = 0 THEN <<>>
                                   ELSE IF i \in keep THEN Append(f[i - 1], themes[i])
                                   ELSE f[i - 1]
    IN  f[Len(themes)]

DeleteTheme ==
    /\ OwnTheme(ActiveTheme(draft))
    /\ LET id == ActiveTheme(draft).id IN
       EditDraft([draft EXCEPT
           !.active = IF @ = id THEN Presets[1].id ELSE @,
           !.themes = ThemesBut(@, id)])

\* updateSelectedTheme: every theme with the chosen id, so none for an id that
\* names no theme.
ChangeTheme(Change(_)) ==
    /\ OwnTheme(ActiveTheme(draft))
    /\ EditDraft([draft EXCEPT !.themes =
           [i \in DOMAIN @ |-> IF @[i].id = draft.active THEN Change(@[i]) ELSE @[i]]])

RenameTheme(length) == ChangeTheme(LAMBDA t : [t EXCEPT !.name = length])
ChangeColour(paint) == ChangeTheme(LAMBDA t : [t EXCEPT !.paints[1] = paint])
ChangeLanes(paint)  == ChangeTheme(LAMBDA t : [t EXCEPT !.paints[2] = paint])

AddHost(host, service) ==
    /\ Turned
    /\ host \notin DOMAIN draft.hosts
    /\ EditDraft([draft EXCEPT !.hosts =
           [h \in DOMAIN @ \cup {host} |-> IF h = host THEN service ELSE @[h]]])

RemoveHost(host) ==
    /\ Turned
    /\ EditDraft([draft EXCEPT !.hosts = [h \in DOMAIN @ \ {host} |-> @[h]]])

-----------------------------------------------------------------------------
(* Import and export. *)

StartTransfer(kind) ==
    /\ draft # NoDraft /\ transfer = "none" /\ edits < EditBound
    /\ kind = "export" => Savable
    /\ transfer' = kind
    /\ UNCHANGED <<disk, inUse, hydrated, dirty, draft, recording, painted, edits>>

\* What an import makes of a file: natively the core reads it and refuses what
\* it would not store; in a browser parseSettingsFile takes any object.  Both
\* refuse a document of another format.
Importable(file, native) == file.ours /\ (native => Accepted(Filled(file)))

Imported(file, native) ==
    IF native THEN Normalized(Filled(file), NoLegacy)
    ELSE Normalized(file.settings, file.legacy)

ImportAnswers(file, native) ==
    /\ transfer = "import" /\ transfer' = "none"
    /\ Importable(file, native) /\ EditDraft(Imported(file, native))
    /\ UNCHANGED recording

\* The system's dialog was cancelled, or the file could not be read.
ImportFails ==
    /\ transfer = "import" /\ transfer' = "none"
    /\ UNCHANGED <<disk, inUse, hydrated, dirty, draft, recording, painted, edits>>

\* The draft was written as it is, refused by the core, or not written.
ExportAnswers ==
    /\ transfer = "export" /\ transfer' = "none"
    /\ UNCHANGED <<disk, inUse, hydrated, dirty, draft, recording, painted, edits>>

-----------------------------------------------------------------------------
SettingsNext ==
    \/ LoadSettings \/ SaveState \/ WorkspaceMoves \/ RestartSettings
    \/ OpenSettings \/ CancelSettings \/ SaveSettings
    \/ ResetDefaults
    \/ \E f \in DOMAIN NumberRange, n \in TypedNumbers : TypeNumber(f, n)
    \/ \E f \in Flags : ToggleFlag(f)
    \/ \E m \in PullModes : ChoosePullMode(m)
    \/ \E a \in KeyActions : Record(a) \/ ResetKey(a)
    \/ StopRecording
    \/ \E e \in Pressed : Capture(e)
    \/ CreateTheme \/ DuplicateTheme \/ DeleteTheme
    \/ \E id \in IF draft = NoDraft THEN {} ELSE IdsOf(draft.themes) : SelectTheme(id)
    \/ \E length \in TypedNames : RenameTheme(length)
    \/ \E p \in {1, 2} : ChangeColour(p) \/ ChangeLanes(p)
    \/ \E h \in TypedHosts, s \in {"github", "gitea"} : AddHost(h, s)
    \/ \E h \in IF draft = NoDraft THEN {} ELSE DOMAIN draft.hosts : RemoveHost(h)
    \/ \E kind \in {"import", "export"} : StartTransfer(kind)
    \/ \E file \in StateFiles, native \in BOOLEAN : ImportAnswers(file, native)
    \/ ImportFails \/ ExportAnswers

SettingsSpec == SettingsInit /\ [][SettingsNext]_settingsVars

-----------------------------------------------------------------------------
SettingsTypeOK ==
    /\ hydrated \in BOOLEAN /\ dirty \in BOOLEAN
    /\ recording \in KeyActions \cup {""}
    /\ transfer \in {"none", "import", "export"}
    /\ edits \in 0..EditBound

\* The core never refuses the settings in use, which every save sends to it once
\* they are read: whatever was read, imported and edited, they pass
\* validate_settings of state.rs, and no two actions share a key, also not the
\* ones validate_settings does not look at.  Otherwise every later save of the
\* workspace fails.  (normalizeAppSettings of workspace.ts.)
SavesAreAccepted ==
    hydrated => Accepted(inUse) /\ Clashes(inUse.keys) = {}

\* A preview ends with the dialog: without one, the window shows the theme of
\* the settings in use.  (Both effects of SettingsDialog.tsx and the effect of
\* persisted in useWorkspaceBootstrap.ts.)
PreviewEnds == draft = NoDraft => painted = PaintsOf(inUse)

\* The preview lasts as long as the dialog: its draft is what the window shows.
\* (SettingsDialog.tsx: "Changes stay in preview until saved.")
PreviewStays == draft # NoDraft => painted = PaintsOf(draft)

\* Saving keeps what the window shows.  (SettingsDialog.tsx, normalizeAppSettings.)
SavedIsPreviewed ==
    [][hydrated' /\ draft # NoDraft /\ draft' = NoDraft /\ inUse' # inUse
       => PaintsOf(inUse') = PaintsOf(draft)]_settingsVars

\* A state file the core could not read is still there after the start.
UnreadFileStays == [][~Accepted(Filled(disk)) => disk' = disk]_settingsVars
=============================================================================
