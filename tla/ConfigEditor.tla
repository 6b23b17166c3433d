----------------------------- MODULE ConfigEditor -----------------------------
(***************************************************************************)
(* The editor of configuration files and secrets                           *)
(* (frontend/app/view/waveconfig/waveconfig-model.ts).                     *)
(*                                                                         *)
(* One text, one flag for loading and one for saving serve all files. The  *)
(* user may select another file whatever is under way, and the end of each *)
(* call sets them for what is selected then. So nothing but the order of   *)
(* the assignments keeps the text of one file out of another one.          *)
(*                                                                         *)
(* A text is modelled by the file that it was made from and the number of  *)
(* the edit that made it; a secret by the name under which it was typed.   *)
(* Texts that are not valid are not saved and left out.                    *)
(***************************************************************************)
EXTENDS Naturals, FiniteSets

CONSTANTS Files,
          Settings,      \* settings.json, which setConfigValues changes
          Names,         \* the names a secret may have
          Vault,         \* the file "Secrets", which is not one of Files
          Nothing,       \* where there is no file, name, text or value
          MaxEdits,      \* bound: texts typed or made by the visual editors
          MaxEditorCalls,    \* bound: calls
          MaxEditorFailures  \* bound: calls that fail

\* The files and the names are not Nothing, and the view of the secrets is no file.
EditorNames == /\ Settings \in Files /\ Vault \notin Files
               /\ Nothing \notin Files \union {Vault} /\ Nothing \notin Names
ASSUME EditorAssumption == EditorNames

VARIABLES
  disk,        \* the text in each file
  selected,    \* selectedFileAtom
  text,        \* fileContentAtom
  hasEdited, isLoading, isSaving,
  secrets,     \* the backend's secrets: the name each was typed under, Nothing if there is none
  secretNames,
  detail,      \* [selected, value, shown] of a secret's view
  editorCalls, \* calls under way: [id, kind, of, val, done]
  edits, editorMade, editorFailures,
  editorOdd    \* history: files and names that a call of another one met when it
               \* ended, or of which a call failed or met another call

editorVars == <<disk, selected, text, hasEdited, isLoading, isSaving, secrets, secretNames,
                detail, editorCalls, edits, editorMade, editorFailures, editorOdd>>
vault == <<secrets, secretNames, detail>>

Text(of, n) == [of |-> of, n |-> n]
NoText == Text(Nothing, 0)
NoDetail == [selected |-> Nothing, value |-> Nothing, shown |-> FALSE]

\* A call of the backend: what it reads or writes, and the answer once it is done.
EditorCall(kind, of, val) == [id |-> editorMade + 1, kind |-> kind, of |-> of, val |-> val, done |-> FALSE]
MadeAfter(others, kind, of, val) ==
  /\ editorMade < MaxEditorCalls
  /\ editorMade' = editorMade + 1
  /\ editorCalls' = others \union {EditorCall(kind, of, val)}
Made(kind, of, val) == MadeAfter(editorCalls, kind, of, val)

CallUnderWay(kinds, of) == \E c \in editorCalls : c.kind \in kinds /\ c.of = of
Reads == {"read", "reread"}
Writes == {"write", "settings"}
Changes == {"set", "add", "delete"}

EditorInit ==
  /\ disk = [f \in Files |-> Text(f, 0)]
  /\ selected = Nothing /\ text = NoText
  /\ hasEdited = FALSE /\ isLoading = FALSE /\ isSaving = FALSE
  /\ secrets \in {v \in [Names -> Names \union {Nothing}] : \A s \in Names : v[s] \in {s, Nothing}}
  /\ secretNames = {} /\ detail = NoDetail
  /\ editorCalls = {} /\ edits = 0 /\ editorMade = 0 /\ editorFailures = 0
  /\ editorOdd = {}

(***************************************************************************)
(* Files                                                                   *)
(***************************************************************************)
startLoad(f, others) ==
  /\ isLoading' = TRUE /\ hasEdited' = FALSE /\ UNCHANGED selected
  /\ editorOdd' = editorOdd \union {g \in {f} : \E c \in others : c.kind \in Writes /\ c.of = g}

loadFile(f) ==
  /\ startLoad(f, editorCalls)
  /\ Made("read", f, Nothing)
  /\ UNCHANGED <<disk, text, isSaving, vault, edits, editorFailures>>

\* handleContentChange: while a file is loading there is no editor.
Edit ==
  /\ selected \in Files /\ ~isLoading /\ edits < MaxEdits
  /\ edits' = edits + 1
  /\ text' = Text(text.of, edits + 1) /\ hasEdited' = TRUE
  /\ UNCHANGED <<disk, selected, isLoading, isSaving, vault, editorCalls, editorMade, editorFailures, editorOdd>>

Write(kind, f, val) ==
  /\ isSaving' = TRUE
  /\ Made(kind, f, val)
  /\ editorOdd' = editorOdd \union {g \in {f} : CallUnderWay(Writes \union Reads, g)}
  /\ UNCHANGED <<disk, selected, text, hasEdited, isLoading, vault, editorFailures>>

\* By the button or the key, which look whether there are changes.
saveFile ==
  /\ selected \in Files /\ hasEdited /\ ~isSaving
  /\ Write("write", selected, text) /\ UNCHANGED edits

\* By a visual editor, from the text that it shows.
saveJsonObject ==
  /\ selected \in Files \ {Settings} /\ ~isLoading /\ edits < MaxEdits
  /\ edits' = edits + 1
  /\ Write("write", selected, Text(text.of, edits + 1))

\* By the visual editor of the settings and of others.
setConfigValues ==
  /\ selected \in Files /\ ~isLoading /\ edits < MaxEdits
  /\ edits' = edits + 1
  /\ Write("settings", Settings, Text(Settings, edits + 1))

Answered(kinds, c) == c \in editorCalls /\ c.done /\ c.kind \in kinds

\* A file is selected when its text is there.
FileRead(c) ==
  /\ Answered(Reads, c) /\ editorCalls' = editorCalls \ {c}
  /\ text' = c.val /\ selected' = c.of
  /\ isLoading' = FALSE
  /\ isSaving' = (isSaving /\ c.kind = "read")
  /\ UNCHANGED <<disk, hasEdited, vault, edits, editorMade, editorFailures, editorOdd>>

\* What was saved becomes the text, whichever file is selected by then.
FileWritten(c) ==
  /\ Answered({"write"}, c) /\ editorCalls' = editorCalls \ {c}
  /\ text' = c.val /\ hasEdited' = FALSE /\ isSaving' = FALSE
  /\ editorOdd' = editorOdd \union ({selected} \ {c.of})
  /\ UNCHANGED <<disk, selected, isLoading, vault, edits, editorMade, editorFailures>>

\* If the settings are selected they are loaded again before the saving ends.
SettingsSet(c) ==
  /\ Answered({"settings"}, c)
  /\ IF selected = Settings
     THEN /\ startLoad(Settings, editorCalls \ {c}) /\ UNCHANGED isSaving
          /\ MadeAfter(editorCalls \ {c}, "reread", Settings, Nothing)
     ELSE /\ isSaving' = FALSE /\ editorCalls' = editorCalls \ {c}
          /\ UNCHANGED <<selected, hasEdited, isLoading, editorMade, editorOdd>>
  /\ UNCHANGED <<disk, text, vault, edits, editorFailures>>

(***************************************************************************)
(* Secrets                                                                 *)
(***************************************************************************)
MeetsChange == {v \in {Vault} : \E d \in editorCalls : d.kind \in Changes}

\* loadFile of the secrets, which calls refreshSecrets
loadSecrets ==
  /\ selected' = Vault /\ hasEdited' = FALSE /\ isLoading' = TRUE
  /\ Made("names", Vault, Nothing)
  /\ editorOdd' = editorOdd \union MeetsChange
  /\ UNCHANGED <<disk, text, isSaving, vault, edits, editorFailures>>

VaultShown == selected = Vault /\ ~isLoading

\* mutation: the value of the secret before is kept
viewSecretAsIs(s) ==
  /\ VaultShown /\ detail.selected = Nothing /\ s \in secretNames
  /\ detail' = [detail EXCEPT !.selected = s]
  /\ UNCHANGED <<disk, selected, text, hasEdited, isLoading, isSaving, secrets, secretNames,
                 editorCalls, edits, editorMade, editorFailures, editorOdd>>

viewSecret(s) ==
  /\ VaultShown /\ detail.selected = Nothing /\ s \in secretNames
  /\ detail' = [NoDetail EXCEPT !.selected = s]
  /\ UNCHANGED <<disk, selected, text, hasEdited, isLoading, isSaving, secrets, secretNames,
                 editorCalls, edits, editorMade, editorFailures, editorOdd>>

closeSecretView ==
  /\ VaultShown /\ detail.selected # Nothing
  /\ detail' = NoDetail
  /\ UNCHANGED <<disk, selected, text, hasEdited, isLoading, isSaving, secrets, secretNames,
                 editorCalls, edits, editorMade, editorFailures, editorOdd>>

SecretRequest(kind, s, val) ==
  /\ VaultShown /\ isLoading' = TRUE
  /\ Made(kind, s, val)
  /\ editorOdd' = editorOdd \union {g \in {s} : kind \in Changes /\ CallUnderWay(Changes \union {"show"}, g)}
                \union {g \in {Vault} : kind \in Changes /\ CallUnderWay({"names"}, g)}
                \union {g \in {Vault} : kind = "set" /\ s \notin secretNames}
  /\ UNCHANGED <<disk, selected, text, hasEdited, isSaving, vault, edits, editorFailures>>

showSecret == detail.selected # Nothing /\ ~detail.shown /\ SecretRequest("show", detail.selected, Nothing)

\* Where nothing is shown the value has been typed.
saveSecret ==
  /\ detail.selected # Nothing
  /\ SecretRequest("set", detail.selected, IF detail.shown THEN detail.value ELSE detail.selected)

deleteSecret == detail.selected # Nothing /\ SecretRequest("delete", detail.selected, Nothing)

addNewSecret(s) == detail.selected = Nothing /\ s \notin secretNames /\ SecretRequest("add", s, s)

NamesFound(c) ==
  /\ Answered({"names"}, c) /\ editorCalls' = editorCalls \ {c}
  /\ secretNames' = c.val /\ isLoading' = FALSE
  /\ UNCHANGED <<disk, selected, text, hasEdited, isSaving, secrets, detail, edits, editorMade, editorFailures, editorOdd>>

\* The value is shown in the view that is open by then.
SecretFound(c) ==
  /\ Answered({"show"}, c) /\ editorCalls' = editorCalls \ {c}
  /\ detail' = IF c.val = Nothing THEN detail ELSE [detail EXCEPT !.value = c.val, !.shown = TRUE]
  /\ isLoading' = FALSE
  /\ editorOdd' = editorOdd \union ({detail.selected} \ {c.of})
  /\ UNCHANGED <<disk, selected, text, hasEdited, isSaving, secrets, secretNames, edits, editorMade, editorFailures>>

SecretSet(c) ==
  /\ Answered({"set"}, c) /\ editorCalls' = editorCalls \ {c}
  /\ detail' = NoDetail /\ isLoading' = FALSE
  /\ UNCHANGED <<disk, selected, text, hasEdited, isSaving, secrets, secretNames, edits, editorMade, editorFailures, editorOdd>>

\* A secret was added or deleted: refreshSecrets.
NamesChanged(c) ==
  /\ Answered({"add", "delete"}, c)
  /\ detail' = IF c.kind = "delete" THEN NoDetail ELSE detail
  /\ isLoading' = TRUE
  /\ MadeAfter(editorCalls \ {c}, "names", Vault, Nothing)
  /\ editorOdd' = editorOdd \union {g \in {Vault} : \E d \in editorCalls \ {c} : d.kind \in Changes}
  /\ UNCHANGED <<disk, selected, text, hasEdited, isSaving, secrets, secretNames, edits, editorFailures>>

(***************************************************************************)
(* The backend                                                             *)
(***************************************************************************)
Found(c) ==
  CASE c.kind \in Reads -> disk[c.of]
    [] c.kind = "names" -> {s \in Names : secrets[s] # Nothing}
    [] c.kind = "show" -> secrets[c.of]
    [] OTHER -> c.val

Serve(c) ==
  /\ c \in editorCalls /\ ~c.done
  /\ editorCalls' = (editorCalls \ {c}) \union {[c EXCEPT !.done = TRUE, !.val = Found(c)]}
  /\ disk' = CASE c.kind = "write" -> [disk EXCEPT ![c.of] = c.val]
               [] c.kind = "settings" -> [disk EXCEPT ![c.of].n = c.val.n]
               [] OTHER -> disk
  /\ secrets' = IF c.kind \in Changes THEN [secrets EXCEPT ![c.of] = c.val] ELSE secrets
  /\ UNCHANGED <<selected, text, hasEdited, isLoading, isSaving, secretNames, detail, edits,
                 editorMade, editorFailures, editorOdd>>

\* A call fails before the backend has it, or its answer is lost. A file that is
\* not loaded leaves an empty text under the name of the one before.
EditorCallFails(c) ==
  /\ c \in editorCalls /\ editorFailures < MaxEditorFailures /\ editorFailures' = editorFailures + 1
  /\ editorCalls' = editorCalls \ {c}
  /\ IF c.kind \in Reads THEN text' = NoText ELSE UNCHANGED text
  /\ isLoading' = (isLoading /\ c.kind \in Writes)
  /\ isSaving' = (isSaving /\ c.kind \notin Writes \union {"reread"})
  /\ editorOdd' = editorOdd \union (IF c.kind \in Reads THEN {selected} ELSE {})
                \union (IF c.kind \in Writes /\ c.done THEN {c.of} ELSE {})
                \union (IF (c.kind \in Changes /\ c.done) \/ c.kind = "names" THEN {Vault} ELSE {})
  /\ UNCHANGED <<disk, selected, hasEdited, vault, edits, editorMade>>

EditorNext ==
  \/ Edit \/ saveFile \/ saveJsonObject \/ setConfigValues
  \/ loadSecrets \/ closeSecretView \/ showSecret \/ saveSecret \/ deleteSecret
  \/ \E f \in Files : loadFile(f)
  \/ \E s \in Names : viewSecret(s) \/ addNewSecret(s)
  \/ \E c \in editorCalls :
       \/ FileRead(c) \/ FileWritten(c) \/ SettingsSet(c) \/ NamesFound(c)
       \/ SecretFound(c) \/ SecretSet(c) \/ NamesChanged(c) \/ Serve(c) \/ EditorCallFails(c)

EditorSpec == EditorInit /\ [][EditorNext]_editorVars

-----------------------------------------------------------------------------
(* Properties *)

\* No file gets a text that was made from another one, and no secret the value of
\* another one, whatever the user selects while calls are under way, but where
\* the end of a call met another selection.
OwnContents ==
  /\ \A f \in Files \ editorOdd : disk[f].of = f
  /\ \A s \in Names \ editorOdd : secrets[s] \in {s, Nothing}

\* When all calls have ended nothing says that it loads or saves, and a text
\* without changes is that of the file, the names those of the secrets.
AtRestAgrees ==
  editorCalls = {} =>
    /\ ~isLoading /\ ~isSaving
    /\ selected \in Files \ editorOdd /\ ~hasEdited => text = disk[selected]
    /\ selected = Vault /\ Vault \notin editorOdd => secretNames = {s \in Names : secrets[s] # Nothing}

\* No file or secret gets what was made from another one, and at rest the editor
\* shows what the file has.
EditorAgrees == OwnContents /\ AtRestAgrees
=============================================================================
