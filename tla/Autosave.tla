------------------------------ MODULE Autosave ------------------------------
(***************************************************************************)
(* A page of the workspace settings: useAutosave over the draft of the     *)
(* settings, the query cache it comes from, and the versioned update of    *)
(* the organization on the server.                                         *)
(*                                                                         *)
(* The settings are the field this page edits (`mine`), which is what its  *)
(* fingerprint covers, the fields other pages edit (`theirs`), and the     *)
(* version.  A save sends them all.  React renders, and runs the effect of *)
(* the hook, before the next event of the page; persist's `finally` runs   *)
(* before that render and still sees the draft of the last one.            *)
(***************************************************************************)
EXTENDS Naturals

CONSTANTS
    Inputs,     \* what can be in the field
    First,      \* what it holds when the page is opened
    Stored,     \* the server's normalization of an input
    Failures,   \* how a save may fail: "refused", "lost" (its answer)
    MaxInputs,  \* bound on edits and retries together
    MaxOthers   \* bound on saves of other administrators

ASSUME AutosaveAssumption ==
    /\ First \in Inputs /\ Stored \in [Inputs -> Inputs] /\ Stored[First] = First
    /\ \A i \in Inputs : Stored[Stored[i]] = Stored[i]
    /\ Failures \subseteq {"refused", "lost"} /\ MaxInputs \in Nat /\ MaxOthers \in Nat

VARIABLES
    server,     \* the row of the organization
    cached,     \* query.data
    fetched,    \* answer of a refetch on its way, Nothing if none
    draft,
    committed,  \* fingerprint of the last save
    cleanup,    \* the last run of the effect left a cleanup
    timer,      \* what the debounce timer will save, Nothing if unset
    saving,     \* the snapshot under way, Nothing if not inFlight
    answer,     \* "none", "saved", "read" (back), "failed": what the server
    result,     \* did with it, and the row it read back
    phase,
    confirm,    \* the 50 ms timer that shows "saved"
    typed,      \* history: the last input, or what a refetch put in its place
    replaced,   \* history: it is another input that a refetch put there
    inputs, others,
    grafted     \* history: the draft was given the version of other fields

pageVars == <<draft, committed, cleanup, timer, phase>>
saveVars == <<saving, answer, result>>
inputVars == <<typed, replaced, inputs>>
autosaveVars == <<server, cached, fetched, pageVars, saveVars, confirm, inputVars, others, grafted>>

Nothing == [version |-> 0]
Settings == [mine : Inputs, theirs : 0..MaxOthers, version : Nat \ {0}]
SettingsOrNothing == Settings \cup {Nothing}

AutosaveTypeOK ==
    /\ server \in Settings /\ cached \in Settings /\ draft \in Settings
    /\ fetched \in SettingsOrNothing
    /\ committed \in Inputs /\ cleanup \in BOOLEAN
    /\ timer \in SettingsOrNothing /\ saving \in SettingsOrNothing
    /\ answer \in {"none", "saved", "read", "failed"}
    /\ result \in SettingsOrNothing
    /\ phase \in {"idle", "dirty", "saving", "saved", "error"}
    /\ confirm \in BOOLEAN /\ typed \in Inputs /\ replaced \in BOOLEAN
    /\ inputs \in 0..MaxInputs /\ others \in 0..MaxOthers /\ grafted \in BOOLEAN

AutosaveInit ==
    /\ server = [mine |-> First, theirs |-> 0, version |-> 1]
    /\ cached = server /\ draft = server /\ fetched = Nothing
    /\ committed = First /\ cleanup = FALSE
    /\ timer = Nothing /\ saving = Nothing /\ answer = "none" /\ result = Nothing
    /\ phase = "idle" /\ confirm = FALSE
    /\ typed = First /\ replaced = FALSE /\ inputs = 0 /\ others = 0 /\ grafted = FALSE

Input == inputs < MaxInputs /\ inputs' = inputs + 1

-----------------------------------------------------------------------------
(* The page renders d.  A change of the signature runs the cleanup of the  *)
(* last effect and then the effect, which sets the timer unless d is what  *)
(* was saved last.  `set` and `shown` are the timer and the phase before.  *)
Rendered(d, saved, set, shown) ==
    LET kept == IF cleanup THEN Nothing ELSE set IN
    /\ draft' = d
    /\ committed' = saved
    /\ CASE d.mine = draft.mine ->
              timer' = set /\ phase' = shown /\ UNCHANGED cleanup
         [] d.mine # draft.mine /\ d.mine = saved ->
              timer' = kept /\ phase' = shown /\ cleanup' = FALSE
         [] OTHER ->
              timer' = d /\ phase' = "dirty" /\ cleanup' = TRUE

(* The user changes the field.                                             *)
Edit(i) ==
    /\ i # draft.mine /\ Input
    /\ Rendered([draft EXCEPT !.mine = i], committed, timer, phase)
    /\ typed' = i /\ replaced' = FALSE
    /\ UNCHANGED <<server, cached, fetched, saveVars, confirm, others, grafted>>

(* persist(snapshot): nothing happens while a save is under way.           *)
Persist(snapshot) ==
    IF saving # Nothing
    THEN UNCHANGED <<saving, phase>>
    ELSE saving' = snapshot /\ phase' = "saving"

(* 650 ms after the last change; 50 ms after a save it is confirmed.       *)
TimerFires ==
    /\ timer # Nothing /\ ~confirm
    /\ timer' = Nothing
    /\ Persist(timer)
    /\ UNCHANGED <<server, cached, fetched, draft, committed, cleanup, answer, result,
                   confirm, inputVars, others, grafted>>

RetryPressed ==
    /\ phase = "error" /\ Input
    /\ Persist(draft)
    /\ UNCHANGED <<server, cached, fetched, draft, committed, cleanup, timer, answer,
                   result, confirm, typed, replaced, others, grafted>>

ConfirmSaved ==
    /\ confirm
    /\ confirm' = FALSE
    /\ phase' = IF saving = Nothing /\ timer = Nothing THEN "saved" ELSE phase
    /\ UNCHANGED <<server, cached, fetched, draft, committed, cleanup, timer, saveVars,
                   inputVars, others, grafted>>

-----------------------------------------------------------------------------
UpdateUnversioned ==
    /\ saving # Nothing /\ answer = "none"
    /\ server' = [mine |-> Stored[saving.mine], theirs |-> saving.theirs,
                  version |-> server.version + 1]
    /\ answer' = "saved"
    /\ UNCHANGED <<cached, fetched, pageVars, saving, result, confirm, inputVars, others, grafted>>

(* UpdateSettings: the row is written if it still has expected_version;    *)
(* the answer is read after the commit.                                    *)
UpdateSettings ==
    /\ saving # Nothing /\ answer = "none"
    /\ IF saving.version = server.version
       THEN /\ server' = [mine |-> Stored[saving.mine], theirs |-> saving.theirs,
                          version |-> server.version + 1]
            /\ answer' = "saved"
       ELSE answer' = "failed" /\ UNCHANGED server
    /\ UNCHANGED <<cached, fetched, pageVars, saving, result, confirm, inputVars, others, grafted>>

ReadBack ==
    /\ answer = "saved"
    /\ answer' = "read" /\ result' = server
    /\ UNCHANGED <<server, cached, fetched, pageVars, saving, confirm, inputVars, others, grafted>>

CallFails ==
    /\ \/ saving # Nothing /\ answer = "none" /\ "refused" \in Failures
       \/ answer \in {"saved", "read"} /\ "lost" \in Failures
    /\ answer' = "failed" /\ result' = Nothing
    /\ UNCHANGED <<server, cached, fetched, pageVars, saving, confirm, inputVars, others, grafted>>

AnswerTaken(updated, snapshot) == updated

(* onSaved puts the answer in the place of the draft, or only its version  *)
(* when the user has typed on; finally sets the timer when the draft of    *)
(* the last render is not what was saved.                                  *)
Reconciled(updated, snapshot) ==
    IF draft.mine # snapshot.mine THEN [draft EXCEPT !.version = updated.version] ELSE updated

SaveSucceedsOnce ==
    /\ answer = "read"
    /\ Rendered(Reconciled(result, saving), result.mine, timer, phase)
    /\ saving' = Nothing /\ answer' = "none" /\ result' = Nothing
    /\ confirm' = TRUE
    /\ grafted' = (grafted \/ Reconciled(result, saving).theirs # result.theirs)
    /\ UNCHANGED <<server, cached, fetched, inputVars, others>>

SaveSucceeds ==
    LET again == draft.mine # result.mine IN
    /\ answer = "read"
    /\ Rendered(Reconciled(result, saving), result.mine, IF again THEN draft ELSE timer,
                IF again THEN "dirty" ELSE phase)
    /\ saving' = Nothing /\ answer' = "none" /\ result' = Nothing
    /\ confirm' = TRUE
    /\ grafted' = (grafted \/ Reconciled(result, saving).theirs # result.theirs)
    /\ UNCHANGED <<server, cached, fetched, inputVars, others>>

SaveFails ==
    /\ answer = "failed"
    /\ phase' = "error"
    /\ saving' = Nothing /\ answer' = "none"
    /\ UNCHANGED <<server, cached, fetched, draft, committed, cleanup, timer, result,
                   confirm, inputVars, others, grafted>>

-----------------------------------------------------------------------------
(* Another administrator saves another page.                               *)
OtherEdits ==
    /\ others < MaxOthers /\ others' = others + 1
    /\ server' = [server EXCEPT !.theirs = others + 1, !.version = @ + 1]
    /\ UNCHANGED <<cached, fetched, pageVars, saveVars, confirm, inputVars, grafted>>

(* The query is fetched again when the window gets the focus.  New data    *)
(* take the place of the draft.                                            *)
Refetch ==
    /\ fetched = Nothing /\ server # cached
    /\ fetched' = server
    /\ UNCHANGED <<server, cached, pageVars, saveVars, confirm, inputVars, others, grafted>>

RefetchArrives ==
    /\ fetched # Nothing
    /\ cached' = fetched
    /\ fetched' = Nothing
    /\ Rendered(fetched, committed, timer, phase)
    /\ typed' = fetched.mine
    /\ replaced' = (replaced \/ Stored[fetched.mine] # Stored[typed])
    /\ UNCHANGED <<server, saveVars, confirm, inputs, others, grafted>>

-----------------------------------------------------------------------------
AutosaveNext ==
    \/ \E i \in Inputs : Edit(i)
    \/ TimerFires \/ RetryPressed \/ ConfirmSaved
    \/ UpdateSettings \/ ReadBack \/ CallFails \/ SaveSucceeds \/ SaveFails
    \/ OtherEdits \/ Refetch \/ RefetchArrives

AutosaveSpec == AutosaveInit /\ [][AutosaveNext]_autosaveVars

(* Timers fire and requests are answered.                                  *)
AutosaveFairness ==
    /\ WF_autosaveVars(TimerFires) /\ WF_autosaveVars(ConfirmSaved)
    /\ WF_autosaveVars(UpdateSettings \/ ReadBack)
    /\ WF_autosaveVars(SaveSucceeds \/ SaveFails)
    /\ WF_autosaveVars(RefetchArrives)

AutosaveFairSpec == AutosaveSpec /\ AutosaveFairness

-----------------------------------------------------------------------------
(* The page shows "saved", with nothing left to do, only when the server   *)
(* has the last input: a change that was made while a save ran is not      *)
(* forgotten, although persist drops the call of its timer.                *)
SavedMeansStored ==
    phase = "saved" /\ timer = Nothing /\ saving = Nothing
        => server.mine = Stored[typed]

(* The draft is the last input, but for the server's normalization; the   *)
(* server keeps normalized input.                                          *)
DraftIsTyped ==
    Stored[draft.mine] = Stored[typed] /\ Stored[server.mine] = server.mine

(* What is known of a save under way, and of the row it has written.       *)
SaveUnderWay ==
    /\ answer # "none" => saving # Nothing
    /\ answer \in {"saved", "read"} => server.mine = Stored[saving.mine]
    /\ answer = "read" => result.mine = server.mine

(* Between the answer of a save and the next edit the page has nothing     *)
(* under way, what it saved is on the server, and so is the draft unless   *)
(* the timer is set.                                                       *)
Settled == confirm \/ phase = "saved"
SettledIsStored ==
    /\ phase \in {"saved", "error"} => saving = Nothing
    /\ confirm => saving = Nothing /\ phase # "error"
    /\ Settled => server.mine = committed
    /\ Settled /\ timer = Nothing => server.mine = Stored[draft.mine]

(* Why "saved" can be believed.                                            *)
SavedInv == DraftIsTyped /\ SaveUnderWay /\ SettledIsStored

(* A save of this page undoes what another administrator saved only after *)
(* useDraftReconciler gave the draft, for typing had gone on, the version  *)
(* of an answer whose other fields it does not have.                       *)
LostOnlyAfterGraft ==
    [][server'.theirs = server.theirs \/ OtherEdits \/ grafted]_autosaveVars

(* In the end the server has the last input of the user, also when it was  *)
(* made while a save ran, or the page shows an error; unless the answer of *)
(* a refetch replaced that input in the draft, which the page does without *)
(* a word.                                                                 *)
InputSavedOrShown == <>[](server.mine = Stored[typed] \/ phase = "error" \/ replaced)

=============================================================================
