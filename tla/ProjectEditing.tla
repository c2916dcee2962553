--------------------------- MODULE ProjectEditing ---------------------------
(***************************************************************************)
(* Editing one project of the local database in several tabs: the autosave *)
(* controller of each open editor (persistence/autosave.ts) and the        *)
(* transaction its saves run (persistence/stores/projectStore.ts with      *)
(* persistence/staleWrite.ts).                                             *)
(*                                                                         *)
(* A version of the project is the instant it was changed at, the edits it *)
(* contains, and whether it names the one supplier.  The instant stands    *)
(* for updatedAt, which the code compares; two changes never share a       *)
(* millisecond here.  A transaction commits or aborts as a whole; the tab  *)
(* learns of it in a later step.                                           *)
(***************************************************************************)
EXTENDS Naturals, FiniteSets

CONSTANTS
    Tabs,
    Edits,        \* what can be typed, each edit once
    RetryLimit,   \* the number of retry delays
    None          \* no version, no save

ASSUME RetryLimitIsNat == RetryLimit \in Nat
ASSUME NoneIsNoVersion == None \notin [at : Nat, edits : SUBSET Edits, refs : BOOLEAN]

VARIABLES
    database,     \* the stored project and whether the supplier is stored
    editors,      \* the editor of each tab with its controller
    typed,        \* the edits typed so far
    clock         \* the instant of the latest change or snapshot

editingVars == <<database, editors, typed, clock>>

Version == [at : Nat, edits : SUBSET Edits, refs : BOOLEAN]
Database == [project : Version \cup {None}, supplier : BOOLEAN]

\* A save in progress: what it writes, the version it says it replaces, and
\* what its transaction did.
Save == [value : Version, previous : Version \cup {None},
         result : {"waiting", "committed", "failed"}]

ASSUME NoneIsNoSave == None \notin Save

Editor ==
    [status   : {"CLOSED", "OPEN", "DISPOSED"},
     base     : Version \cup {None},  \* as loaded or last saved
     work     : Version \cup {None},  \* what the screen shows
     buffered : Version \cup {None},
     timer    : BOOLEAN,              \* a debounce or a retry is armed
     saving   : Save \cup {None},
     failed   : 0..(RetryLimit + 1),  \* failedAttempts; more are not told apart
     state    : {"IDLE", "SAVING", "SAVED", "ERROR"},
     willRetry : BOOLEAN]

Closed ==
    [status |-> "CLOSED", base |-> None, work |-> None, buffered |-> None, timer |-> FALSE,
     saving |-> None, failed |-> 0, state |-> "IDLE", willRetry |-> FALSE]

First == [at |-> 0, edits |-> {}, refs |-> FALSE]

EditingInit ==
    /\ database = [project |-> First, supplier |-> FALSE]
    /\ editors = [t \in Tabs |-> Closed]
    /\ typed = {}
    /\ clock = 0

-----------------------------------------------------------------------------
(* The transaction of a save.                                              *)

\* fault: a version is compared with nothing.
TakesTheLastWriter(stored, previous) == stored # None

\* fault: the suppliers are looked up when the project is mapped, not here.
LooksUpNothing(version, db) == TRUE

NotStale(stored, previous) ==
    IF stored = None THEN previous = None
    ELSE previous # None /\ stored.at = previous.at

ReferencesExist(version, db) == version.refs => db.supplier

Acceptable(save, db) ==
    NotStale(db.project, save.previous) /\ ReferencesExist(save.value, db)

-----------------------------------------------------------------------------
(* The controller.  write() hands the buffer to save(); run() starts it    *)
(* unless a write is in flight.                                            *)

\* fault: a timer that outlived its change writes nothing as if it were one.
WritesWhateverIsThere(e) ==
    [e EXCEPT !.saving = [value |-> e.buffered, previous |-> e.base, result |-> "waiting"],
              !.state = "SAVING"]

Write(e) ==
    IF e.buffered = None THEN e
    ELSE [e EXCEPT !.saving = [value |-> e.buffered, previous |-> e.base, result |-> "waiting"],
                   !.state = "SAVING"]

Run(e) == IF e.saving # None THEN e ELSE Write(e)

Changed(e, version) ==
    [e EXCEPT !.work = version, !.buffered = version, !.timer = TRUE,
              !.state = IF e.state = "ERROR" THEN "ERROR" ELSE "IDLE"]

TimedOut(e) == Run([e EXCEPT !.timer = FALSE])

Flushed(e) == Run([e EXCEPT !.timer = FALSE])

Retried(e) == Run([e EXCEPT !.timer = FALSE, !.failed = 0])

Disposed(e) == [e EXCEPT !.status = "DISPOSED", !.timer = FALSE]

\* fault: a success clears whatever is buffered.
ClearsTheBuffer(e) ==
    [e EXCEPT !.saving = None, !.base = e.saving.value, !.failed = 0, !.willRetry = FALSE,
              !.buffered = None, !.state = "SAVED"]

\* fault: the last failure arms no timer, and says that one is armed.
ForgetsToRetry(e) ==
    [e EXCEPT !.saving = None, !.state = "ERROR", !.willRetry = TRUE, !.timer = e.timer]

\* The write settled.  A change made meanwhile is written at once after a
\* success; a failure keeps the buffer.
Succeeded(e) ==
    LET settled == [e EXCEPT !.saving = None, !.base = e.saving.value, !.failed = 0,
                             !.willRetry = FALSE]
    IN IF e.buffered = e.saving.value
       THEN [settled EXCEPT !.buffered = None, !.state = "SAVED"]
       ELSE Write(settled)

Failed(e) ==
    LET again == e.failed < RetryLimit /\ e.status # "DISPOSED"
    IN [e EXCEPT !.saving = None, !.state = "ERROR", !.willRetry = again,
                 !.failed = IF e.failed > RetryLimit THEN e.failed ELSE e.failed + 1,
                 !.timer = again \/ e.timer]

-----------------------------------------------------------------------------
(* What a tab does.                                                        *)

Idle(e) == e.status = "CLOSED" \/ (e.status = "DISPOSED" /\ e.saving = None)

Becomes(t, editor) == editors' = [editors EXCEPT ![t] = editor]

\* loadProject(), and an editor on what it returned.
OpenEditor(t) ==
    /\ Idle(editors[t])
    /\ database.project # None
    /\ ReferencesExist(database.project, database)
    /\ Becomes(t, [Closed EXCEPT !.status = "OPEN", !.base = database.project,
                                 !.work = database.project])
    /\ UNCHANGED <<database, typed, clock>>

\* A key is pressed, and perhaps the stored supplier is chosen.
Change(t) ==
    /\ editors[t].status = "OPEN"
    /\ \E e \in Edits \ typed, refs \in {editors[t].work.refs, database.supplier} :
         /\ typed' = typed \cup {e}
         /\ Becomes(t, Changed(editors[t],
                [at |-> clock + 1, edits |-> editors[t].work.edits \cup {e},
                 refs |-> editors[t].work.refs \/ refs]))
    /\ clock' = clock + 1
    /\ UNCHANGED database

TimerFires(t) ==
    /\ editors[t].timer
    /\ Becomes(t, TimedOut(editors[t]))
    /\ UNCHANGED <<database, typed, clock>>

\* On leaving a field: write at once.
Flush(t) ==
    /\ editors[t].status = "OPEN"
    /\ Becomes(t, Flushed(editors[t]))
    /\ UNCHANGED <<database, typed, clock>>

\* The person presses "retry", shown once the controller has given up.
Retry(t) ==
    /\ editors[t].status = "OPEN" /\ editors[t].state = "ERROR" /\ ~editors[t].willRetry
    /\ Becomes(t, Retried(editors[t]))
    /\ UNCHANGED <<database, typed, clock>>

\* The editor goes away; a write in flight goes on.
Dispose(t) ==
    /\ editors[t].status = "OPEN"
    /\ Becomes(t, Disposed(editors[t]))
    /\ UNCHANGED <<database, typed, clock>>

\* The tab is closed or crashes, with whatever it had not yet committed.
Crash(t) ==
    /\ editors[t].status # "CLOSED"
    /\ Becomes(t, Closed)
    /\ UNCHANGED <<database, typed, clock>>

-----------------------------------------------------------------------------
(* The transaction of a save, and the answer the controller gets.          *)

SaveIs(t, result) == editors[t].saving # None /\ editors[t].saving.result = result

Transacts(t, result) == Becomes(t, [editors[t] EXCEPT !.saving.result = result])

Commit(t) ==
    /\ SaveIs(t, "waiting")
    /\ Acceptable(editors[t].saving, database)
    /\ Transacts(t, "committed")
    /\ database' = [database EXCEPT !.project = editors[t].saving.value]
    /\ UNCHANGED <<typed, clock>>

Refuse(t) ==
    /\ SaveIs(t, "waiting")
    /\ ~Acceptable(editors[t].saving, database)
    /\ Transacts(t, "failed")
    /\ UNCHANGED <<database, typed, clock>>

\* A full disk, or a connection another tab's upgrade closed.
Abort(t) ==
    /\ SaveIs(t, "waiting")
    /\ Transacts(t, "failed")
    /\ UNCHANGED <<database, typed, clock>>

Settle(t) ==
    /\ \/ SaveIs(t, "committed") /\ Becomes(t, Succeeded(editors[t]))
       \/ SaveIs(t, "failed") /\ Becomes(t, Failed(editors[t]))
    /\ UNCHANGED <<database, typed, clock>>

\* Another screen stores the supplier, or deletes the project.
SaveSupplier ==
    /\ ~database.supplier
    /\ database' = [database EXCEPT !.supplier = TRUE]
    /\ UNCHANGED <<editors, typed, clock>>

DeleteProject ==
    /\ database.project # None
    /\ database' = [database EXCEPT !.project = None]
    /\ UNCHANGED <<editors, typed, clock>>

EditingNext ==
    \/ \E t \in Tabs :
         \/ OpenEditor(t) \/ Change(t) \/ TimerFires(t) \/ Flush(t) \/ Retry(t) \/ Dispose(t)
         \/ Crash(t) \/ Commit(t) \/ Refuse(t) \/ Abort(t) \/ Settle(t)
    \/ SaveSupplier \/ DeleteProject

-----------------------------------------------------------------------------
(* What editing promises.                                                  *)

EditingTypeOK ==
    /\ database \in Database
    /\ editors \in [Tabs -> Editor]
    /\ typed \in SUBSET Edits
    /\ clock \in Nat

GaveUp(e) == e.state = "ERROR" /\ ~e.willRetry

\* Typed work that is not in the database is in the buffer, and the buffer is
\* never left behind: a timer or a write carries it on, or the editor shows
\* that it has given up.  "SAVED" is shown only over what was committed.
NoEditIsForgotten ==
    \A t \in Tabs :
      LET e == editors[t]
      IN e.status = "OPEN" =>
           /\ e.work # e.base => e.buffered = e.work
           /\ e.buffered # None => e.timer \/ e.saving # None \/ GaveUp(e)
           /\ e.state = "SAVED" => e.work = e.base

\* A save that commits keeps every edit that was stored: it never overwrites
\* the work of a tab, or of a restore, that its editor had not loaded.
OverwritesOnlyWhatItKnew ==
    [][\A t \in Tabs :
         SaveIs(t, "waiting") /\ SaveIs(t, "committed")' /\ database.project # None =>
           database.project.edits \subseteq database'.project.edits]_editingVars

\* An edit does not stay in the buffer without a word: it is committed, or the
\* editor gives up visibly, or it goes away.
EditsSettle ==
    \A t \in Tabs :
      editors[t].buffered # None ~> \/ editors[t].buffered = None
                                   \/ GaveUp(editors[t])
                                   \/ editors[t].status # "OPEN"

EditingFairness ==
    \A t \in Tabs :
      WF_editingVars(TimerFires(t)) /\ WF_editingVars(Commit(t) \/ Refuse(t))
      /\ WF_editingVars(Settle(t))
=============================================================================
