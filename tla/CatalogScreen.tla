---------------------------- MODULE CatalogScreen ----------------------------
(***************************************************************************)
(* A catalogue screen over the reads of CatalogRead: the list it holds     *)
(* (useMasterDataList.ts), the form it opens on a row or for a new one     *)
(* (PartyForm.tsx), the dialog that changes a row's lifecycle              *)
(* (PartyScreen.tsx), and their calls, guarded by the version the row had  *)
(* when it was read.                                                       *)
(*                                                                         *)
(* The form and the dialog each have one call.  Both can be under way: the *)
(* dialog can be dismissed while its call runs, by Escape or a click       *)
(* beside it, and a form opened.  The fields of a draft are abstracted to  *)
(* the version of the row they were filled from.                           *)
(***************************************************************************)
EXTENDS CatalogRead

ASSUME NoRowAssumption == 0 \notin Ids

VARIABLES
    list,       \* what the screen shows
    form,       \* the form that is open
    pending,    \* the record the dialog asks about
    call,       \* the call of the form and that of the dialog
    saved       \* the version each acknowledged save left (history)

screenVars == <<row, session, members, lost, read, list, form, pending, call, saved>>
surroundings == <<row, session, members, lost, read, list>>

NoRow == 0
Nothing == "nothing"

Lists == [status : {"LOADING", "READY", "ERROR"}, all : [Ids -> Nat]]

Records == [id : Ids \cup {NoRow}, version : Nat, draft : Nat]
Record(i, version) == [id |-> i, version |-> version, draft |-> version]
NoRecord == Record(NoRow, 0)

Forms == [mode : {"NONE", "CREATE", "EDIT"}, record : Records, stale : BOOLEAN]
Form(mode, record) == [mode |-> mode, record |-> record, stale |-> FALSE]
NoForm == Form("NONE", NoRecord)

Callers == {"form", "dialog"}
Calls ==
    [pc : {"idle", "before", "request", "after", "list"},
     op : {"none", "create", "update", "reload"},
     record : Records, answer : Nat, list : Reads \cup {Nothing}]
Call(pc, op, record) ==
    [pc |-> pc, op |-> op, record |-> record, answer |-> 0, list |-> Nothing]
NoCall == Call("idle", "none", NoRecord)

ScreenInit ==
    /\ ReadInit
    /\ list = [status |-> "LOADING", all |-> Unread]
    /\ form = NoForm
    /\ pending = NoRecord
    /\ call = [c \in Callers |-> NoCall]
    /\ saved = Unread

CallAt(c, pc) == call[c].pc = pc

-----------------------------------------------------------------------------
(* The list: the last read to end, whichever it was.                       *)

Presented(r) ==
    IF read'[r].outcome = "ANSWERED" THEN [status |-> "READY", all |-> read'[r].got]
    ELSE [list EXCEPT !.status = "ERROR"]

\* A step of a reload; the last one sets the list's state, and releases the
\* dialog's buttons if it is the one they were held for.
ReloadStep(r) ==
    /\ ReadStep(r)
    /\ list' = IF read'[r].pc = "done" /\ ~lost' THEN Presented(r) ELSE list
    /\ call' = IF read'[r].pc = "done" /\ call["dialog"].list = r
               THEN [call EXCEPT !["dialog"] = NoCall] ELSE call
    /\ UNCHANGED <<form, pending, saved>>

\* The read of the mounted screen, and the retry button of a failed one.
Reload(r) ==
    /\ form.mode = "NONE"
    /\ list.status \in {"LOADING", "ERROR"}
    /\ list.status = "LOADING" => \A q \in Reads : At(q, "idle")
    /\ Begin(r)
    /\ UNCHANGED <<list, form, pending, call, saved>>

-----------------------------------------------------------------------------
(* What the person does.  The record is the one the list shows, its        *)
(* version with it.                                                        *)

Edit(i) ==
    /\ form.mode = "NONE" /\ ~lost
    /\ list.all[i] > 0
    /\ form' = Form("EDIT", Record(i, list.all[i]))
    /\ UNCHANGED <<surroundings, pending, call, saved>>

New ==
    /\ form.mode = "NONE" /\ ~lost
    /\ list.status = "READY"
    /\ form' = Form("CREATE", NoRecord)
    /\ UNCHANGED <<surroundings, pending, call, saved>>

CancelAnyTime == TRUE                               \* fault: not disabled while busy
MayCancel == CallAt("form", "idle")

Cancel ==
    /\ form.mode # "NONE" /\ MayCancel
    /\ form' = NoForm
    /\ UNCHANGED <<surroundings, pending, call, saved>>

\* onSubmit, which a draft that does not validate ends at once.
Submit ==
    /\ form.mode # "NONE" /\ CallAt("form", "idle") /\ ~lost
    /\ form' = [form EXCEPT !.stale = FALSE]
    /\ \/ call' = [call EXCEPT !["form"] =
            Call("before", IF form.mode = "CREATE" THEN "create" ELSE "update", form.record)]
       \/ UNCHANGED call
    /\ UNCHANGED <<surroundings, pending, saved>>

\* Offered only after a stale write.
ReloadRecord ==
    /\ form.stale /\ CallAt("form", "idle") /\ ~lost
    /\ call' = [call EXCEPT !["form"] = Call("before", "reload", form.record)]
    /\ UNCHANGED <<surroundings, form, pending, saved>>

\* The dialog is shown with the list; nothing keeps a row's buttons from being
\* used while it is open, or while its call is under way.
Ask(i) ==
    /\ form.mode = "NONE" /\ ~lost
    /\ list.all[i] > 0
    /\ pending' = Record(i, list.all[i])
    /\ UNCHANGED <<surroundings, form, call, saved>>

Dismiss ==
    /\ form.mode = "NONE" /\ pending # NoRecord
    /\ pending' = NoRecord
    /\ UNCHANGED <<surroundings, form, call, saved>>

\* confirmLifecycleChange: the button is disabled while an earlier one is busy.
Confirm ==
    /\ form.mode = "NONE" /\ pending # NoRecord /\ ~lost
    /\ CallAt("dialog", "idle")
    /\ call' = [call EXCEPT !["dialog"] = Call("before", "update", pending)]
    /\ UNCHANGED <<surroundings, form, pending, saved>>

Person ==
    \/ New \/ Cancel \/ Submit \/ ReloadRecord \/ Dismiss \/ Confirm
    \/ \E i \in Ids : Edit(i) \/ Ask(i)

-----------------------------------------------------------------------------
(* A call of the form or of the dialog.                                    *)

\* A failed call leaves the form open with its draft; the dialog closes,
\* whichever record it asks about by now.
CallFails(c, stale) ==
    /\ call' = [call EXCEPT ![c] = NoCall]
    /\ form' = IF c = "form" THEN [form EXCEPT !.stale = stale] ELSE form
    /\ pending' = IF c = "dialog" THEN NoRecord ELSE pending

CallGoes(c, pc) == call' = [call EXCEPT ![c].pc = pc] /\ UNCHANGED <<form, pending>>

CallRefused(c) == CallFails(c, FALSE) /\ UNCHANGED lost
CallLoses(c) == CallFails(c, FALSE) /\ lost' = TRUE

CallCheckBefore(c) ==
    /\ CallAt(c, "before")
    /\ \/ RequestsFail /\ (CallRefused(c) \/ CallLoses(c))
       \/ ~SameIdentity /\ CallLoses(c)
       \/ SameIdentity /\ CallGoes(c, "request") /\ UNCHANGED lost
    /\ UNCHANGED <<row, session, members, read, list, saved>>

\* A request that never arrives, that a constraint or the write gate refuses, or
\* that the database refuses to whoever is not a member; what is asked next
\* decides whether the runtime is dropped.
RequestRefused(c) ==
    /\ CallAt(c, "request")
    /\ RequestsFail \/ session \notin members
    /\ CallRefused(c) \/ CallLoses(c)
    /\ UNCHANGED <<row, session, members, read, list, saved>>

Answered(c, i) ==
    /\ call' = [call EXCEPT ![c] = [@ EXCEPT !.pc = "after", !.record.id = i, !.answer = row'[i]]]
    /\ UNCHANGED <<form, pending, lost>>

\* The answer to a write that was made arrives, or is lost with the network.
Arrives(c, i) == Answered(c, i) \/ (RequestsFail /\ CallRefused(c))

\* create_*: a new row under an id made for this call.
Create(c, i) ==
    /\ CallAt(c, "request") /\ call[c].op = "create"
    /\ session \in members
    /\ row[i] = 0 /\ row[i] < MaxVersion
    /\ row' = [row EXCEPT ![i] = 1]
    /\ Arrives(c, i)
    /\ UNCHANGED <<session, members, read, list, saved>>

ExpectedVersion(c) == row[call[c].record.id] = call[c].record.version

\* update_* and set_*_active: the row as it was read becomes the next version.
Update(c, i) ==
    /\ CallAt(c, "request") /\ call[c].op = "update"
    /\ session \in members
    /\ i = call[c].record.id /\ ExpectedVersion(c) /\ row[i] < MaxVersion
    /\ row' = [row EXCEPT ![i] = @ + 1]
    /\ Arrives(c, i)
    /\ UNCHANGED <<session, members, read, list, saved>>

StaleWrite(c) ==
    /\ CallAt(c, "request") /\ call[c].op = "update"
    /\ session \in members
    /\ ~ExpectedVersion(c)
    /\ CallFails(c, TRUE)
    /\ UNCHANGED <<row, session, members, lost, read, list, saved>>

ReadRecord(c) ==
    /\ CallAt(c, "request") /\ call[c].op = "reload"
    /\ session \in members
    /\ UNCHANGED row
    /\ Answered(c, call[c].record.id)
    /\ UNCHANGED <<session, members, read, list, saved>>

CallCheckAfter(c) ==
    /\ CallAt(c, "after")
    /\ \/ RequestsFail /\ (CallRefused(c) \/ CallLoses(c))
       \/ ~SameIdentity /\ CallLoses(c)
    /\ UNCHANGED <<row, session, members, read, list, saved>>

\* The form closes and a new read starts; the dialog closes, and its buttons
\* stay disabled until the read has ended.
Saved(c, r) ==
    /\ CallAt(c, "after") /\ SameIdentity /\ call[c].op # "reload"
    /\ form' = IF c = "form" THEN NoForm ELSE form
    /\ pending' = IF c = "dialog" THEN NoRecord ELSE pending
    /\ saved' = [saved EXCEPT ![call[c].record.id] = call[c].answer]
    /\ call' = [call EXCEPT ![c] =
                  IF c = "dialog" /\ ~lost
                  THEN [NoCall EXCEPT !.pc = "list", !.list = r] ELSE NoCall]
    /\ IF lost THEN UNCHANGED readVars ELSE Begin(r)
    /\ UNCHANGED list

OnlyTheRecord(version) ==                           \* fault: the draft stays
    [form EXCEPT !.record.version = version, !.stale = FALSE]
FreshRecord(version) == Form("EDIT", Record(form.record.id, version))

Reloaded ==
    /\ CallAt("form", "after") /\ SameIdentity /\ call["form"].op = "reload"
    /\ form' = FreshRecord(call["form"].answer)
    /\ call' = [call EXCEPT !["form"] = NoCall]
    /\ UNCHANGED <<surroundings, pending, saved>>

CallStep(c) ==
    \/ CallCheckBefore(c) \/ RequestRefused(c) \/ StaleWrite(c) \/ ReadRecord(c)
    \/ \E i \in Ids : Create(c, i) \/ Update(c, i)
    \/ CallCheckAfter(c)
    \/ \E r \in Reads : Saved(c, r)

ScreenNext ==
    \/ Around /\ UNCHANGED <<list, form, pending, call, saved>>
    \/ \E r \in Reads : ReloadStep(r) \/ Reload(r)
    \/ Person
    \/ \E c \in Callers : CallStep(c)
    \/ Reloaded

ScreenSpec == ScreenInit /\ [][ScreenNext]_screenVars

-----------------------------------------------------------------------------
(* Properties.                                                             *)

\* The types, and that a call never outlives the form it was made from
\* (PartyForm.tsx disables its buttons), although it outlives a dialog.
ScreenTypeOK ==
    /\ ReadTypeOK
    /\ list \in Lists
    /\ form \in Forms
    /\ pending \in Records
    /\ call \in [Callers -> Calls]
    /\ saved \in [Ids -> Nat]
    /\ form.stale => form.mode = "EDIT"
    /\ ~CallAt("form", "idle") => form.mode # "NONE"

\* A save never replaces a version of a row other than the one its draft was
\* filled from, however many saves, lost answers and reloads of the record come
\* before it, and whatever the dialog's call does beside the form's
\* (PartyForm.tsx, update_* and set_*_active).
OverwritesOnlyWhatWasRead ==
    [][\A c \in Callers, i \in Ids :
         row[i] > 0 /\ row'[i] # row[i] /\ call'[c] # call[c]
           => call[c].record.draft = row[i]]_screenVars

\* With no read under way, a list shown without an error holds at least what
\* the screen's own acknowledged saves left (useMasterDataList.ts).
\* (Not so: README.md.)
ShowsItsOwnSaves ==
    list.status = "READY" /\ ~lost /\ (\A r \in Reads : read[r].pc \in {"idle", "done"})
        => \A i \in Ids : list.all[i] >= saved[i]
=============================================================================
