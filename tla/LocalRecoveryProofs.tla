------------------------ MODULE LocalRecoveryProofs ------------------------
(***************************************************************************)
(* The device's own data: no edit is forgotten by a controller, what is    *)
(* kept can be restored, a stale save is refused, a restore installs what  *)
(* was, and the copy made before it stays.                                 *)
(***************************************************************************)
EXTENDS LocalRecovery, FiniteSetTheorems, TLAPS

-----------------------------------------------------------------------------
(* One editor.  What each operation of its controller preserves.           *)

\* An open editor shows a version; what it shows and has not saved is in the
\* buffer, and the buffer holds nothing else; a write in flight leaves it
\* there; "SAVED" is shown when there is nothing to write.
Attended(e) ==
    e.status = "OPEN" =>
      /\ e.work # None
      /\ e.work # e.base => e.buffered = e.work
      /\ e.buffered # None => /\ e.buffered = e.work
                              /\ e.timer \/ e.saving # None \/ GaveUp(e)
      /\ e.saving # None => e.buffered # None
      /\ e.state = "SAVED" => e.saving = None /\ e.buffered = None

\* What a write puts in flight is a save.
LEMMA WriteKeeps ==
    ASSUME NEW e \in Editor,
           e.status = "OPEN" => /\ e.work # None
                                /\ e.work # e.base => e.buffered = e.work
                                /\ e.buffered # None => e.buffered = e.work,
           e.saving = None, e.buffered = None => Attended(e)
    PROVE  Write(e) \in Editor /\ Attended(Write(e))
  <1>1. CASE e.buffered = None
    BY <1>1 DEF Write
  <1>2. CASE e.buffered # None
    <2> DEFINE save == [value |-> e.buffered, previous |-> e.base, result |-> "waiting"]
    <2>1. save \in Save /\ save # None
      BY <1>2, NoneIsNoSave DEF Save, Editor
    <2>2. Write(e) = [e EXCEPT !.saving = save, !.state = "SAVING"]
      BY <1>2 DEF Write
    <2> HIDE DEF save
    <2>3. Write(e) \in Editor
      BY <2>1, <2>2 DEF Editor
    <2> QED
      BY <1>2, <2>1, <2>2, <2>3 DEF Editor, Attended
  <1> QED
    BY <1>1, <1>2

LEMMA RunKeeps ==
    ASSUME NEW e \in Editor, Attended(e), NEW n \in {0, e.failed}
    PROVE  /\ Run([e EXCEPT !.timer = FALSE, !.failed = n]) \in Editor
           /\ Attended(Run([e EXCEPT !.timer = FALSE, !.failed = n]))
  <1> DEFINE still == [e EXCEPT !.timer = FALSE, !.failed = n]
  <1>1. n \in 0 .. (RetryLimit + 1)
    BY RetryLimitIsNat DEF Editor
  <1>2. still \in Editor
    BY <1>1 DEF Editor
  <1>3. /\ still.status = e.status /\ still.work = e.work /\ still.base = e.base
        /\ still.buffered = e.buffered /\ still.saving = e.saving /\ still.state = e.state
    BY DEF Editor
  <1> SUFFICES Run(still) \in Editor /\ Attended(Run(still))
    OBVIOUS
  <1> HIDE DEF still
  <1>4. CASE still.saving # None
    BY <1>2, <1>3, <1>4 DEF Run, Attended
  <1>5. CASE still.saving = None
    <2>1. Write(still) \in Editor /\ Attended(Write(still))
      BY <1>2, <1>3, <1>5, WriteKeeps DEF Attended
    <2> QED
      BY <1>5, <2>1 DEF Run
  <1> QED
    BY <1>4, <1>5

LEMMA TimerKeeps ==
    ASSUME NEW e \in Editor, Attended(e)
    PROVE  /\ TimedOut(e) \in Editor /\ Attended(TimedOut(e))
           /\ Flushed(e) \in Editor /\ Attended(Flushed(e))
           /\ Retried(e) \in Editor /\ Attended(Retried(e))
  <1>1. [e EXCEPT !.timer = FALSE] = [e EXCEPT !.timer = FALSE, !.failed = e.failed]
    BY DEF Editor
  <1> QED
    BY <1>1, RunKeeps DEF TimedOut, Flushed, Retried

LEMMA ChangedKeeps ==
    ASSUME NEW e \in Editor, Attended(e), e.status = "OPEN", NEW version \in Version
    PROVE  Changed(e, version) \in Editor /\ Attended(Changed(e, version))
  <1>1. version # None
    BY NoneIsNoVersion DEF Version
  <1> QED
    BY <1>1 DEF Changed, Editor, Attended

LEMMA TransactedKeeps ==
    ASSUME NEW e \in Editor, Attended(e), e.saving # None,
           NEW result \in {"waiting", "committed", "failed"}
    PROVE  /\ [e EXCEPT !.saving.result = result] \in Editor
           /\ Attended([e EXCEPT !.saving.result = result])
  <1> DEFINE save == [e.saving EXCEPT !.result = result]
  <1>1. save \in Save /\ save # None
    BY NoneIsNoSave DEF Save, Editor
  <1>2. [e EXCEPT !.saving.result = result] = [e EXCEPT !.saving = save]
    BY DEF Editor
  <1> HIDE DEF save
  <1> QED
    BY <1>1, <1>2 DEF Editor, Attended, GaveUp

LEMMA SucceededKeeps ==
    ASSUME NEW e \in Editor, Attended(e), e.saving # None
    PROVE  Succeeded(e) \in Editor /\ Attended(Succeeded(e))
  <1> DEFINE settled == [e EXCEPT !.saving = None, !.base = e.saving.value, !.failed = 0,
                                  !.willRetry = FALSE]
             done == [settled EXCEPT !.buffered = None, !.state = "SAVED"]
  <1>1. e.saving.value \in Version
    BY DEF Editor, Save
  <1>2. /\ settled.saving = None /\ settled.base = e.saving.value
        /\ settled.work = e.work /\ settled.buffered = e.buffered /\ settled.status = e.status
    BY DEF Editor
  <1>3. 0 \in 0 .. (RetryLimit + 1)
    BY RetryLimitIsNat
  <1>4. settled \in Editor
    BY <1>1, <1>3 DEF Editor
  <1> HIDE DEF settled
  <1>5. CASE e.buffered = e.saving.value
    <2>1. Succeeded(e) = done
      BY <1>5 DEF Succeeded, settled
    <2>2. done \in Editor
      BY <1>4 DEF Editor
    <2>3. /\ done.work = e.work /\ done.base = e.saving.value /\ done.buffered = None
          /\ done.saving = None /\ done.status = e.status
      BY <1>2, <1>4 DEF Editor
    <2>4. e.status = "OPEN" => e.buffered = e.work /\ e.work # None
      BY DEF Attended
    <2> HIDE DEF done
    <2>5. Attended(done)
      BY <1>5, <2>3, <2>4 DEF Attended
    <2> QED
      BY <2>1, <2>2, <2>5
  <1>6. CASE e.buffered # e.saving.value
    <2>1. Succeeded(e) = Write(settled)
      BY <1>6 DEF Succeeded, settled
    <2>2. settled.status = "OPEN" =>
            /\ settled.work # None /\ settled.buffered # None
            /\ settled.buffered = settled.work
      BY <1>2 DEF Attended
    <2>3. settled.buffered = None => Attended(settled)
      BY <2>2 DEF Attended
    <2> QED
      BY <1>2, <1>4, <2>1, <2>2, <2>3, WriteKeeps
  <1> QED
    BY <1>5, <1>6

LEMMA FailedKeeps ==
    ASSUME NEW e \in Editor, Attended(e), e.saving # None
    PROVE  Failed(e) \in Editor /\ Attended(Failed(e))
  <1> DEFINE again == e.failed < RetryLimit /\ e.status # "DISPOSED"
             count == IF e.failed > RetryLimit THEN e.failed ELSE e.failed + 1
             after == [e EXCEPT !.saving = None, !.state = "ERROR", !.willRetry = again,
                                !.failed = count, !.timer = again \/ e.timer]
  <1>1. count \in 0 .. (RetryLimit + 1)
    BY RetryLimitIsNat DEF Editor
  <1>2. again \in BOOLEAN
    OBVIOUS
  <1>3. Failed(e) = after
    BY DEF Failed
  <1> HIDE DEF again, count
  <1>4. after \in Editor
    BY <1>1, <1>2 DEF Editor
  <1>5. /\ after.status = e.status /\ after.work = e.work /\ after.base = e.base
        /\ after.buffered = e.buffered /\ after.saving = None /\ after.state = "ERROR"
        /\ after.willRetry = again /\ after.timer = (again \/ e.timer)
    BY DEF Editor
  <1> HIDE DEF after
  <1>6. after.timer \/ GaveUp(after)
    BY <1>2, <1>5 DEF GaveUp
  <1>7. Attended(after)
    BY <1>5, <1>6 DEF Attended
  <1> QED
    BY <1>3, <1>4, <1>7

-----------------------------------------------------------------------------
(* All editors, beside whatever the recovery layer does.                   *)

AllAttended == \A t \in Tabs : Attended(editors[t])

LocalInv == RecoveryTypeOK /\ AllAttended

LEMMA AttendedSaysNoEditIsForgotten == AllAttended => NoEditIsForgotten
  BY DEF AllAttended, Attended, NoEditIsForgotten

LEMMA ClosedIsAttended == Closed \in Editor /\ Attended(Closed)
  BY RetryLimitIsNat DEF Closed, Editor, Attended

LEMMA BecomesKeeps ==
    ASSUME editors \in [Tabs -> Editor], AllAttended, NEW t \in Tabs,
           NEW e \in Editor, Attended(e), Becomes(t, e)
    PROVE  editors' \in [Tabs -> Editor] /\ AllAttended'
  <1>1. \A u \in Tabs : editors'[u] = IF u = t THEN e ELSE editors[u]
    BY DEF Becomes
  <1>2. editors' \in [Tabs -> Editor]
    BY DEF Becomes
  <1> HIDE DEF Attended
  <1> QED
    BY <1>1, <1>2 DEF AllAttended

\* The stored project is well formed whoever writes it.
LEMMA EditKeeps ==
    ASSUME LocalInv, NEW t \in Tabs, Edit(t)
    PROVE  EditingTypeOK' /\ AllAttended'
  <1> USE DEF LocalInv, RecoveryTypeOK, EditingTypeOK
  <1> DEFINE e == editors[t]
  <1>1. e \in Editor /\ Attended(e)
    BY DEF AllAttended
  <1>2. CASE OpenEditor(t)
    <2> DEFINE opened == [Closed EXCEPT !.status = "OPEN", !.base = database.project,
                                        !.work = database.project]
    <2>1. database.project \in Version /\ database.project # None
      BY <1>2 DEF OpenEditor, Database
    <2>2. opened \in Editor
      BY <2>1, ClosedIsAttended DEF Editor
    <2>3. Attended(opened)
      BY <2>1 DEF Attended, Closed
    <2>4. Becomes(t, opened) /\ UNCHANGED <<database, typed, clock>>
      BY <1>2 DEF OpenEditor
    <2> HIDE DEF opened
    <2> QED
      BY <2>2, <2>3, <2>4, BecomesKeeps
  <1>3. CASE Change(t)
    <2>1. PICK x \in Edits \ typed, refs \in {e.work.refs, database.supplier} :
            /\ typed' = typed \cup {x}
            /\ Becomes(t, Changed(e, [at |-> clock + 1, edits |-> e.work.edits \cup {x},
                                      refs |-> e.work.refs \/ refs]))
      BY <1>3 DEF Change
    <2> DEFINE version == [at |-> clock + 1, edits |-> e.work.edits \cup {x},
                           refs |-> e.work.refs \/ refs]
    <2>2. e.status = "OPEN" /\ clock' = clock + 1 /\ UNCHANGED database
      BY <1>3 DEF Change
    <2>3. e.work \in Version
      BY <1>1, <2>2 DEF Editor, Attended
    <2>4. version \in Version
      BY <2>3 DEF Version
    <2> HIDE DEF version
    <2>5. Changed(e, version) \in Editor /\ Attended(Changed(e, version))
      BY <1>1, <2>2, <2>4, ChangedKeeps
    <2>6. Becomes(t, Changed(e, version))
      BY <2>1 DEF version
    <2>7. editors' \in [Tabs -> Editor] /\ AllAttended'
      BY <2>5, <2>6, BecomesKeeps
    <2> QED
      BY <2>1, <2>2, <2>7
  <1>4. CASE TimerFires(t) \/ Flush(t) \/ Retry(t)
    <2>1. /\ \/ Becomes(t, TimedOut(e))
             \/ Becomes(t, Flushed(e))
             \/ Becomes(t, Retried(e))
          /\ UNCHANGED <<database, typed, clock>>
      BY <1>4 DEF TimerFires, Flush, Retry
    <2> QED
      BY <1>1, <2>1, TimerKeeps, BecomesKeeps
  <1>5. CASE Dispose(t)
    <2>1. Disposed(e) \in Editor /\ Attended(Disposed(e))
      BY <1>1 DEF Disposed, Editor, Attended
    <2>2. Becomes(t, Disposed(e)) /\ UNCHANGED <<database, typed, clock>>
      BY <1>5 DEF Dispose
    <2> QED
      BY <2>1, <2>2, BecomesKeeps
  <1>6. CASE Commit(t) \/ Refuse(t) \/ Abort(t)
    <2>1. PICK result \in {"waiting", "committed", "failed"} : Transacts(t, result)
      BY <1>6 DEF Commit, Refuse, Abort
    <2>2. e.saving # None
      BY <1>6 DEF Commit, Refuse, Abort, SaveIs
    <2>3. editors' \in [Tabs -> Editor] /\ AllAttended'
      BY <1>1, <2>1, <2>2, TransactedKeeps, BecomesKeeps DEF Transacts
    <2>4. e.saving.value \in Version
      BY <1>1, <2>2 DEF Editor, Save
    <2>5. database' \in Database /\ UNCHANGED <<typed, clock>>
      BY <1>6, <2>4 DEF Commit, Refuse, Abort, Database
    <2> QED
      BY <2>3, <2>5
  <1>7. CASE Settle(t)
    <2>1. e.saving # None /\ UNCHANGED <<database, typed, clock>>
      BY <1>7 DEF Settle, SaveIs
    <2>2. Becomes(t, Succeeded(e)) \/ Becomes(t, Failed(e))
      BY <1>7 DEF Settle
    <2> QED
      BY <1>1, <2>1, <2>2, SucceededKeeps, FailedKeeps, BecomesKeeps
  <1> QED
    BY <1>2, <1>3, <1>4, <1>5, <1>6, <1>7 DEF Edit, EditorStep

-----------------------------------------------------------------------------
(* The backup file: what is written is accepted, and is what was read.     *)

\* "JSON" is what the first text test names when it passes.
Codes ==
    {"JSON", "BACKUP_TOO_LARGE", "BACKUP_NOT_RECOGNISED", "BACKUP_ENVELOPE_INVALID",
     "BACKUP_FORMAT_UNSUPPORTED", "BACKUP_SCHEMA_TOO_NEW", "BACKUP_SCHEMA_UNSUPPORTED",
     "BACKUP_CHECKSUM_MISMATCH", "BACKUP_COUNT_MISMATCH", "BACKUP_STORE_UNSUPPORTED",
     "BACKUP_RECORD_INVALID", "BACKUP_TOO_DEEP", "BACKUP_MALFORMED_JSON",
     "BACKUP_FORBIDDEN_KEY"}

Tests == [holds : BOOLEAN, refusal : Codes]

AllHold(tests) == tests \in Seq(Tests) /\ \A i \in DOMAIN tests : tests[i].holds

LEMMA AllHoldRefusesNothing ==
    ASSUME NEW tests, AllHold(tests) PROVE FirstRefusal(tests) = "NONE"
  BY DEF FirstRefusal, AllHold

LEMMA AllHoldOneAfterTheOther ==
    ASSUME NEW before, NEW after, AllHold(before), AllHold(after)
    PROVE  AllHold(before \o after)
  BY DEF AllHold

LEMMA PassedTest ==
    ASSUME NEW refusal \in Codes
    PROVE  Test(TRUE, refusal) \in Tests /\ Test(TRUE, refusal).holds = TRUE
  BY DEF Test, Tests

\* Lists of tests, one by one.
LEMMA TwoHold ==
    ASSUME NEW a \in Tests, NEW b \in Tests, a.holds, b.holds
    PROVE  AllHold(<<a, b>>)
  <1> DEFINE all == <<a, b>>
  <1>1. all \in Seq(Tests) /\ \A i \in DOMAIN all : all[i] \in {a, b}
    OBVIOUS
  <1> HIDE DEF all
  <1>2. AllHold(all)
    BY <1>1 DEF AllHold
  <1> QED
    BY <1>2 DEF all

LEMMA ThreeHold ==
    ASSUME NEW a \in Tests, NEW b \in Tests, NEW c \in Tests, a.holds, b.holds, c.holds
    PROVE  AllHold(<<a, b, c>>)
  <1> DEFINE all == <<a, b, c>>
  <1>1. all \in Seq(Tests) /\ \A i \in DOMAIN all : all[i] \in {a, b, c}
    OBVIOUS
  <1> HIDE DEF all
  <1>2. AllHold(all)
    BY <1>1 DEF AllHold
  <1> QED
    BY <1>2 DEF all

LEMMA FourHold ==
    ASSUME NEW a \in Tests, NEW b \in Tests, NEW c \in Tests, NEW d \in Tests,
           a.holds, b.holds, c.holds, d.holds
    PROVE  AllHold(<<a, b, c, d>>)
  <1> DEFINE all == <<a, b, c, d>>
  <1>1. all \in Seq(Tests) /\ \A i \in DOMAIN all : all[i] \in {a, b, c, d}
    OBVIOUS
  <1> HIDE DEF all
  <1>2. AllHold(all)
    BY <1>1 DEF AllHold
  <1> QED
    BY <1>2 DEF all

LEMMA SevenHold ==
    ASSUME NEW a \in Tests, NEW b \in Tests, NEW c \in Tests, NEW d \in Tests,
           NEW e \in Tests, NEW f \in Tests, NEW g \in Tests,
           a.holds, b.holds, c.holds, d.holds, e.holds, f.holds, g.holds
    PROVE  AllHold(<<a, b, c, d, e, f, g>>)
  <1> DEFINE all == <<a, b, c, d, e, f, g>>
  <1>1. all \in Seq(Tests) /\ \A i \in DOMAIN all : all[i] \in {a, b, c, d, e, f, g}
    OBVIOUS
  <1> HIDE DEF all
  <1>2. AllHold(all)
    BY <1>1 DEF AllHold
  <1> QED
    BY <1>2 DEF all

LEMMA FewRecords ==
    /\ DOMAIN <<>> = {} /\ Len(<<>>) = 0
    /\ \A r : DOMAIN <<r>> = {1} /\ Len(<<r>>) = 1 /\ <<r>>[1] = r
  OBVIOUS

LEMMA StoresAreNamed == StoreNames = {"suppliers", "projects", "purchaseOrders"}
  BY DEF StoreNames, Stores, ToSet

\* What is read of a database, store by store.
LEMMA ReadStores ==
    ASSUME NEW content \in Database
    PROVE  LET data == ReadBusinessData(content)
           IN /\ DOMAIN data = StoreNames
              /\ data["suppliers"] =
                   IF content.supplier THEN <<Normalised(Record("supplier", None, TRUE))>> ELSE <<>>
              /\ data["projects"] =
                   IF content.project = None THEN <<>>
                   ELSE <<Normalised(Record("project", content.project, FALSE))>>
              /\ data["purchaseOrders"] = <<>>
  <1> DEFINE stored == StoredRecords(content)
             data == ReadBusinessData(content)
  <1>1. ASSUME NEW r PROVE [i \in DOMAIN <<r>> |-> Normalised(<<r>>[i])] = <<Normalised(r)>>
    OBVIOUS
  <1>2. [i \in DOMAIN <<>> |-> Normalised(<<>>[i])] = <<>>
    OBVIOUS
  <1>3. data = [s \in StoreNames |-> [i \in DOMAIN stored[s] |-> Normalised(stored[s][i])]]
    BY DEF ReadBusinessData
  <1>4. /\ stored["suppliers"] =
             IF content.supplier THEN <<Record("supplier", None, TRUE)>> ELSE <<>>
        /\ stored["projects"] = IF content.project = None THEN <<>>
                                ELSE <<Record("project", content.project, FALSE)>>
        /\ stored["purchaseOrders"] = <<>>
    BY DEF StoredRecords
  <1> HIDE DEF stored, data
  <1>5. DOMAIN data = StoreNames
    BY <1>3
  <1>6. \A s \in StoreNames : data[s] = [i \in DOMAIN stored[s] |-> Normalised(stored[s][i])]
    BY <1>3
  <1>7. data["purchaseOrders"] = <<>>
    BY <1>2, <1>4, <1>6, StoresAreNamed
  <1>8. data["suppliers"] =
          IF content.supplier THEN <<Normalised(Record("supplier", None, TRUE))>> ELSE <<>>
    <2>1. CASE content.supplier
      BY <1>1, <1>4, <1>6, <2>1, StoresAreNamed
    <2>2. CASE ~content.supplier
      BY <1>2, <1>4, <1>6, <2>2, StoresAreNamed
    <2> QED
      BY <2>1, <2>2
  <1>9. data["projects"] = IF content.project = None THEN <<>>
                           ELSE <<Normalised(Record("project", content.project, FALSE))>>
    <2>1. CASE content.project # None
      BY <1>1, <1>4, <1>6, <2>1, StoresAreNamed
    <2>2. CASE content.project = None
      BY <1>2, <1>4, <1>6, <2>2, StoresAreNamed
    <2> QED
      BY <2>1, <2>2
  <1> QED
    BY <1>5, <1>7, <1>8, <1>9 DEF data

\* Every store holds at most one record, whose parser accepts it, and the last
\* holds none.
LEMMA StoresAreSmall ==
    ASSUME NEW content \in Database, NEW s \in StoreNames
    PROVE  LET records == ReadBusinessData(content)[s]
           IN /\ records = <<>> \/ \E r : /\ records = <<r>> /\ r.sound = TRUE
                                         /\ r.undefined = FALSE
              /\ s = "purchaseOrders" => records = <<>>
  <1> DEFINE data == ReadBusinessData(content)
  <1>1. ASSUME NEW key, NEW value, NEW undefined
        PROVE  /\ Normalised(Record(key, value, undefined)).sound = TRUE
               /\ Normalised(Record(key, value, undefined)).undefined = FALSE
    BY DEF Normalised, Record
  <1> HIDE DEF data
  <1>2. s \in {"suppliers", "projects", "purchaseOrders"}
    BY StoresAreNamed
  <1>3. /\ data["suppliers"] = <<>> \/ data["suppliers"] = <<Normalised(Record("supplier", None, TRUE))>>
        /\ \/ data["projects"] = <<>>
           \/ data["projects"] = <<Normalised(Record("project", content.project, FALSE))>>
        /\ data["purchaseOrders"] = <<>>
    BY ReadStores DEF data
  <1>4. \/ data[s] = <<>>
        \/ s # "purchaseOrders" /\ \E key, value, undefined :
                                      data[s] = <<Normalised(Record(key, value, undefined))>>
    BY <1>2, <1>3
  <1>5. CASE data[s] = <<>>
    BY <1>5 DEF data
  <1>6. CASE s # "purchaseOrders" /\ \E key, value, undefined :
                                      data[s] = <<Normalised(Record(key, value, undefined))>>
    BY <1>1, <1>6 DEF data
  <1> QED
    BY <1>4, <1>5, <1>6

\* What is read back is the state that was written.
LEMMA ReadingRestores ==
    ASSUME NEW content \in Database
    PROVE  ContentOf(ReadBusinessData(content)) = content
  <1> DEFINE data == ReadBusinessData(content)
  <1>1. ASSUME NEW r PROVE <<r>> # <<>> /\ <<r>>[1] = r
    OBVIOUS
  <1>2. Normalised(Record("project", content.project, FALSE)).value = content.project
    BY DEF Normalised, Record
  <1> HIDE DEF data
  <1>3. (data["suppliers"] # <<>>) = content.supplier
    BY <1>1, ReadStores DEF data, Database
  <1>4. (IF data["projects"] = <<>> THEN None ELSE data["projects"][1].value) = content.project
    BY <1>1, <1>2, ReadStores DEF data
  <1> QED
    BY <1>3, <1>4 DEF ContentOf, Database, data

\* The tests of each store hold.
LEMMA StoreTestsHold ==
    ASSUME NEW content \in Database, NEW n \in 1 .. 3
    PROVE  AllHold(StoreTests(ReadBusinessData(content), n))
  <1> DEFINE data == ReadBusinessData(content)
             records == data[Stores[n]]
  <1>1. /\ Stores[1] = "suppliers" /\ Stores[2] = "projects"
        /\ Stores[3] = "purchaseOrders"
    BY DEF Stores
  <1>2. \A k \in 1 .. 3 : Stores[k] \in StoreNames
    BY <1>1, StoresAreNamed
  <1>3. \A k \in 1 .. 3 : DOMAIN data[Stores[k]] \subseteq {1}
                        /\ (k = 3 => DOMAIN data[Stores[k]] = {})
    <2> SUFFICES ASSUME NEW k \in 1 .. 3
                 PROVE  /\ DOMAIN data[Stores[k]] \subseteq {1}
                        /\ k = 3 => DOMAIN data[Stores[k]] = {}
      OBVIOUS
    <2>1. /\ data[Stores[k]] = <<>> \/ \E r : data[Stores[k]] = <<r>>
          /\ k = 3 => data[Stores[k]] = <<>>
      BY <1>1, <1>2, StoresAreSmall
    <2> HIDE DEF data
    <2> QED
      BY <2>1, FewRecords
  <1>4. records = <<>> \/ \E r : records = <<r>> /\ r.sound = TRUE
    BY <1>2, StoresAreSmall
  <1>5. Stores[n] \in Provable \/ records = <<>>
    BY <1>1, <1>2, StoresAreSmall, StoresAreNamed DEF Provable
  <1>6. RecordsUpTo(data, n) \in Nat /\ RecordsUpTo(data, n) <= 2
    <2> DEFINE all == UNION {{k} \X DOMAIN data[Stores[k]] : k \in 1 .. n}
               most == {<<1, 1>>, <<2, 1>>}
    <2>1. all \subseteq most
      BY <1>3
    <2>2. IsFiniteSet({<<1, 1>>}) /\ Cardinality({<<1, 1>>}) = 1
      BY FS_Singleton
    <2>3. IsFiniteSet({<<1, 1>>} \cup {<<2, 1>>}) /\ Cardinality({<<1, 1>>} \cup {<<2, 1>>}) = 2
      <3> DEFINE one == {<<1, 1>>}
                 two == <<2, 1>>
      <3>1. two \notin one
        OBVIOUS
      <3>2. IsFiniteSet(one) /\ Cardinality(one) = 1
        BY <2>2
      <3> HIDE DEF one, two
      <3>3. IsFiniteSet(one \cup {two}) /\ Cardinality(one \cup {two}) = 2
        BY <3>1, <3>2, FS_AddElement
      <3> QED
        BY <3>3 DEF one, two
    <2>4. most = {<<1, 1>>} \cup {<<2, 1>>}
      OBVIOUS
    <2> HIDE DEF all, most
    <2>5. IsFiniteSet(all) /\ Cardinality(all) <= 2
      BY <2>1, <2>3, <2>4, FS_Subset
    <2>6. Cardinality(all) \in Nat
      BY <2>5, FS_CardinalityType
    <2> QED
      BY <2>5, <2>6 DEF RecordsUpTo, all
  <1> HIDE DEF records
  <1>7. Len(records) \in Nat /\ Len(records) <= 1
    <2>1. records = <<>> \/ \E r : records = <<r>>
      BY <1>4
    <2> QED
      BY <2>1
  <1>8. RecordsHold(records)
    <2>1. CASE records = <<>>
      <3>1. {records[i].key : i \in DOMAIN records} = {}
        BY <2>1
      <3> QED
        BY <2>1, <3>1, FS_EmptySet DEF RecordsHold
    <2>2. ASSUME NEW r, records = <<r>>, r.sound = TRUE PROVE RecordsHold(records)
      <3>1. DOMAIN records = {1} /\ records[1] = r /\ Len(records) = 1
        BY <2>2, FewRecords
      <3>2. {records[i].key : i \in DOMAIN records} = {r.key}
        BY <3>1
      <3>3. Cardinality({r.key}) = 1
        BY FS_Singleton
      <3> QED
        BY <2>2, <3>1, <3>2, <3>3 DEF RecordsHold
    <2> QED
      BY <1>4, <2>1, <2>2
  <1> DEFINE tests == StoreTests(data, n)
  <1>9. tests = <<Test(Len(records) <= MaxPerStore, "BACKUP_TOO_LARGE"),
                  Test(RecordsUpTo(data, n) <= MaxInAll, "BACKUP_TOO_LARGE"),
                  Test(Stores[n] \in Provable \/ records = <<>>, "BACKUP_STORE_UNSUPPORTED"),
                  Test(RecordsHold(records), "BACKUP_RECORD_INVALID")>>
    BY DEF StoreTests, records
  <1>10. /\ (Len(records) <= MaxPerStore) = TRUE
         /\ (RecordsUpTo(data, n) <= MaxInAll) = TRUE
         /\ (Stores[n] \in Provable \/ records = <<>>) = TRUE
         /\ RecordsHold(records) = TRUE
    <2>1. RecordsHold(records) = TRUE
      BY <1>8 DEF RecordsHold
    <2> QED
      BY <1>5, <1>6, <1>7, <2>1, LimitsAssumption
  <1> HIDE DEF tests, data
  <1>11. tests = <<Test(TRUE, "BACKUP_TOO_LARGE"), Test(TRUE, "BACKUP_TOO_LARGE"),
                   Test(TRUE, "BACKUP_STORE_UNSUPPORTED"), Test(TRUE, "BACKUP_RECORD_INVALID")>>
    BY <1>9, <1>10
  <1>12. AllHold(<<Test(TRUE, "BACKUP_TOO_LARGE"), Test(TRUE, "BACKUP_TOO_LARGE"),
                   Test(TRUE, "BACKUP_STORE_UNSUPPORTED"), Test(TRUE, "BACKUP_RECORD_INVALID")>>)
    BY PassedTest, FourHold DEF Codes
  <1>13. AllHold(tests)
    BY <1>11, <1>12
  <1> QED
    BY <1>13 DEF tests, data

LEMMA ValidationHolds ==
    ASSUME NEW content \in Database
    PROVE  AllHold(ValidateBackupData(ReadBusinessData(content)))
  BY StoreTestsHold, AllHoldOneAfterTheOther DEF ValidateBackupData

\* This build reads its own schema and the one before.
LEMMA VersionTestsHold ==
    ASSUME NEW from \in {SchemaVersion - 1, SchemaVersion} PROVE AllHold(VersionTests(from))
  <1>1. (from <= SchemaVersion) = TRUE
    BY LimitsAssumption
  <1>2. HasMigrationPath(from) = TRUE
    BY LimitsAssumption DEF HasMigrationPath, PayloadMigrations
  <1>3. AllHold(<<Test(TRUE, "BACKUP_SCHEMA_TOO_NEW"), Test(TRUE, "BACKUP_SCHEMA_UNSUPPORTED")>>)
    BY PassedTest, TwoHold DEF Codes
  <1> QED
    BY <1>1, <1>2, <1>3 DEF VersionTests

\* A snapshot of a stored state is accepted.
LEMMA SnapshotsAreAccepted ==
    ASSUME NEW content \in Database, NEW from \in {SchemaVersion - 1, SchemaVersion}
    PROVE  RefusalOfSnapshot(ReadBusinessData(content), from) = "NONE"
  BY ValidationHolds, VersionTestsHold, AllHoldOneAfterTheOther, AllHoldRefusesNothing
     DEF RefusalOfSnapshot

\* So is a file written of one.
LEMMA FilesAreAccepted ==
    ASSUME NEW content \in Database
    PROVE  RefusalOfFile(BuildBackupEnvelope(ReadBusinessData(content))) = "NONE"
  <1> DEFINE data == ReadBusinessData(content)
             file == BuildBackupEnvelope(data)
  <1>1. /\ file.bytes = MaxBytes /\ file.text = "JSON" /\ file.magic = TRUE
        /\ file.keysKnown = TRUE /\ file.formatVersion = 1
        /\ file.schemaVersion = SchemaVersion /\ file.provenance = TRUE
        /\ file.counts = CountEntities(data) /\ file.integrity.form = TRUE
        /\ file.integrity.value = data /\ file.data = data
    BY DEF BuildBackupEnvelope
  <1>2. DOMAIN data = StoreNames
    BY ReadStores
  <1>3. CountsHold(file.counts) = TRUE
    <2>1. \A s \in StoreNames : Len(data[s]) >= 0
      BY StoresAreSmall, FewRecords
    <2> QED
      BY <1>1, <2>1 DEF CountsHold, CountEntities
  <1> HIDE DEF file, data
  <1>4. AllHold(TextTests(file))
    <2>1. (file.bytes <= MaxBytes) = TRUE /\ (file.text = "JSON") = TRUE
      BY <1>1, LimitsAssumption
    <2>2. AllHold(<<Test(TRUE, "BACKUP_TOO_LARGE"), Test(TRUE, "JSON")>>)
      BY PassedTest, TwoHold DEF Codes
    <2> QED
      BY <1>1, <2>1, <2>2 DEF TextTests
  <1>5. AllHold(EnvelopeTests(file))
    <2>1. /\ (file.formatVersion = 1) = TRUE
          /\ (file.schemaVersion >= 1 /\ file.provenance) = TRUE
          /\ IntegrityHolds(file.integrity) = TRUE
          /\ ListsEveryStore(file.data) = TRUE
      BY <1>1, <1>2, LimitsAssumption DEF IntegrityHolds, ListsEveryStore
    <2>2. AllHold(<<Test(TRUE, "BACKUP_NOT_RECOGNISED"), Test(TRUE, "BACKUP_ENVELOPE_INVALID"),
                    Test(TRUE, "BACKUP_FORMAT_UNSUPPORTED"), Test(TRUE, "BACKUP_ENVELOPE_INVALID"),
                    Test(TRUE, "BACKUP_ENVELOPE_INVALID"), Test(TRUE, "BACKUP_ENVELOPE_INVALID"),
                    Test(TRUE, "BACKUP_ENVELOPE_INVALID")>>)
      BY PassedTest, SevenHold DEF Codes
    <2> QED
      BY <1>1, <1>3, <2>1, <2>2 DEF EnvelopeTests
  <1>6. FirstRefusal(TextTests(file) \o EnvelopeTests(file)) = "NONE"
    BY <1>4, <1>5, AllHoldOneAfterTheOther, AllHoldRefusesNothing
  <1> DEFINE header ==
        <<Test(file.schemaVersion <= SchemaVersion, "BACKUP_SCHEMA_TOO_NEW"),
          Test(VerifyBackupChecksum(file), "BACKUP_CHECKSUM_MISMATCH"),
          Test(VerifyEntityCounts(file), "BACKUP_COUNT_MISMATCH")>>
  <1>7. AllHold(header)
    <2>1. /\ (file.schemaVersion <= SchemaVersion) = TRUE
          /\ VerifyBackupChecksum(file) = TRUE /\ VerifyEntityCounts(file) = TRUE
      BY <1>1, LimitsAssumption DEF VerifyBackupChecksum, VerifyEntityCounts
    <2>2. AllHold(<<Test(TRUE, "BACKUP_SCHEMA_TOO_NEW"), Test(TRUE, "BACKUP_CHECKSUM_MISMATCH"),
                    Test(TRUE, "BACKUP_COUNT_MISMATCH")>>)
      BY PassedTest, ThreeHold DEF Codes
    <2> QED
      BY <2>1, <2>2
  <1>8. AllHold(VersionTests(file.schemaVersion)) /\ AllHold(ValidateBackupData(file.data))
    BY <1>1, VersionTestsHold, ValidationHolds DEF data
  <1> HIDE DEF header
  <1>9. FirstRefusal((header \o VersionTests(file.schemaVersion)) \o ValidateBackupData(file.data))
          = "NONE"
    BY <1>7, <1>8, AllHoldOneAfterTheOther, AllHoldRefusesNothing
  <1>10. RefusalOfFile(file) = "NONE"
    BY <1>6, <1>9 DEF RefusalOfFile, header
  <1> QED
    BY <1>10 DEF file, data

\* What is written has a canonical form.
LEMMA FilesHaveADigest ==
    ASSUME NEW content \in Database PROVE HasCanonicalForm(ReadBusinessData(content))
  <1> DEFINE data == ReadBusinessData(content)
  <1>1. ASSUME NEW s \in StoreNames, NEW i \in DOMAIN data[s]
        PROVE  data[s][i].undefined = FALSE
    <2>1. data[s] = <<>> \/ \E r : data[s] = <<r>> /\ r.undefined = FALSE
      BY StoresAreSmall
    <2> HIDE DEF data
    <2> QED
      BY <1>1, <2>1, FewRecords
  <1> QED
    BY <1>1 DEF HasCanonicalForm

-----------------------------------------------------------------------------
(* The recovery layer.                                                     *)

Whole(r) == r \in Restore /\ (r.pc # "none" => r.plan \in Database)

LEMMA BeginningsAreWhole == Beginnings \subseteq Database
  <1>1. First \in Version
    BY DEF First, Version
  <1> HIDE DEF First
  <1> QED
    BY <1>1 DEF Beginnings, Database

\* What the reader accepts is a beginning, written out.
LEMMA AcceptedFiles ==
    ASSUME NEW f \in Files, RefusalOfFile(f) = "NONE"
    PROVE  ContentOf(f.data) \in Beginnings /\ f.data = ReadBusinessData(ContentOf(f.data))
  <1>1. PICK content \in Beginnings : f.data = ReadBusinessData(content)
    BY FilesAssumption
  <1> QED
    BY <1>1, ReadingRestores, BeginningsAreWhole

LEMMA NoRestoreIsWhole ==
    ASSUME NEW outcome \in {"none", "refused", "unchanged", "restored", "unverifiable"}
    PROVE  Whole([NoRestore EXCEPT !.outcome = outcome])
  BY DEF Whole, Restore, NoRestore

LEMMA PlannedIsWhole ==
    ASSUME NEW refusal, NEW content, refusal = "NONE" => content \in Database
    PROVE  Whole(Planned(refusal, content))
  <1>1. CASE refusal = "NONE"
    BY <1>1 DEF Whole, Planned, Restore, NoRestore
  <1>2. CASE refusal # "NONE"
    BY <1>2, NoRestoreIsWhole DEF Planned
  <1> QED
    BY <1>1, <1>2

LEMMA RestoresKeep ==
    ASSUME RecoveryTypeOK, NEW t \in Tabs, NEW r, Whole(r), Restores(t, r)
    PROVE  /\ restores' \in [Tabs -> Restore]
           /\ \A u \in Tabs : restores'[u].pc # "none" => restores'[u].plan \in Database
  BY DEF RecoveryTypeOK, Restores, Whole

LEMMA TakenSnapshot == \A kind, at, content : Snapshot(kind, at, content).data = content
  BY DEF Snapshot

\* What the tab that opens does, and what a restore keeps.
LEMMA MaintenanceKeeps ==
    ASSUME LocalInv, NEW t \in Tabs,
           \/ Open(t) \/ ListForDaily(t) \/ CreateDaily(t) \/ ListForRetention(t)
           \/ Prune(t) \/ MaintenanceFails(t)
    PROVE  LocalInv'
  <1>1. CASE Open(t)
    BY <1>1 DEF Open, ReadsTheClock, LocalInv, RecoveryTypeOK, EditingTypeOK, AllAttended
  <1>2. CASE ListForDaily(t) \/ ListForRetention(t) \/ MaintenanceFails(t)
    BY <1>2 DEF ListForDaily, ListForRetention, MaintenanceFails, editingVars, LocalInv,
                RecoveryTypeOK, EditingTypeOK, AllAttended
  <1>3. CASE CreateDaily(t)
    BY <1>3, TakenSnapshot DEF CreateDaily, Takes, editingVars, LocalInv, RecoveryTypeOK,
                               EditingTypeOK, AllAttended
  <1>4. CASE Prune(t)
    BY <1>4 DEF Prune, editingVars, LocalInv, RecoveryTypeOK, EditingTypeOK, AllAttended
  <1> QED
    BY <1>1, <1>2, <1>3, <1>4

LEMMA RestoreKeeps ==
    ASSUME LocalInv, NEW t \in Tabs,
           \/ PrepareFromFile(t) \/ PrepareFromSnapshot(t) \/ ApplyRestore(t)
           \/ TakePreRestore(t) \/ Replace(t) \/ RestoreAborts(t) \/ Confirm(t)
    PROVE  LocalInv'
  <1> USE DEF LocalInv
  <1> DEFINE r == restores[t]
  <1>1. r \in Restore /\ (r.pc # "none" => r.plan \in Database)
    BY DEF RecoveryTypeOK
  <1>2. ASSUME NEW n, Whole(n), Restores(t, n), UNCHANGED editingVars, UNCHANGED snapshots
        PROVE  LocalInv'
    <2>1. /\ restores' \in [Tabs -> Restore]
          /\ \A u \in Tabs : restores'[u].pc # "none" => restores'[u].plan \in Database
      BY <1>2, RestoresKeep
    <2> QED
      BY <1>2, <2>1 DEF editingVars, RecoveryTypeOK, EditingTypeOK, AllAttended
  <1>3. CASE PrepareFromFile(t)
    <2>1. PICK f \in Files : Restores(t, PlanOfFile(f))
      BY <1>3 DEF PrepareFromFile, Plans
    <2>2. Whole(PlanOfFile(f))
      BY PlannedIsWhole, AcceptedFiles, BeginningsAreWhole DEF PlanOfFile
    <2> QED
      BY <1>2, <1>3, <2>1, <2>2 DEF PrepareFromFile, Begins
  <1>4. CASE PrepareFromSnapshot(t)
    <2>1. PICK s \in snapshots :
            Restores(t, PlanOfPayload(ReadBusinessData(s.data), SchemaOf(s)))
      BY <1>4 DEF PrepareFromSnapshot
    <2>2. s.data \in Database
      BY <2>1 DEF RecoveryTypeOK
    <2>3. Whole(PlanOfPayload(ReadBusinessData(s.data), SchemaOf(s)))
      BY <2>2, PlannedIsWhole, ReadingRestores DEF PlanOfPayload
    <2> QED
      BY <1>2, <1>4, <2>1, <2>3 DEF PrepareFromSnapshot, Begins
  <1>5. CASE ApplyRestore(t)
    <2> DEFINE n == [r EXCEPT !.pc = "applied", !.createdAt = Now + 1]
    <2>1. Now + 1 \in Nat
      BY StartIsNat DEF Now, RecoveryTypeOK, EditingTypeOK
    <2>2. Whole(n) /\ Restores(t, n)
      BY <1>1, <1>5, <2>1 DEF ApplyRestore, Whole, Restore
    <2> HIDE DEF n
    <2>3. /\ restores' \in [Tabs -> Restore]
          /\ \A u \in Tabs : restores'[u].pc # "none" => restores'[u].plan \in Database
      BY <2>2, RestoresKeep
    <2> QED
      BY <1>5, <2>3 DEF ApplyRestore, ReadsTheClock, RecoveryTypeOK, EditingTypeOK, AllAttended
  <1>6. CASE TakePreRestore(t)
    <2> DEFINE n == [r EXCEPT !.pc = "kept"]
    <2>1. Whole(n) /\ Restores(t, n)
      BY <1>1, <1>6 DEF TakePreRestore, Whole, Restore
    <2> HIDE DEF n
    <2>2. /\ restores' \in [Tabs -> Restore]
          /\ \A u \in Tabs : restores'[u].pc # "none" => restores'[u].plan \in Database
      BY <2>1, RestoresKeep
    <2> QED
      BY <1>6, <2>2, TakenSnapshot DEF TakePreRestore, Takes, editingVars, RecoveryTypeOK,
                                       EditingTypeOK, AllAttended
  <1>7. CASE Replace(t)
    <2> DEFINE n == [r EXCEPT !.pc = "replaced"]
    <2>1. Whole(n) /\ Restores(t, n)
      BY <1>1, <1>7 DEF Replace, Whole, Restore
    <2> HIDE DEF n
    <2>2. /\ restores' \in [Tabs -> Restore]
          /\ \A u \in Tabs : restores'[u].pc # "none" => restores'[u].plan \in Database
      BY <2>1, RestoresKeep
    <2> QED
      BY <1>1, <1>7, <2>2 DEF Replace, RecoveryTypeOK, EditingTypeOK, AllAttended
  <1>8. CASE RestoreAborts(t) \/ Confirm(t)
    <2>1. PICK outcome \in {"unchanged", "restored", "unverifiable"} :
            Restores(t, [NoRestore EXCEPT !.outcome = outcome])
      BY <1>8 DEF RestoreAborts, Confirm, Ends
    <2> QED
      BY <1>2, <1>8, <2>1, NoRestoreIsWhole DEF RestoreAborts, Confirm
  <1> QED
    BY <1>3, <1>4, <1>5, <1>6, <1>7, <1>8

LEMMA OthersKeep ==
    ASSUME LocalInv, OtherScreens \/ \E t \in Tabs : Edit(t) \/ Leave(t)
    PROVE  LocalInv'
  <1> USE DEF LocalInv
  <1>1. CASE OtherScreens
    <2>1. database' \in Database /\ UNCHANGED <<editors, typed, clock>>
      BY <1>1 DEF OtherScreens, SaveSupplier, DeleteProject, RecoveryTypeOK, EditingTypeOK,
                  Database
    <2> QED
      BY <1>1, <2>1 DEF OtherScreens, Alongside, recoveryVars, RecoveryTypeOK, EditingTypeOK,
                        AllAttended
  <1>2. ASSUME NEW t \in Tabs, Edit(t) PROVE LocalInv'
    <2>1. EditingTypeOK' /\ AllAttended'
      BY <1>2, EditKeeps
    <2> QED
      BY <1>2, <2>1 DEF Edit, Alongside, recoveryVars, RecoveryTypeOK
  <1>3. ASSUME NEW t \in Tabs, Leave(t) PROVE LocalInv'
    <2>1. editors' \in [Tabs -> Editor] /\ AllAttended'
      BY <1>3, ClosedIsAttended, BecomesKeeps DEF Leave, RecoveryTypeOK, EditingTypeOK
    <2>2. Whole([NoRestore EXCEPT !.outcome = "none"])
      BY NoRestoreIsWhole
    <2>3. [NoRestore EXCEPT !.outcome = "none"] = NoRestore
      BY DEF NoRestore
    <2>4. /\ restores' \in [Tabs -> Restore]
          /\ \A u \in Tabs : restores'[u].pc # "none" => restores'[u].plan \in Database
      BY <1>3, <2>2, <2>3, RestoresKeep DEF Leave
    <2> QED
      BY <1>3, <2>1, <2>4 DEF Leave, RecoveryTypeOK, EditingTypeOK
  <1> QED
    BY <1>1, <1>2, <1>3

LEMMA LocalInit == RecoveryInit => LocalInv
  <1> SUFFICES ASSUME RecoveryInit PROVE LocalInv
    OBVIOUS
  <1>1. EditingTypeOK /\ AllAttended
    <2>1. First \in Version
      BY DEF First, Version
    <2> QED
      BY <2>1, ClosedIsAttended DEF RecoveryInit, EditingInit, EditingTypeOK, AllAttended, Database
  <1>2. \A s \in snapshots : s.data \in Database
    BY ScenesAssumption, BeginningsAreWhole DEF RecoveryInit, Part
  <1>3. NoRestore \in Restore /\ NoRestore.pc = "none"
    BY DEF NoRestore, Restore
  <1>4. restores = [t \in Tabs |-> NoRestore]
    BY DEF RecoveryInit
  <1> QED
    BY <1>1, <1>2, <1>3, <1>4 DEF LocalInv, RecoveryTypeOK

\* The stored data, the editors, the snapshots and the plans of restores are
\* well formed, and every editor attends to what was typed into it.
THEOREM LocalDataIsWhole == Spec => []LocalInv
  <1>1. LocalInv /\ [Next]_vars => LocalInv'
    <2> SUFFICES ASSUME LocalInv, [Next]_vars PROVE LocalInv'
      OBVIOUS
    <2>1. CASE UNCHANGED vars
      BY <2>1 DEF vars, LocalInv, RecoveryTypeOK, EditingTypeOK, AllAttended
    <2>2. CASE Next
      BY <2>2, MaintenanceKeeps, RestoreKeeps, OthersKeep DEF Next
    <2> QED
      BY <2>1, <2>2
  <1> QED
    BY LocalInit, <1>1, PTL DEF Spec

\* No autosave controller ever leaves typed work without a timer, a write in
\* flight or an error on the screen.
THEOREM NoEditForgotten == Spec => []NoEditIsForgotten
  <1>1. LocalInv => NoEditIsForgotten
    BY AttendedSaysNoEditIsForgotten DEF LocalInv
  <1> QED
    BY <1>1, LocalDataIsWhole, PTL

\* The readers accept every snapshot and every file this build writes, and give
\* back the state that was kept.
THEOREM KeptCanBeRestored == Spec => []WhatIsKeptCanBeRestored
  <1>1. LocalInv => WhatIsKeptCanBeRestored
    <2> SUFFICES ASSUME LocalInv PROVE WhatIsKeptCanBeRestored
      OBVIOUS
    <2>1. database \in Database /\ \A s \in snapshots : s.data \in Database
      BY DEF LocalInv, RecoveryTypeOK, EditingTypeOK
    <2>2. \A s \in snapshots : SchemaOf(s) \in {SchemaVersion - 1, SchemaVersion}
      BY DEF SchemaOf
    <2> QED
      BY <2>1, <2>2, SnapshotsAreAccepted, ReadingRestores, FilesAreAccepted, FilesHaveADigest
         DEF WhatIsKeptCanBeRestored
  <1> QED
    BY <1>1, LocalDataIsWhole, PTL

-----------------------------------------------------------------------------
(* Why a save overwrites only what its editor had loaded.  The code        *)
(* compares two instants (persistence/staleWrite.ts).  That is enough      *)
(* because an instant names one set of edits wherever a version of the     *)
(* project is kept, and because an editor only adds to what it loaded.     *)

-----------------------------------------------------------------------------
(* One editor.                                                             *)

\* The versions an editor has.
Holds(e, v) ==
    \/ v \in {e.base, e.work, e.buffered}
    \/ e.saving # None /\ v \in {e.saving.value, e.saving.previous}

\* What is shown contains what was loaded, and what is written contains what
\* it says it replaces.
Adds(e) ==
    /\ e.status = "CLOSED" => ~e.timer
    /\ e.status # "CLOSED" =>
         /\ e.base # None /\ e.work # None /\ e.base.edits \subseteq e.work.edits
         /\ e.buffered \in {None, e.work}
    /\ e.saving # None =>
         /\ e.status # "CLOSED" /\ e.saving.previous # None
         /\ e.saving.previous.edits \subseteq e.saving.value.edits
         /\ e.saving.value.edits \subseteq e.work.edits

LEMMA WriteAdds ==
    ASSUME NEW e \in Editor, Adds(e), e.status # "CLOSED", e.saving = None
    PROVE  Adds(Write(e)) /\ \A v : Holds(Write(e), v) => v = None \/ Holds(e, v)
  <1>1. CASE e.buffered = None
    BY <1>1 DEF Write
  <1>2. CASE e.buffered # None
    <2> DEFINE save == [value |-> e.buffered, previous |-> e.base, result |-> "waiting"]
               after == [e EXCEPT !.saving = save, !.state = "SAVING"]
    <2>1. save.value = e.buffered /\ save.previous = e.base
      OBVIOUS
    <2>2. Write(e) = after
      BY <1>2 DEF Write
    <2> HIDE DEF save
    <2>3. /\ after.status = e.status /\ after.base = e.base /\ after.work = e.work
          /\ after.buffered = e.buffered /\ after.saving = save
      BY DEF Editor
    <2> HIDE DEF after
    <2>4. Adds(after)
      BY <1>2, <2>1, <2>3 DEF Adds
    <2>5. \A v : Holds(after, v) => Holds(e, v)
      BY <2>1, <2>3 DEF Holds
    <2> QED
      BY <2>2, <2>4, <2>5
  <1> QED
    BY <1>1, <1>2

\* An operation that leaves the versions as they are, and then may write.
LEMMA RunAdds ==
    ASSUME NEW e \in Editor, Adds(e), e.status # "CLOSED", NEW still \in Editor,
           /\ still.status = e.status /\ still.base = e.base /\ still.work = e.work
           /\ still.buffered = e.buffered /\ still.saving = e.saving
    PROVE  /\ Adds(Run(still)) /\ \A v : Holds(Run(still), v) => v = None \/ Holds(e, v)
           /\ e.saving # None => Run(still).saving = e.saving
  <1>1. Adds(still) /\ \A v : Holds(still, v) <=> Holds(e, v)
    BY DEF Adds, Holds
  <1>2. CASE e.saving # None
    BY <1>1, <1>2 DEF Run
  <1>3. CASE e.saving = None
    BY <1>1, <1>3, WriteAdds DEF Run
  <1> QED
    BY <1>2, <1>3

LEMMA TimerAdds ==
    ASSUME NEW e \in Editor, Adds(e), e.status # "CLOSED",
           NEW n, n \in {TimedOut(e), Flushed(e), Retried(e)}
    PROVE  /\ Adds(n) /\ \A v : Holds(n, v) => v = None \/ Holds(e, v)
           /\ e.saving # None => n.saving = e.saving
  <1> DEFINE still == [e EXCEPT !.timer = FALSE]
             again == [e EXCEPT !.timer = FALSE, !.failed = 0]
  <1>1. 0 \in 0 .. (RetryLimit + 1)
    BY RetryLimitIsNat
  <1>2. still \in Editor /\ again \in Editor
    BY <1>1 DEF Editor
  <1>3. /\ still.status = e.status /\ still.base = e.base /\ still.work = e.work
        /\ still.buffered = e.buffered /\ still.saving = e.saving
    BY DEF Editor
  <1>4. /\ again.status = e.status /\ again.base = e.base /\ again.work = e.work
        /\ again.buffered = e.buffered /\ again.saving = e.saving
    BY DEF Editor
  <1>5. n = Run(still) \/ n = Run(again)
    BY DEF TimedOut, Flushed, Retried
  <1> HIDE DEF still, again
  <1> QED
    BY <1>2, <1>3, <1>4, <1>5, RunAdds

LEMMA ChangedAdds ==
    ASSUME NEW e \in Editor, Adds(e), e.status = "OPEN", NEW version \in Version,
           e.work.edits \subseteq version.edits
    PROVE  /\ Adds(Changed(e, version))
           /\ \A v : Holds(Changed(e, version), v) => v = version \/ Holds(e, v)
           /\ Changed(e, version).saving = e.saving
  <1> DEFINE after == Changed(e, version)
  <1>1. /\ after.status = e.status /\ after.base = e.base /\ after.work = version
        /\ after.buffered = version /\ after.saving = e.saving
    BY DEF Changed, Editor
  <1>2. version # None
    BY NoneIsNoVersion DEF Version
  <1> HIDE DEF after
  <1>3. Adds(after) /\ \A v : Holds(after, v) => v = version \/ Holds(e, v)
    BY <1>1, <1>2 DEF Adds, Holds
  <1> QED
    BY <1>1, <1>3 DEF after

\* The status and the answer of a transaction are not part of a version.
LEMMA MarkedAdds ==
    ASSUME NEW e \in Editor, Adds(e), e.saving # None,
           NEW result \in {"waiting", "committed", "failed"}
    PROVE  LET n == [e EXCEPT !.saving.result = result]
           IN /\ Adds(n) /\ \A v : Holds(n, v) => Holds(e, v)
              /\ n.saving.result = result
  <1> DEFINE save == [e.saving EXCEPT !.result = result]
             n == [e EXCEPT !.saving = save]
  <1>1. e.saving \in Save
    BY DEF Editor
  <1>2. /\ save \in Save /\ save # None /\ save.result = result
        /\ save.value = e.saving.value /\ save.previous = e.saving.previous
    BY <1>1, NoneIsNoSave DEF Save
  <1>3. [e EXCEPT !.saving.result = result] = n
    BY DEF Editor
  <1> HIDE DEF save
  <1>4. /\ n.status = e.status /\ n.base = e.base /\ n.work = e.work
        /\ n.buffered = e.buffered /\ n.saving = save
    BY DEF Editor
  <1> HIDE DEF n
  <1>5. Adds(n) /\ \A v : Holds(n, v) => Holds(e, v)
    BY <1>2, <1>4 DEF Adds, Holds
  <1> QED
    BY <1>2, <1>3, <1>4, <1>5

LEMMA SettledAdds ==
    ASSUME NEW e \in Editor, Adds(e), e.saving # None, NEW n, n \in {Succeeded(e), Failed(e)}
    PROVE  Adds(n) /\ \A v : Holds(n, v) => v = None \/ Holds(e, v)
  <1> DEFINE settled == [e EXCEPT !.saving = None, !.base = e.saving.value, !.failed = 0,
                                  !.willRetry = FALSE]
             done == [settled EXCEPT !.buffered = None, !.state = "SAVED"]
  <1>1. e.saving.value \in Version /\ e.saving.value # None
    BY NoneIsNoVersion DEF Editor, Save, Version
  <1>2. 0 \in 0 .. (RetryLimit + 1)
    BY RetryLimitIsNat
  <1>3. settled \in Editor
    BY <1>1, <1>2 DEF Editor
  <1>4. /\ settled.status = e.status /\ settled.base = e.saving.value /\ settled.work = e.work
        /\ settled.buffered = e.buffered /\ settled.saving = None
    BY DEF Editor
  <1>5. n = done \/ n = Write(settled) \/ n = Failed(e)
    BY DEF Succeeded
  <1> HIDE DEF settled
  <1>6. Adds(settled) /\ \A v : Holds(settled, v) => Holds(e, v)
    BY <1>1, <1>4 DEF Adds, Holds
  <1>7. CASE n = done
    <2>1. /\ done.status = settled.status /\ done.base = settled.base
          /\ done.work = settled.work /\ done.buffered = None /\ done.saving = settled.saving
      BY <1>3 DEF Editor
    <2> HIDE DEF done
    <2> QED
      BY <1>4, <1>6, <1>7, <2>1 DEF Adds, Holds
  <1>8. CASE n = Write(settled)
    <2>1. settled.status # "CLOSED"
      BY <1>4 DEF Adds
    <2> QED
      BY <1>3, <1>4, <1>6, <1>8, <2>1, WriteAdds
  <1>9. CASE n = Failed(e)
    <2>1. /\ n.status = e.status /\ n.base = e.base /\ n.work = e.work
          /\ n.buffered = e.buffered /\ n.saving = None
      BY <1>9 DEF Failed, Editor
    <2> QED
      BY <2>1 DEF Adds, Holds
  <1> QED
    BY <1>5, <1>7, <1>8, <1>9

-----------------------------------------------------------------------------
(* All versions.                                                           *)

\* Wherever a version of the project is kept, and the one every device and
\* every file begins with.
Kept(v) ==
    \/ v = First \/ v = database.project
    \/ \E s \in snapshots : v = s.data.project
    \/ \E t \in Tabs : Holds(editors[t], v)
    \/ \E t \in Tabs : restores[t].pc # "none" /\ v = restores[t].plan.project

OneMeaning ==
    \A v, w : v # None /\ w # None /\ Kept(v) /\ Kept(w) /\ v.at = w.at => v.edits = w.edits

Past == \A v : v # None /\ Kept(v) => v \in Version /\ v.at <= clock

InstantInv == OneMeaning /\ Past /\ \A t \in Tabs : Adds(editors[t])

\* What a step keeps was kept before, or is new and has a new instant.
LEMMA Spread ==
    ASSUME InstantInv, clock \in Nat, clock' \in Nat, clock <= clock',
           NEW x, x = None \/ Kept(x) \/ (x \in Version /\ x.at = clock + 1 /\ clock' = clock + 1),
           \A v : Kept(v)' => v \in {None, x} \/ Kept(v),
           \A t \in Tabs : Adds(editors'[t])
    PROVE  InstantInv'
  <1> USE DEF InstantInv
  <1>1. Past'
    <2> SUFFICES ASSUME NEW v, v # None, Kept(v)' PROVE v \in Version /\ v.at <= clock'
      BY DEF Past
    <2>1. v = x \/ Kept(v)
      OBVIOUS
    <2>2. CASE Kept(v)
      <3>1. v \in Version /\ v.at <= clock
        BY <2>2 DEF Past
      <3> QED
        BY <3>1 DEF Version
    <2>3. CASE v = x /\ ~Kept(v)
      BY <2>3 DEF Version
    <2> QED
      BY <2>1, <2>2, <2>3
  <1>2. OneMeaning'
    <2> SUFFICES ASSUME NEW v, NEW w, v # None, w # None, Kept(v)', Kept(w)', v.at = w.at
                 PROVE  v.edits = w.edits
      BY DEF OneMeaning
    <2>1. (v = x \/ Kept(v)) /\ (w = x \/ Kept(w))
      OBVIOUS
    <2>2. CASE Kept(v) /\ Kept(w)
      BY <2>2 DEF OneMeaning
    <2>3. CASE v = x /\ w = x
      BY <2>3
    <2>4. ASSUME NEW a, NEW b, a # None, b # None, ~Kept(a), a = x, Kept(b) PROVE a.at # b.at
      <3>1. a.at = clock + 1
        BY <2>4
      <3>2. b \in Version /\ b.at <= clock
        BY <2>4 DEF Past
      <3>3. b.at \in Nat
        BY <3>2 DEF Version
      <3> QED
        BY <3>1, <3>2, <3>3
    <2> QED
      BY <2>1, <2>2, <2>3, <2>4
  <1> QED
    BY <1>1, <1>2

\* A step of one editor.
LEMMA EditorSpreads ==
    ASSUME LocalInv, InstantInv, NEW t \in Tabs, NEW n, Becomes(t, n), Adds(n),
           UNCHANGED <<snapshots, restores>>, clock' \in Nat, clock <= clock',
           NEW x, x = None \/ Kept(x) \/ (x \in Version /\ x.at = clock + 1 /\ clock' = clock + 1),
           \A v : Holds(n, v) => v \in {None, x} \/ Kept(v),
           NEW y, y = None \/ Kept(y), database'.project = y
    PROVE  InstantInv'
  <1>1. editors \in [Tabs -> Editor] /\ clock \in Nat
    BY DEF LocalInv, RecoveryTypeOK, EditingTypeOK
  <1>2. \A u \in Tabs : editors'[u] = IF u = t THEN n ELSE editors[u]
    BY <1>1 DEF Becomes
  <1>3. \A u \in Tabs : Adds(editors'[u])
    BY <1>2 DEF InstantInv
  <1>4. ASSUME NEW v, Kept(v)' PROVE v \in {None, x} \/ Kept(v)
    <2>1. CASE v = First \/ v = database'.project
      BY <2>1 DEF Kept
    <2>2. CASE \E s \in snapshots' : v = s.data.project
      BY <2>2 DEF Kept
    <2>3. CASE \E u \in Tabs : Holds(editors'[u], v)
      BY <1>2, <2>3 DEF Kept
    <2>4. CASE \E u \in Tabs : restores'[u].pc # "none" /\ v = restores'[u].plan.project
      BY <2>4 DEF Kept
    <2> QED
      BY <1>4, <2>1, <2>2, <2>3, <2>4 DEF Kept
  <1> QED
    BY <1>1, <1>3, <1>4, Spread

LEMMA EditSpreads ==
    ASSUME LocalInv, LocalInv', InstantInv, NEW t \in Tabs, Edit(t)
    PROVE  InstantInv'
  <1> DEFINE e == editors[t]
  <1>1. /\ e \in Editor /\ Adds(e)
        /\ clock \in Nat /\ clock' \in Nat
        /\ UNCHANGED <<snapshots, restores>>
    BY DEF LocalInv, RecoveryTypeOK, EditingTypeOK, InstantInv, Edit, Alongside, recoveryVars
  <1>2. Kept(database.project) /\ \A v : Holds(e, v) => Kept(v)
    BY DEF Kept
  <1> HIDE DEF Kept, Holds
  <1>3. ASSUME NEW n, Becomes(t, n), Adds(n), UNCHANGED <<database, clock>>,
               \A v : Holds(n, v) => v = None \/ Holds(e, v)
        PROVE  InstantInv'
    BY <1>1, <1>2, <1>3, EditorSpreads
  <1>4. CASE OpenEditor(t)
    <2> DEFINE n == [Closed EXCEPT !.status = "OPEN", !.base = database.project,
                                   !.work = database.project]
    <2>1. /\ n.status = "OPEN" /\ n.base = database.project /\ n.work = database.project
          /\ n.buffered = None /\ n.saving = None
      BY DEF Closed
    <2>2. Becomes(t, n) /\ database.project # None /\ UNCHANGED <<database, clock>>
      BY <1>4 DEF OpenEditor
    <2> HIDE DEF n
    <2>3. Adds(n) /\ \A v : Holds(n, v) => v \in {None, database.project}
      BY <2>1, <2>2 DEF Adds, Holds
    <2> QED
      BY <1>1, <1>2, <2>2, <2>3, EditorSpreads
  <1>5. CASE Change(t)
    <2>1. PICK x \in Edits \ typed, refs \in {e.work.refs, database.supplier} :
            Becomes(t, Changed(e, [at |-> clock + 1, edits |-> e.work.edits \cup {x},
                                   refs |-> e.work.refs \/ refs]))
      BY <1>5 DEF Change
    <2> DEFINE version == [at |-> clock + 1, edits |-> e.work.edits \cup {x},
                           refs |-> e.work.refs \/ refs]
    <2>2. e.status = "OPEN" /\ clock' = clock + 1 /\ UNCHANGED database
      BY <1>5 DEF Change
    <2>3. e.work \in Version
      BY <1>1, <2>2 DEF Editor, Adds
    <2>4. version \in Version /\ version.at = clock + 1 /\ e.work.edits \subseteq version.edits
      BY <1>1, <2>3 DEF Version
    <2>5. Becomes(t, Changed(e, version))
      BY <2>1
    <2> HIDE DEF version
    <2>6. Adds(Changed(e, version))
          /\ \A v : Holds(Changed(e, version), v) => v = version \/ Holds(e, v)
      BY <1>1, <2>2, <2>4, ChangedAdds
    <2> QED
      BY <1>1, <1>2, <2>2, <2>4, <2>5, <2>6, EditorSpreads
  <1>6. CASE TimerFires(t) \/ Flush(t) \/ Retry(t)
    <2>1. UNCHANGED <<database, clock>>
      BY <1>6 DEF TimerFires, Flush, Retry
    <2>2. PICK n \in {TimedOut(e), Flushed(e), Retried(e)} : Becomes(t, n)
      BY <1>6 DEF TimerFires, Flush, Retry
    <2>3. e.status # "CLOSED"
      BY <1>1, <1>6 DEF Adds, TimerFires, Flush, Retry
    <2> QED
      BY <1>1, <1>3, <2>1, <2>2, <2>3, TimerAdds
  <1>7. CASE Dispose(t)
    <2>1. Becomes(t, Disposed(e)) /\ UNCHANGED <<database, clock>> /\ e.status = "OPEN"
      BY <1>7 DEF Dispose
    <2>2. /\ Disposed(e).base = e.base /\ Disposed(e).work = e.work
          /\ Disposed(e).buffered = e.buffered /\ Disposed(e).saving = e.saving
          /\ Disposed(e).status = "DISPOSED"
      BY <1>1 DEF Disposed, Editor
    <2>3. Adds(Disposed(e)) /\ \A v : Holds(Disposed(e), v) => Holds(e, v)
      BY <1>1, <2>1, <2>2 DEF Adds, Holds
    <2> QED
      BY <1>3, <2>1, <2>3
  <1>8. CASE Commit(t) \/ Refuse(t) \/ Abort(t)
    <2>1. e.saving # None /\ clock' = clock
      BY <1>8 DEF Commit, Refuse, Abort, SaveIs
    <2>2. PICK result \in {"waiting", "committed", "failed"} : Transacts(t, result)
      BY <1>8 DEF Commit, Refuse, Abort
    <2>3. database'.project = database.project \/ database'.project = e.saving.value
      BY <1>8 DEF Commit, Refuse, Abort, LocalInv, RecoveryTypeOK, EditingTypeOK, Database
    <2>4. Kept(e.saving.value)
      BY <1>2, <2>1 DEF Holds
    <2> DEFINE n == [e EXCEPT !.saving.result = result]
    <2>5. Becomes(t, n)
      BY <2>2 DEF Transacts
    <2>6. Adds(n) /\ \A v : Holds(n, v) => Holds(e, v)
      BY <1>1, <2>1, MarkedAdds
    <2> HIDE DEF n
    <2> QED
      BY <1>1, <1>2, <2>1, <2>3, <2>4, <2>5, <2>6, EditorSpreads
  <1>9. CASE Settle(t)
    <2>1. e.saving # None /\ UNCHANGED <<database, clock>>
      BY <1>9 DEF Settle, SaveIs
    <2>2. PICK n \in {Succeeded(e), Failed(e)} : Becomes(t, n)
      BY <1>9 DEF Settle
    <2> QED
      BY <1>1, <1>3, <2>1, <2>2, SettledAdds
  <1> QED
    BY <1>4, <1>5, <1>6, <1>7, <1>8, <1>9 DEF Edit, EditorStep

\* A step that leaves the editors and the clock's past alone.
LEMMA SourcesSpread ==
    ASSUME LocalInv, LocalInv', InstantInv, UNCHANGED editors, clock <= clock',
           \A v : Kept(v)' => v = None \/ Kept(v)
    PROVE  InstantInv'
  BY Spread DEF LocalInv, RecoveryTypeOK, EditingTypeOK, InstantInv

LEMMA ClosedAdds == Adds(Closed) /\ \A v : Holds(Closed, v) => v = None
  BY DEF Adds, Holds, Closed

LEMMA MaintenanceSpreads ==
    ASSUME LocalInv, LocalInv', InstantInv, NEW t \in Tabs,
           \/ Open(t) \/ ListForDaily(t) \/ CreateDaily(t) \/ ListForRetention(t)
           \/ Prune(t) \/ MaintenanceFails(t) \/ TakePreRestore(t)
    PROVE  InstantInv'
  <1>1. UNCHANGED <<editors, database>> /\ clock <= clock'
    BY DEF Open, ListForDaily, CreateDaily, ListForRetention, Prune, MaintenanceFails,
           TakePreRestore, Takes, ReadsTheClock, editingVars, LocalInv, RecoveryTypeOK,
           EditingTypeOK
  <1>2. \A s \in snapshots' : s \in snapshots \/ s.data = database
    BY TakenSnapshot DEF Open, ListForDaily, CreateDaily, ListForRetention, Prune,
           MaintenanceFails, TakePreRestore, Takes
  <1>3. \A u \in Tabs : restores'[u].pc # "none" =>
          restores[u].pc # "none" /\ restores'[u].plan = restores[u].plan
    BY DEF Open, ListForDaily, CreateDaily, ListForRetention, Prune, MaintenanceFails,
           TakePreRestore, Restores, LocalInv, RecoveryTypeOK, Restore
  <1>4. \A v : Kept(v)' => Kept(v)
    BY <1>1, <1>2, <1>3 DEF Kept
  <1> QED
    BY <1>1, <1>4, SourcesSpread

\* A restore installs only what was kept.
LEMMA RestoreSpreads ==
    ASSUME LocalInv, LocalInv', InstantInv, NEW t \in Tabs,
           \/ PrepareFromFile(t) \/ PrepareFromSnapshot(t) \/ ApplyRestore(t)
           \/ Replace(t) \/ RestoreAborts(t) \/ Confirm(t)
    PROVE  InstantInv'
  <1>1. UNCHANGED <<editors, snapshots>> /\ clock <= clock'
    BY DEF PrepareFromFile, PrepareFromSnapshot, Begins, ApplyRestore, Replace, RestoreAborts,
           Confirm, ReadsTheClock, editingVars, LocalInv, RecoveryTypeOK, EditingTypeOK
  <1>2. database' = database \/ (restores[t].pc # "none" /\ database' = restores[t].plan)
    BY DEF PrepareFromFile, PrepareFromSnapshot, Begins, ApplyRestore, Replace, RestoreAborts,
           Confirm, ReadsTheClock, editingVars
  <1>3. PICK n : Restores(t, n)
    BY DEF PrepareFromFile, PrepareFromSnapshot, ApplyRestore, Replace, RestoreAborts, Confirm,
           Ends
  <1>4. \A u \in Tabs : restores'[u] = IF u = t THEN n ELSE restores[u]
    BY <1>3 DEF Restores, LocalInv, RecoveryTypeOK
  <1>5. restores'[t].pc # "none" => restores'[t].plan.project = None \/ Kept(restores'[t].plan.project)
    <2>1. CASE PrepareFromFile(t)
      <3>1. PICK f \in Files : restores'[t] = PlanOfFile(f)
        BY <2>1, <1>4, <1>3 DEF PrepareFromFile, Plans, Restores, LocalInv, RecoveryTypeOK
      <3>2. restores'[t].pc # "none" =>
              RefusalOfFile(f) = "NONE" /\ restores'[t].plan = ContentOf(f.data)
        BY <3>1 DEF PlanOfFile, Planned, NoRestore
      <3>3. restores'[t].pc # "none" => restores'[t].plan.project \in {None, First}
        BY <3>2, AcceptedFiles DEF Beginnings
      <3> QED
        BY <3>3 DEF Kept
    <2>2. CASE PrepareFromSnapshot(t)
      <3>1. PICK s \in snapshots :
              restores'[t] = PlanOfPayload(ReadBusinessData(s.data), SchemaOf(s))
        BY <2>2 DEF PrepareFromSnapshot, Restores, LocalInv, RecoveryTypeOK
      <3>2. ContentOf(ReadBusinessData(s.data)) = s.data
        BY ReadingRestores DEF LocalInv, RecoveryTypeOK
      <3>3. restores'[t].pc # "none" => restores'[t].plan = s.data
        BY <3>1, <3>2 DEF PlanOfPayload, Planned, NoRestore
      <3> QED
        BY <3>3 DEF Kept
    <2>3. CASE ApplyRestore(t) \/ Replace(t)
      <3>1. restores[t].pc # "none" /\ restores'[t].plan = restores[t].plan
        BY <2>3 DEF ApplyRestore, Replace, Restores, LocalInv, RecoveryTypeOK, Restore
      <3> QED
        BY <3>1 DEF Kept
    <2>4. CASE RestoreAborts(t) \/ Confirm(t)
      <3>1. restores'[t].pc = "none"
        BY <2>4 DEF RestoreAborts, Confirm, Ends, Restores, NoRestore, LocalInv, RecoveryTypeOK
      <3> QED
        BY <3>1
    <2> QED
      BY <2>1, <2>2, <2>3, <2>4
  <1>6. ASSUME NEW v, Kept(v)' PROVE v = None \/ Kept(v)
    <2>1. CASE v = First \/ v = database'.project
      BY <1>2, <2>1 DEF Kept
    <2>2. CASE \E s \in snapshots' : v = s.data.project
      BY <1>1, <2>2 DEF Kept
    <2>3. CASE \E u \in Tabs : Holds(editors'[u], v)
      BY <1>1, <2>3 DEF Kept
    <2>4. ASSUME NEW u \in Tabs, restores'[u].pc # "none", v = restores'[u].plan.project
          PROVE  v = None \/ Kept(v)
      <3>1. CASE u = t
        BY <1>5, <2>4, <3>1
      <3>2. CASE u # t
        BY <1>4, <2>4, <3>2 DEF Kept
      <3> QED
        BY <3>1, <3>2
    <2> QED
      BY <1>6, <2>1, <2>2, <2>3, <2>4 DEF Kept
  <1> QED
    BY <1>1, <1>6, SourcesSpread

LEMMA OthersSpread ==
    ASSUME LocalInv, LocalInv', InstantInv, OtherScreens \/ \E t \in Tabs : Leave(t)
    PROVE  InstantInv'
  <1>1. CASE OtherScreens
    <2>1. UNCHANGED <<editors, snapshots, restores, clock>>
      BY <1>1 DEF OtherScreens, SaveSupplier, DeleteProject, Alongside, recoveryVars
    <2>2. database'.project \in {None, database.project}
      BY <1>1 DEF OtherScreens, SaveSupplier, DeleteProject, LocalInv, RecoveryTypeOK,
                  EditingTypeOK, Database
    <2>3. \A v : Kept(v)' => v = None \/ Kept(v)
      BY <2>1, <2>2 DEF Kept
    <2>4. clock <= clock'
      BY <2>1 DEF LocalInv, RecoveryTypeOK, EditingTypeOK
    <2> QED
      BY <2>1, <2>3, <2>4, SourcesSpread
  <1>2. ASSUME NEW t \in Tabs, Leave(t) PROVE InstantInv'
    <2>1. UNCHANGED <<database, snapshots, clock>>
      BY <1>2 DEF Leave
    <2>2. \A u \in Tabs : editors'[u] = IF u = t THEN Closed ELSE editors[u]
      BY <1>2 DEF Leave, Becomes, LocalInv, RecoveryTypeOK, EditingTypeOK
    <2>3. \A u \in Tabs : restores'[u] = IF u = t THEN NoRestore ELSE restores[u]
      BY <1>2 DEF Leave, Restores, LocalInv, RecoveryTypeOK
    <2>4. NoRestore.pc = "none"
      BY DEF NoRestore
    <2>5. \A v : Kept(v)' => v = None \/ Kept(v)
      BY <2>1, <2>2, <2>3, <2>4, ClosedAdds DEF Kept
    <2>6. \A u \in Tabs : Adds(editors'[u])
      BY <2>2, ClosedAdds DEF InstantInv
    <2>7. clock \in Nat /\ clock' \in Nat /\ clock <= clock'
      BY <2>1 DEF LocalInv, RecoveryTypeOK, EditingTypeOK
    <2> HIDE DEF Kept, InstantInv
    <2>8. None = None /\ \A v : Kept(v)' => v \in {None, None} \/ Kept(v)
      BY <2>5
    <2> QED
      BY <2>6, <2>7, <2>8, Spread
  <1> QED
    BY <1>1, <1>2

LEMMA InstantInit == RecoveryInit => InstantInv
  <1> SUFFICES ASSUME RecoveryInit PROVE InstantInv
    OBVIOUS
  <1>1. First \in Version
    BY DEF First, Version
  <1>2. database.project = First /\ clock = 0
    BY DEF RecoveryInit, EditingInit
  <1>3. \A s \in snapshots : s.data.project \in {None, First}
    BY ScenesAssumption DEF RecoveryInit, Part, Beginnings
  <1>4. \A t \in Tabs : editors[t] = Closed /\ restores[t].pc = "none"
    BY DEF RecoveryInit, EditingInit, NoRestore
  <1>5. \A v : Kept(v) => v \in {None, First}
    BY <1>2, <1>3, <1>4, ClosedAdds DEF Kept
  <1>6. OneMeaning
    BY <1>5 DEF OneMeaning
  <1>7. Past
    <2>1. First.at = 0
      BY DEF First
    <2> QED
      BY <1>1, <1>2, <1>5, <2>1 DEF Past
  <1> QED
    BY <1>4, <1>6, <1>7, ClosedAdds DEF InstantInv

LEMMA InstantStep == LocalInv /\ LocalInv' /\ InstantInv /\ [Next]_vars => InstantInv'
  <1> SUFFICES ASSUME LocalInv, LocalInv', InstantInv, [Next]_vars PROVE InstantInv'
    OBVIOUS
  <1>1. CASE UNCHANGED vars
    BY <1>1 DEF vars, InstantInv, OneMeaning, Past, Kept
  <1>2. CASE Next
    BY <1>2, MaintenanceSpreads, RestoreSpreads, EditSpreads, OthersSpread DEF Next
  <1> QED
    BY <1>1, <1>2

\* Wherever a version of the project is kept on the device, in an editor, in a
\* write in flight, in a snapshot or in the plan of a restore, its instant says
\* which edits it holds: the comparison of updatedAt in staleWrite.ts compares
\* contents.
THEOREM InstantsNameVersions == Spec => []InstantInv
  <1> QED
    BY LocalDataIsWhole, InstantInit, InstantStep, PTL DEF Spec

-----------------------------------------------------------------------------
(* The save.                                                               *)

\* The write that waits and then has committed ran its transaction.
LEMMA OnlyACommitCommits ==
    ASSUME LocalInv, InstantInv, Next, NEW t \in Tabs,
           SaveIs(t, "waiting"), SaveIs(t, "committed")'
    PROVE  Commit(t)
  <1> DEFINE e == editors[t]
  <1>1. /\ e \in Editor /\ Adds(e) /\ editors \in [Tabs -> Editor]
        /\ e.saving # None /\ e.saving.result = "waiting" /\ e.status # "CLOSED"
        /\ editors'[t].saving # None /\ editors'[t].saving.result = "committed"
    BY DEF LocalInv, RecoveryTypeOK, EditingTypeOK, InstantInv, SaveIs, Adds
  <1>2. ASSUME NEW n, Becomes(t, n) PROVE editors'[t] = n
    BY <1>1, <1>2 DEF Becomes
  <1>3. editors'[t] # e /\ editors'[t].saving # e.saving
    BY <1>1
  <1>4. ASSUME NEW u \in Tabs, Edit(u), u # t PROVE FALSE
    <2>1. PICK n : Becomes(u, n)
      BY <1>4 DEF Edit, EditorStep, OpenEditor, Change, TimerFires, Flush, Retry, Dispose,
                  Commit, Refuse, Abort, Settle, Transacts
    <2> QED
      BY <1>1, <1>3, <1>4, <2>1 DEF Becomes
  <1>5. ASSUME Edit(t) PROVE Commit(t)
    <2>1. CASE OpenEditor(t)
      <3>1. Closed.saving = None
        BY DEF Closed
      <3>2. e.status = "DISPOSED" /\ e.saving = None
        BY <1>1, <2>1 DEF OpenEditor, Idle
      <3> QED
        BY <1>1, <3>2
    <2>2. CASE Change(t)
      <3>1. PICK x \in Edits \ typed, refs \in {e.work.refs, database.supplier} :
              Becomes(t, Changed(e, [at |-> clock + 1, edits |-> e.work.edits \cup {x},
                                     refs |-> e.work.refs \/ refs]))
        BY <2>2 DEF Change
      <3>2. \A v : Changed(e, v).saving = e.saving
        BY <1>1 DEF Changed, Editor
      <3> QED
        BY <1>2, <1>3, <3>1, <3>2
    <2>3. CASE TimerFires(t) \/ Flush(t) \/ Retry(t)
      <3>1. PICK n \in {TimedOut(e), Flushed(e), Retried(e)} : Becomes(t, n)
        BY <2>3 DEF TimerFires, Flush, Retry
      <3> QED
        BY <1>1, <1>2, <1>3, <3>1, TimerAdds
    <2>4. CASE Dispose(t)
      <3>1. Disposed(e).saving = e.saving
        BY <1>1 DEF Disposed, Editor
      <3> QED
        BY <1>2, <1>3, <2>4, <3>1 DEF Dispose
    <2>5. CASE Refuse(t) \/ Abort(t)
      <3>1. Transacts(t, "failed")
        BY <2>5 DEF Refuse, Abort
      <3>2. [e EXCEPT !.saving.result = "failed"].saving.result = "failed"
        BY <1>1, MarkedAdds
      <3> QED
        BY <1>1, <1>2, <3>1, <3>2 DEF Transacts
    <2>6. CASE Settle(t)
      BY <1>1, <2>6 DEF Settle, SaveIs
    <2> QED
      BY <1>5, <2>1, <2>2, <2>3, <2>4, <2>5, <2>6 DEF Edit, EditorStep
  <1>6. ASSUME NEW u \in Tabs, Leave(u) PROVE FALSE
    <2>1. editors'[t] = e \/ editors'[t] = Closed
      BY <1>1, <1>6 DEF Leave, Becomes
    <2>2. Closed.saving = None
      BY DEF Closed
    <2> QED
      BY <1>1, <1>3, <2>1, <2>2
  <1>7. ASSUME OtherScreens PROVE FALSE
    BY <1>3, <1>7 DEF OtherScreens, SaveSupplier, DeleteProject
  <1>8. ASSUME NEW u \in Tabs,
               \/ Open(u) \/ ListForDaily(u) \/ CreateDaily(u) \/ ListForRetention(u) \/ Prune(u)
               \/ MaintenanceFails(u) \/ PrepareFromFile(u) \/ PrepareFromSnapshot(u)
               \/ ApplyRestore(u) \/ TakePreRestore(u) \/ Replace(u) \/ RestoreAborts(u)
               \/ Confirm(u)
        PROVE  FALSE
    BY <1>3, <1>8 DEF Open, ListForDaily, CreateDaily, ListForRetention, Prune, MaintenanceFails,
       PrepareFromFile, PrepareFromSnapshot, Begins, ApplyRestore, TakePreRestore, Takes,
       Replace, RestoreAborts, Confirm, ReadsTheClock, editingVars
  <1> QED
    BY <1>4, <1>5, <1>6, <1>7, <1>8 DEF Next

\* The stored version the transaction accepts is the one the write says it
\* replaces, edit for edit.
LEMMA CommitKeepsTheStored ==
    ASSUME LocalInv, InstantInv, NEW t \in Tabs, Commit(t), database.project # None
    PROVE  database.project.edits \subseteq database'.project.edits
  <1> DEFINE save == editors[t].saving
             stored == database.project
  <1>1. save # None /\ Acceptable(save, database) /\ Adds(editors[t])
    BY DEF Commit, SaveIs, InstantInv
  <1>2. save.previous # None /\ stored.at = save.previous.at
    BY <1>1 DEF Acceptable, NotStale
  <1>3. Kept(stored) /\ Kept(save.previous)
    BY <1>1 DEF Kept, Holds
  <1>4. stored.edits = save.previous.edits
    BY <1>2, <1>3 DEF InstantInv, OneMeaning
  <1>5. save.previous.edits \subseteq save.value.edits
    BY <1>1 DEF Adds
  <1>6. database'.project = save.value
    BY DEF Commit, LocalInv, RecoveryTypeOK, EditingTypeOK, Database
  <1> QED
    BY <1>4, <1>5, <1>6

\* A save that commits keeps every edit that was stored, whatever the other
\* tabs, the timers, the retries, the snapshots and the restores did since its
\* editor loaded the project.
THEOREM StaleSavesAreRefused == Spec => OverwritesOnlyWhatItKnew
  <1>1. LocalInv /\ InstantInv /\ [Next]_vars =>
          [\A t \in Tabs :
             SaveIs(t, "waiting") /\ SaveIs(t, "committed")' /\ database.project # None =>
               database.project.edits \subseteq database'.project.edits]_editingVars
    <2> SUFFICES ASSUME LocalInv, InstantInv, [Next]_vars, editingVars' # editingVars,
                        NEW t \in Tabs, SaveIs(t, "waiting"), SaveIs(t, "committed")',
                        database.project # None
                 PROVE  database.project.edits \subseteq database'.project.edits
      OBVIOUS
    <2>1. Next
      BY DEF vars, editingVars
    <2> QED
      BY <2>1, OnlyACommitCommits, CommitKeepsTheStored
  <1> QED
    BY <1>1, LocalDataIsWhole, InstantsNameVersions, PTL DEF Spec, OverwritesOnlyWhatItKnew

-----------------------------------------------------------------------------
(* What retention keeps, and what a restore installs.                      *)

\* Of the sets in a family of subsets of a finite set, one holds no other.
LEMMA SmallestSubset ==
    ASSUME NEW S, IsFiniteSet(S), NEW T, T \subseteq SUBSET S, T # {}
    PROVE  \E X \in T : \A Y \in T : Y \subseteq X => Y = X
  <1>1. IsWellFoundedOn(StrictSubsetOrdering(S), SUBSET S)
    BY FS_StrictSubsetOrderingWellFounded, FS_FiniteSubsetsOfFinite
  <1>2. PICK X \in T : \A Y \in T : ~ (<<Y, X>> \in StrictSubsetOrdering(S))
    BY <1>1, WFMin
  <1> QED
    BY <1>2 DEF StrictSubsetOrdering

\* A finite set has an element of the highest rank.
LEMMA HighestOf ==
    ASSUME NEW S, IsFiniteSet(S), S # {}, NEW rank, \A s \in S : rank[s] \in Int
    PROVE  \E m \in S : \A s \in S : rank[s] <= rank[m]
  <1> DEFINE Above(s) == {r \in S : rank[s] < rank[r]}
             family == {Above(s) : s \in S}
  <1>1. PICK X \in family : \A Y \in family : Y \subseteq X => Y = X
    <2>1. \A s \in S : Above(s) \in SUBSET S
      OBVIOUS
    <2>2. family \subseteq SUBSET S
      BY <2>1
    <2>3. family # {}
      <3>1. PICK s \in S : TRUE
        OBVIOUS
      <3>2. Above(s) \in family
        OBVIOUS
      <3> QED
        BY <3>2
    <2> HIDE DEF family
    <2> QED
      BY <2>2, <2>3, SmallestSubset
  <1>2. PICK m \in S : X = Above(m)
    OBVIOUS
  <1>3. ASSUME NEW s \in S, ~(rank[s] <= rank[m]) PROVE FALSE
    <2>1. rank[s] \in Int /\ rank[m] \in Int
      OBVIOUS
    <2>2. s \in Above(m) /\ s \notin Above(s)
      BY <1>3, <2>1
    <2>3. Above(s) \subseteq Above(m)
      BY <1>3, <2>1
    <2> QED
      BY <1>1, <1>2, <2>2, <2>3
  <1> QED
    BY <1>3

\* The reader answers NONE only if every test holds.
LEMMA NothingIsRefused ==
    ASSUME NEW tests \in Seq(Tests), FirstRefusal(tests) = "NONE"
    PROVE  \A i \in DOMAIN tests : tests[i].holds
  <1> DEFINE failed == {i \in DOMAIN tests : ~tests[i].holds}
             rank == [i \in failed |-> -i]
  <1> SUFFICES ASSUME failed # {} PROVE FALSE
    OBVIOUS
  <1>1. failed \subseteq 1 .. Len(tests) /\ Len(tests) \in Nat
    OBVIOUS
  <1>2. IsFiniteSet(failed)
    BY <1>1, FS_Interval, FS_Subset
  <1>3. \A i \in failed : rank[i] = -i /\ i \in Int
    BY <1>1
  <1> HIDE DEF rank
  <1>4. PICK m \in failed : \A i \in failed : rank[i] <= rank[m]
    <2> HIDE DEF failed
    <2>1. \A i \in failed : rank[i] \in Int
      BY <1>3
    <2> QED
      BY <1>2, <2>1, HighestOf
  <1>5. \A i \in failed : m <= i
    BY <1>3, <1>4
  <1>6. Min(failed) \in failed
    <2> HIDE DEF failed
    <2> QED
      BY <1>5 DEF Min
  <1>7. tests[Min(failed)].refusal \in Codes
    <2>1. PICK i \in DOMAIN tests : i = Min(failed)
      BY <1>6
    <2>2. tests[i] \in Tests
      OBVIOUS
    <2> QED
      BY <2>1, <2>2 DEF Tests
  <1>8. FirstRefusal(tests) = tests[Min(failed)].refusal
    BY DEF FirstRefusal
  <1> QED
    BY <1>7, <1>8 DEF Codes

LEMMA TestIsTest ==
    ASSUME NEW holds \in BOOLEAN, NEW refusal \in Codes
    PROVE  Test(holds, refusal) \in Tests /\ Test(holds, refusal).holds = holds
  BY DEF Test, Tests

LEMMA BothHold ==
    ASSUME NEW before \in Seq(Tests), NEW after \in Seq(Tests),
           FirstRefusal(before \o after) = "NONE"
    PROVE  /\ \A i \in DOMAIN before : before[i].holds
           /\ \A i \in DOMAIN after : after[i].holds
  <1> DEFINE all == before \o after
  <1>1. all \in Seq(Tests) /\ Len(all) = Len(before) + Len(after)
    OBVIOUS
  <1>2. \A i \in DOMAIN all : all[i].holds
    BY <1>1, NothingIsRefused
  <1>3. \A i \in DOMAIN before : i \in DOMAIN all /\ all[i] = before[i]
    OBVIOUS
  <1>4. \A i \in DOMAIN after : Len(before) + i \in DOMAIN all /\ all[Len(before) + i] = after[i]
    OBVIOUS
  <1> HIDE DEF all
  <1> QED
    BY <1>2, <1>3, <1>4

LEMMA StoreTestsAreTests ==
    ASSUME NEW data, NEW n
    PROVE  StoreTests(data, n) \in Seq(Tests)
  <1> DEFINE records == data[Stores[n]]
             small == Len(records) <= MaxPerStore
             few == RecordsUpTo(data, n) <= MaxInAll
             proved == Stores[n] \in Provable \/ records = <<>>
             hold == RecordsHold(records)
  <1>1. /\ small \in BOOLEAN /\ few \in BOOLEAN /\ proved \in BOOLEAN
        /\ hold \in BOOLEAN
    BY DEF RecordsHold
  <1> HIDE DEF small, few, proved, hold
  <1>2. /\ Test(small, "BACKUP_TOO_LARGE") \in Tests /\ Test(few, "BACKUP_TOO_LARGE") \in Tests
        /\ Test(proved, "BACKUP_STORE_UNSUPPORTED") \in Tests
        /\ Test(hold, "BACKUP_RECORD_INVALID") \in Tests
    BY <1>1, TestIsTest DEF Codes
  <1>3. \A a, b, c, d \in Tests : <<a, b, c, d>> \in Seq(Tests)
    OBVIOUS
  <1>4. <<Test(small, "BACKUP_TOO_LARGE"), Test(few, "BACKUP_TOO_LARGE"),
          Test(proved, "BACKUP_STORE_UNSUPPORTED"), Test(hold, "BACKUP_RECORD_INVALID")>>
        \in Seq(Tests)
    BY <1>2, <1>3
  <1> QED
    BY <1>4 DEF StoreTests, small, few, proved, hold

LEMMA TextTestsAreTests ==
    ASSUME NEW f \in Files PROVE TextTests(f) \in Seq(Tests)
  <1> DEFINE small == f.bytes <= MaxBytes
             json == f.text = "JSON"
             text == f.text
  <1>1. text \in Codes
    BY FilesAssumption DEF Texts, Codes
  <1>2. small \in BOOLEAN /\ json \in BOOLEAN
    OBVIOUS
  <1> HIDE DEF small, json, text
  <1>3. Test(small, "BACKUP_TOO_LARGE") \in Tests /\ Test(json, text) \in Tests
    BY <1>1, <1>2, TestIsTest DEF Codes
  <1>4. <<Test(small, "BACKUP_TOO_LARGE"), Test(json, text)>> \in Seq(Tests)
    BY <1>3
  <1> QED
    BY <1>4 DEF TextTests, small, json, text

\* The sixth test of the envelope is that the digest has its form.
LEMMA EnvelopeTestsAreTests ==
    ASSUME NEW f \in Files
    PROVE  /\ EnvelopeTests(f) \in Seq(Tests)
           /\ (\A i \in DOMAIN EnvelopeTests(f) : EnvelopeTests(f)[i].holds) => f.integrity.form = TRUE
  <1> DEFINE magic == f.magic
             known == f.keysKnown
             format == f.formatVersion = 1
             source == f.schemaVersion >= 1 /\ f.provenance
             counts == CountsHold(f.counts)
             form == IntegrityHolds(f.integrity)
             stores == ListsEveryStore(f.data)
  <1>1. /\ magic \in BOOLEAN /\ known \in BOOLEAN /\ format \in BOOLEAN /\ source \in BOOLEAN
        /\ counts \in BOOLEAN /\ stores \in BOOLEAN
    BY FilesAssumption DEF CountsHold, ListsEveryStore
  <1>2. form \in BOOLEAN /\ form = f.integrity.form
    BY FilesAssumption DEF IntegrityHolds
  <1> HIDE DEF magic, known, format, source, counts, form, stores
  <1>3. /\ Test(magic, "BACKUP_NOT_RECOGNISED") \in Tests
        /\ Test(known, "BACKUP_ENVELOPE_INVALID") \in Tests
        /\ Test(format, "BACKUP_FORMAT_UNSUPPORTED") \in Tests
        /\ Test(source, "BACKUP_ENVELOPE_INVALID") \in Tests
        /\ Test(counts, "BACKUP_ENVELOPE_INVALID") \in Tests
        /\ Test(form, "BACKUP_ENVELOPE_INVALID") \in Tests
        /\ Test(stores, "BACKUP_ENVELOPE_INVALID") \in Tests
        /\ Test(form, "BACKUP_ENVELOPE_INVALID").holds = form
    BY <1>1, <1>2, TestIsTest DEF Codes
  <1>4. \A a, b, c, d, e, g, h \in Tests :
          /\ <<a, b, c, d, e, g, h>> \in Seq(Tests)
          /\ 6 \in DOMAIN <<a, b, c, d, e, g, h>>
          /\ <<a, b, c, d, e, g, h>>[6] = g
    OBVIOUS
  <1>5. EnvelopeTests(f) =
          <<Test(magic, "BACKUP_NOT_RECOGNISED"), Test(known, "BACKUP_ENVELOPE_INVALID"),
            Test(format, "BACKUP_FORMAT_UNSUPPORTED"), Test(source, "BACKUP_ENVELOPE_INVALID"),
            Test(counts, "BACKUP_ENVELOPE_INVALID"), Test(form, "BACKUP_ENVELOPE_INVALID"),
            Test(stores, "BACKUP_ENVELOPE_INVALID")>>
    BY DEF EnvelopeTests, magic, known, format, source, counts, form, stores
  <1>6. /\ EnvelopeTests(f) \in Seq(Tests) /\ 6 \in DOMAIN EnvelopeTests(f)
        /\ EnvelopeTests(f)[6] = Test(form, "BACKUP_ENVELOPE_INVALID")
    BY <1>3, <1>4, <1>5
  <1> QED
    BY <1>2, <1>3, <1>6

\* So an accepted file has a digest of the right form, and of its own records.
LEMMA AcceptedFilesAreSealed ==
    ASSUME NEW f \in Files, RefusalOfFile(f) = "NONE"
    PROVE  f.integrity.form = TRUE /\ f.integrity.value = f.data
  <1> DEFINE envelope == FirstRefusal(TextTests(f) \o EnvelopeTests(f))
             young == f.schemaVersion <= SchemaVersion
             sealed == VerifyBackupChecksum(f)
             counted == VerifyEntityCounts(f)
             header == <<Test(young, "BACKUP_SCHEMA_TOO_NEW"),
                         Test(sealed, "BACKUP_CHECKSUM_MISMATCH"),
                         Test(counted, "BACKUP_COUNT_MISMATCH")>>
             versions == VersionTests(f.schemaVersion)
             records == ValidateBackupData(f.data)
  <1>1. envelope = "NONE"
    BY DEF RefusalOfFile
  <1>2. FirstRefusal((header \o versions) \o records) = "NONE"
    BY <1>1 DEF RefusalOfFile
  <1>3. f.integrity.form = TRUE
    BY <1>1, TextTestsAreTests, EnvelopeTestsAreTests, BothHold
  <1>4. young \in BOOLEAN /\ sealed \in BOOLEAN /\ counted \in BOOLEAN
    BY DEF VerifyBackupChecksum, VerifyEntityCounts
  <1> HIDE DEF young, sealed, counted, versions, records
  <1>5. /\ Test(young, "BACKUP_SCHEMA_TOO_NEW") \in Tests
        /\ Test(sealed, "BACKUP_CHECKSUM_MISMATCH") \in Tests
        /\ Test(counted, "BACKUP_COUNT_MISMATCH") \in Tests
        /\ Test(sealed, "BACKUP_CHECKSUM_MISMATCH").holds = sealed
    BY <1>4, TestIsTest DEF Codes
  <1>6. \A a, b, c \in Tests : /\ <<a, b, c>> \in Seq(Tests) /\ 2 \in DOMAIN <<a, b, c>>
                               /\ <<a, b, c>>[2] = b
    OBVIOUS
  <1>7. /\ header \in Seq(Tests) /\ 2 \in DOMAIN header
        /\ header[2] = Test(sealed, "BACKUP_CHECKSUM_MISMATCH")
    BY <1>5, <1>6
  <1>8. versions \in Seq(Tests)
    <2> DEFINE old == f.schemaVersion <= SchemaVersion
               path == HasMigrationPath(f.schemaVersion)
    <2>1. old \in BOOLEAN /\ path \in BOOLEAN
      BY DEF HasMigrationPath
    <2> HIDE DEF old, path
    <2>2. Test(old, "BACKUP_SCHEMA_TOO_NEW") \in Tests /\ Test(path, "BACKUP_SCHEMA_UNSUPPORTED") \in Tests
      BY <2>1, TestIsTest DEF Codes
    <2>3. <<Test(old, "BACKUP_SCHEMA_TOO_NEW"), Test(path, "BACKUP_SCHEMA_UNSUPPORTED")>> \in Seq(Tests)
      BY <2>2
    <2> QED
      BY <2>3 DEF versions, VersionTests, old, path
  <1>9. records \in Seq(Tests)
    BY StoreTestsAreTests DEF records, ValidateBackupData
  <1> HIDE DEF header
  <1>10. header \o versions \in Seq(Tests)
    BY <1>7, <1>8
  <1>11. \A i \in DOMAIN (header \o versions) : (header \o versions)[i].holds
    BY <1>2, <1>9, <1>10, BothHold
  <1>12. 2 \in DOMAIN (header \o versions) /\ (header \o versions)[2] = header[2]
    BY <1>7, <1>8
  <1>13. sealed
    BY <1>4, <1>5, <1>7, <1>11, <1>12
  <1> QED
    BY <1>3, <1>13 DEF sealed, VerifyBackupChecksum

\* What the device holds or is about to install, it held before, or it was
\* exported.
Known == held \cup Exported

SourceInv ==
    /\ database \in Known
    /\ \A s \in snapshots : s.data \in Known
    /\ \A t \in Tabs : restores[t].pc # "none" => restores[t].plan \in Known

LEMMA AcceptedFilesWereExported ==
    ASSUME NEW f \in Files, RefusalOfFile(f) = "NONE"
    PROVE  ContentOf(f.data) \in Exported
  <1>1. f.integrity.form = TRUE /\ f.integrity.value = f.data
    BY AcceptedFilesAreSealed
  <1>2. f.data = ReadBusinessData(ContentOf(f.data))
    BY AcceptedFiles
  <1>3. ContentOf(f.data) = ContentOf(f.integrity.value) /\ f.integrity.value = ReadBusinessData(ContentOf(f.data))
    BY <1>1, <1>2
  <1> QED
    BY <1>1, <1>3 DEF Exported

\* A step that changes one restore at most, and leaves what it holds known.
LEMMA SourcesStay ==
    ASSUME LocalInv, SourceInv, NEW t \in Tabs, NEW n, Restores(t, n),
           held \subseteq held', database' \in Known,
           \A s \in snapshots' : s.data \in Known,
           n.pc # "none" => n.plan \in Known
    PROVE  SourceInv'
  <1>1. Known \subseteq Known'
    BY DEF Known, Exported
  <1>2. \A u \in Tabs : restores'[u] = IF u = t THEN n ELSE restores[u]
    BY DEF Restores, LocalInv, RecoveryTypeOK
  <1> QED
    BY <1>1, <1>2 DEF SourceInv

LEMMA PreparedFromKnown ==
    ASSUME LocalInv, SourceInv, NEW t \in Tabs, PrepareFromFile(t) \/ PrepareFromSnapshot(t)
    PROVE  SourceInv'
  <1>1. UNCHANGED <<database, snapshots, held>>
    BY DEF PrepareFromFile, PrepareFromSnapshot, Begins, editingVars
  <1>2. PICK n : Restores(t, n) /\ (n.pc # "none" => n.plan \in Known)
    <2>1. CASE PrepareFromFile(t)
      <3>1. PICK f \in Files : Restores(t, PlanOfFile(f))
        BY <2>1 DEF PrepareFromFile, Plans
      <3>2. PlanOfFile(f).pc # "none" =>
              RefusalOfFile(f) = "NONE" /\ PlanOfFile(f).plan = ContentOf(f.data)
        BY DEF PlanOfFile, Planned, NoRestore
      <3> QED
        BY <3>1, <3>2, AcceptedFilesWereExported DEF Known
    <2>2. CASE PrepareFromSnapshot(t)
      <3>1. PICK s \in snapshots :
              Restores(t, PlanOfPayload(ReadBusinessData(s.data), SchemaOf(s)))
        BY <2>2 DEF PrepareFromSnapshot
      <3>2. ContentOf(ReadBusinessData(s.data)) = s.data
        BY ReadingRestores DEF LocalInv, RecoveryTypeOK
      <3>3. PlanOfPayload(ReadBusinessData(s.data), SchemaOf(s)).pc # "none" =>
              PlanOfPayload(ReadBusinessData(s.data), SchemaOf(s)).plan = s.data
        BY <3>2 DEF PlanOfPayload, Planned, NoRestore
      <3> QED
        BY <3>1, <3>3 DEF SourceInv
    <2> QED
      BY <2>1, <2>2
  <1> QED
    BY <1>1, <1>2, SourcesStay DEF SourceInv

LEMMA RestoredFromKnown ==
    ASSUME LocalInv, SourceInv, NEW t \in Tabs,
           \/ ApplyRestore(t) \/ TakePreRestore(t) \/ Replace(t) \/ RestoreAborts(t)
           \/ Confirm(t) \/ Leave(t)
    PROVE  SourceInv'
  <1>1. held' = held
    BY DEF ApplyRestore, TakePreRestore, Replace, RestoreAborts, Confirm, Leave
  <1>2. database' = database \/ (restores[t].pc # "none" /\ database' = restores[t].plan)
    BY DEF ApplyRestore, ReadsTheClock, TakePreRestore, Takes, Replace, RestoreAborts, Confirm,
           Leave, editingVars
  <1>3. \A s \in snapshots' : s \in snapshots \/ s.data = database
    BY TakenSnapshot DEF ApplyRestore, TakePreRestore, Takes, Replace, RestoreAborts, Confirm, Leave
  <1>4. PICK n : Restores(t, n) /\ (n.pc # "none" =>
                                     restores[t].pc # "none" /\ n.plan = restores[t].plan)
    <2>1. restores[t] \in Restore
      BY DEF LocalInv, RecoveryTypeOK
    <2>2. CASE ApplyRestore(t)
      <3> DEFINE n == [restores[t] EXCEPT !.pc = "applied", !.createdAt = Now + 1]
      <3>1. n.plan = restores[t].plan /\ restores[t].pc # "none"
        BY <2>1, <2>2 DEF ApplyRestore, Restore
      <3> QED
        BY <2>2, <3>1 DEF ApplyRestore
    <2>3. CASE TakePreRestore(t)
      <3> DEFINE n == [restores[t] EXCEPT !.pc = "kept"]
      <3>1. n.plan = restores[t].plan /\ restores[t].pc # "none"
        BY <2>1, <2>3 DEF TakePreRestore, Restore
      <3> QED
        BY <2>3, <3>1 DEF TakePreRestore
    <2>4. CASE Replace(t)
      <3> DEFINE n == [restores[t] EXCEPT !.pc = "replaced"]
      <3>1. n.plan = restores[t].plan /\ restores[t].pc # "none"
        BY <2>1, <2>4 DEF Replace, Restore
      <3> QED
        BY <2>4, <3>1 DEF Replace
    <2>5. CASE RestoreAborts(t) \/ Confirm(t)
      BY <2>5 DEF RestoreAborts, Confirm, Ends, NoRestore
    <2>6. CASE Leave(t)
      BY <2>6 DEF Leave, NoRestore
    <2> QED
      BY <2>2, <2>3, <2>4, <2>5, <2>6
  <1>5. database' \in Known /\ \A s \in snapshots' : s.data \in Known
    BY <1>2, <1>3 DEF SourceInv
  <1> QED
    BY <1>1, <1>4, <1>5, SourcesStay DEF SourceInv

LEMMA OthersAreKnown ==
    ASSUME LocalInv, SourceInv,
           \/ OtherScreens
           \/ \E t \in Tabs : \/ Open(t) \/ ListForDaily(t) \/ CreateDaily(t)
                              \/ ListForRetention(t) \/ Prune(t) \/ MaintenanceFails(t) \/ Edit(t)
    PROVE  SourceInv'
  <1>1. UNCHANGED restores
    BY DEF OtherScreens, Edit, Alongside, recoveryVars, Open, ListForDaily, CreateDaily,
           ListForRetention, Prune, MaintenanceFails
  <1>2. held \subseteq held' /\ (database' = database \/ database' \in held')
    BY DEF OtherScreens, Edit, Alongside, Open, ReadsTheClock, ListForDaily, CreateDaily, Takes,
           ListForRetention, Prune, MaintenanceFails, editingVars
  <1>3. \A s \in snapshots' : s \in snapshots \/ s.data = database
    BY TakenSnapshot DEF OtherScreens, Edit, Alongside, recoveryVars, Open, ListForDaily,
       CreateDaily, Takes, ListForRetention, Prune, MaintenanceFails
  <1>4. Known \subseteq Known' /\ held' \subseteq Known'
    BY <1>2 DEF Known, Exported
  <1> QED
    BY <1>1, <1>2, <1>3, <1>4 DEF SourceInv

\* A restore installs a state that the database once held, or that was exported
\* (prepareRestore proves the digest before it offers a plan, applyRestore
\* installs the whole plan).
THEOREM RestoresWhatWas == Spec => RestoresAStateThatWas
  <1> DEFINE FromKnown == \A t \in Tabs : Replace(t) => database' \in held \cup Exported
  <1>1. RecoveryInit => SourceInv
    BY DEF RecoveryInit, NoRestore, SourceInv, Known
  <1>2. LocalInv /\ SourceInv /\ [Next]_vars => SourceInv'
    <2> SUFFICES ASSUME LocalInv, SourceInv, [Next]_vars PROVE SourceInv'
      OBVIOUS
    <2>1. CASE UNCHANGED vars
      BY <2>1 DEF vars, SourceInv, Known, Exported
    <2>2. CASE Next
      BY <2>2, PreparedFromKnown, RestoredFromKnown, OthersAreKnown DEF Next
    <2> QED
      BY <2>1, <2>2
  <1>3. LocalInv /\ SourceInv /\ [Next]_vars => [FromKnown]_vars
    <2> SUFFICES ASSUME LocalInv, SourceInv, NEW t \in Tabs, Replace(t)
                 PROVE  database' \in held \cup Exported
      OBVIOUS
    <2> QED
      BY DEF Replace, SourceInv, Known
  <1> QED
    BY <1>1, <1>2, <1>3, LocalDataIsWhole, PTL DEF Spec, RestoresAStateThatWas

\* What a tab that prunes has listed may be gone, but never without a newer one
\* of its kind having stayed.
ListedIsCovered(t) ==
    At(t, "prune") =>
      \A r \in OfKind(opening[t].listed, "PRE_RESTORE") :
        r.at \in Int /\ \E s \in OfKind(snapshots, "PRE_RESTORE") : r.at <= s.at

RetentionInv ==
    /\ IsFiniteSet(snapshots) /\ \A s \in snapshots : s.at \in Int
    /\ opening = [t \in Tabs |-> opening[t]] /\ \A t \in Tabs : opening[t].now \in Nat
    /\ \A t \in Tabs : ListedIsCovered(t)

LEMMA NewestHasNoNewer ==
    ASSUME NEW S, IsFiniteSet(S), NEW s \in S
    PROVE  s \in NewestOf(S, 1) <=> \A r \in S : ~(r.at > s.at)
  <1> DEFINE newer == {r \in S : r.at > s.at}
  <1>1. IsFiniteSet(newer)
    BY FS_Subset
  <1>2. Cardinality(newer) \in Nat /\ (Cardinality(newer) = 0 <=> newer = {})
    BY <1>1, FS_CardinalityType, FS_EmptySet
  <1>3. s \in NewestOf(S, 1) <=> Cardinality(newer) < 1
    BY DEF NewestOf
  <1>4. newer = {} <=> \A r \in S : ~(r.at > s.at)
    OBVIOUS
  <1> HIDE DEF newer
  <1> QED
    BY <1>2, <1>3, <1>4

LEMMA SomeIsNewest ==
    ASSUME NEW S, IsFiniteSet(S), S # {}, \A s \in S : s.at \in Int
    PROVE  \E s \in NewestOf(S, 1) : \A r \in S : r.at <= s.at
  <1> DEFINE rank == [s \in S |-> s.at]
  <1>1. \A s \in S : rank[s] = s.at
    OBVIOUS
  <1> HIDE DEF rank
  <1>2. PICK m \in S : \A s \in S : rank[s] <= rank[m]
    BY <1>1, HighestOf
  <1>3. \A r \in S : r.at <= m.at /\ ~(r.at > m.at)
    BY <1>1, <1>2
  <1> QED
    BY <1>3, NewestHasNoNewer

\* However little room there is, what is protected is retained.
LEMMA ProtectedIsRetained ==
    ASSUME NEW listed, NEW now, NEW s \in listed, s \in Protected(listed, now)
    PROVE  s \in Retained(listed, now, quota)
  <1>1. s \in Wanted(listed, now)
    BY DEF Wanted
  <1> QED
    BY <1>1 DEF Retained, UnderCeiling

\* A tab's list does not let it remove the newest.
LEMMA NewestIsNotPruned ==
    ASSUME RetentionInv, NEW t \in Tabs, Prune(t),
           NEW s \in NewestOf(OfKind(snapshots, "PRE_RESTORE"), 1)
    PROVE  s \in snapshots'
  <1> DEFINE here == OfKind(snapshots, "PRE_RESTORE")
             listed == opening[t].listed
             there == OfKind(listed, "PRE_RESTORE")
  <1>1. s \in here /\ s \in snapshots /\ s.kind = "PRE_RESTORE"
    BY DEF NewestOf, OfKind
  <1>2. IsFiniteSet(here)
    BY FS_Subset DEF RetentionInv, OfKind
  <1>3. \A r \in here : r.at \in Int /\ ~(r.at > s.at)
    BY <1>1, <1>2, NewestHasNoNewer DEF RetentionInv, OfKind
  <1>4. CASE s \notin listed
    BY <1>1, <1>4 DEF Prune
  <1>5. CASE s \in listed
    <2>1. \A r \in there : r.at \in Int /\ \E q \in here : r.at <= q.at
      BY DEF RetentionInv, ListedIsCovered, Prune
    <2>2. \A r \in there : ~(r.at > s.at)
      BY <1>1, <1>3, <2>1
    <2>3. {r \in there : r.at > s.at} = {}
      BY <2>2
    <2>4. s \in NewestOf(there, 1)
      <3>1. s \in there
        BY <1>1, <1>5 DEF OfKind
      <3>2. Cardinality({r \in there : r.at > s.at}) = 0
        BY SMTT(30), <2>3, FS_EmptySet
      <3> HIDE DEF there
      <3> QED
        BY <3>1, <3>2 DEF NewestOf
    <2>5. s \in Protected(listed, opening[t].now)
      BY <2>4 DEF Protected
    <2>6. s \in Retained(listed, opening[t].now, quota)
      BY <1>5, <2>5, ProtectedIsRetained
    <2> QED
      BY <1>1, <2>6 DEF Prune
  <1> QED
    BY <1>4, <1>5

\* Nothing else removes a snapshot.
LEMMA OnlyPruningRemoves ==
    ASSUME [Next]_vars, ~(\E t \in Tabs : Prune(t))
    PROVE  snapshots \subseteq snapshots'
  BY DEF Next, vars, OtherScreens, Edit, Alongside, recoveryVars, Open, ListForDaily, CreateDaily,
         ListForRetention, MaintenanceFails, PrepareFromFile, PrepareFromSnapshot, Begins,
         ApplyRestore, TakePreRestore, Takes, Replace, RestoreAborts, Confirm, Leave

LEMMA NewestStays ==
    ASSUME RetentionInv, [Next]_vars, NEW s \in NewestOf(OfKind(snapshots, "PRE_RESTORE"), 1)
    PROVE  s \in snapshots'
  <1>1. s \in snapshots
    BY DEF NewestOf, OfKind
  <1> QED
    BY <1>1, NewestIsNotPruned, OnlyPruningRemoves

\* So whatever was covered remains covered.
LEMMA CoverStays ==
    ASSUME RetentionInv, [Next]_vars, NEW r, r.at \in Int,
           \E s \in OfKind(snapshots, "PRE_RESTORE") : r.at <= s.at
    PROVE  \E s \in OfKind(snapshots', "PRE_RESTORE") : r.at <= s.at
  <1> DEFINE here == OfKind(snapshots, "PRE_RESTORE")
  <1>1. IsFiniteSet(here) /\ here # {} /\ \A s \in here : s.at \in Int
    BY FS_Subset DEF RetentionInv, OfKind
  <1>2. PICK m \in NewestOf(here, 1) : \A s \in here : s.at <= m.at
    <2> HIDE DEF here
    <2> QED
      BY <1>1, SomeIsNewest
  <1>3. m \in here
    BY <1>2 DEF NewestOf
  <1>4. m.at \in Int /\ r.at <= m.at
    BY <1>1, <1>2, <1>3
  <1>5. m \in snapshots' /\ m.kind = "PRE_RESTORE"
    BY <1>2, <1>3, NewestStays DEF OfKind
  <1> QED
    BY <1>4, <1>5 DEF OfKind

LEMMA RetentionStep == LocalInv /\ RetentionInv /\ [Next]_vars => RetentionInv'
  <1> SUFFICES ASSUME LocalInv, RetentionInv, [Next]_vars PROVE RetentionInv'
    OBVIOUS
  <1>1. \E s : /\ snapshots' \subseteq snapshots \cup {s}
               /\ s \in snapshots' => s \in snapshots \/ s.at \in Int
    <2>1. CASE \E t \in Tabs : CreateDaily(t)
      <3>1. PICK t \in Tabs : CreateDaily(t)
        BY <2>1
      <3>2. snapshots' = snapshots \cup {Snapshot("DAILY", opening[t].now, database)}
        BY <3>1 DEF CreateDaily, Takes
      <3>3. Snapshot("DAILY", opening[t].now, database).at \in Int
        BY DEF Snapshot, RetentionInv
      <3> QED
        BY <3>2, <3>3
    <2>2. CASE \E t \in Tabs : TakePreRestore(t)
      <3>1. PICK t \in Tabs : TakePreRestore(t)
        BY <2>2
      <3>2. snapshots' = snapshots \cup {Snapshot("PRE_RESTORE", restores[t].createdAt, database)}
        BY <3>1 DEF TakePreRestore, Takes
      <3>3. Snapshot("PRE_RESTORE", restores[t].createdAt, database).at \in Int
        BY DEF Snapshot, LocalInv, RecoveryTypeOK, Restore
      <3> QED
        BY <3>2, <3>3
    <2>3. CASE ~(\E t \in Tabs : CreateDaily(t) \/ TakePreRestore(t))
      <3>1. snapshots' \subseteq snapshots
        BY <2>3 DEF Next, vars, OtherScreens, Edit, Alongside, recoveryVars, Open, ListForDaily,
           ListForRetention, Prune, MaintenanceFails, PrepareFromFile, PrepareFromSnapshot,
           Begins, ApplyRestore, Replace, RestoreAborts, Confirm, Leave
      <3> QED
        BY SMTT(30), <3>1
    <2> QED
      BY <2>1, <2>2, <2>3
  <1>2. IsFiniteSet(snapshots') /\ \A s \in snapshots' : s.at \in Int
    <2>1. PICK s : /\ snapshots' \subseteq snapshots \cup {s}
                   /\ s \in snapshots' => s \in snapshots \/ s.at \in Int
      BY <1>1
    <2>2. IsFiniteSet(snapshots \cup {s})
      BY FS_AddElement DEF RetentionInv
    <2>3. IsFiniteSet(snapshots')
      BY <2>1, <2>2, FS_Subset
    <2> QED
      BY <2>1, <2>3 DEF RetentionInv
  <1> DEFINE Moved == /\ opening' = [t \in Tabs |-> opening'[t]]
                      /\ \A t \in Tabs :
                           /\ opening'[t].now \in Nat
                           /\ \/ opening'[t] = opening[t]
                              \/ opening'[t].pc # "prune"
                              \/ opening'[t].listed = snapshots /\ UNCHANGED snapshots
  <1>3. Moved
    <2>1. Now \in Nat /\ Now + 1 \in Nat /\ \A t \in Tabs : opening[t].now \in Nat
      BY StartIsNat DEF Now, LocalInv, RecoveryTypeOK, EditingTypeOK, RetentionInv
    <2>2. ASSUME NEW t \in Tabs, NEW pc, NEW now \in Nat, NEW listed, Opens(t, pc, now, listed),
                 pc # "prune" \/ (listed = snapshots /\ UNCHANGED snapshots)
          PROVE  Moved
      BY <2>1, <2>2 DEF Opens, RetentionInv
    <2>3. CASE UNCHANGED opening
      BY <2>1, <2>3 DEF RetentionInv
    <2> HIDE DEF Now, Moved
    <2>4. ASSUME NEW t \in Tabs, Open(t) PROVE Moved
      BY <2>1, <2>2, <2>4 DEF Open
    <2>5. ASSUME NEW t \in Tabs, ListForDaily(t) PROVE Moved
      BY <2>1, <2>2, <2>5 DEF ListForDaily
    <2>6. ASSUME NEW t \in Tabs, CreateDaily(t) PROVE Moved
      BY <2>1, <2>2, <2>6 DEF CreateDaily
    <2>7. ASSUME NEW t \in Tabs, ListForRetention(t) PROVE Moved
      BY <2>1, <2>2, <2>7 DEF ListForRetention
    <2>8. ASSUME NEW t \in Tabs, Prune(t) \/ MaintenanceFails(t) \/ Leave(t) PROVE Moved
      <3>1. Opens(t, "ready", 0, {}) \/ Opens(t, "gone", 0, {})
        BY <2>8 DEF Prune, MaintenanceFails, Leave
      <3> QED
        BY <2>2, <3>1
    <2>9. CASE ~(\E t \in Tabs : \/ Open(t) \/ ListForDaily(t) \/ CreateDaily(t) \/ Prune(t)
                                 \/ MaintenanceFails(t) \/ Leave(t) \/ ListForRetention(t))
      <3>1. UNCHANGED opening
        BY <2>9 DEF Next, vars, OtherScreens, Edit, Alongside, recoveryVars, PrepareFromFile,
           PrepareFromSnapshot, Begins, ApplyRestore, TakePreRestore, Replace, RestoreAborts,
           Confirm
      <3> QED
        BY SMTT(30), <2>3, <3>1
    <2> QED
      BY <2>4, <2>5, <2>6, <2>7, <2>8, <2>9
  <1>4. opening' = [t \in Tabs |-> opening'[t]] /\ \A t \in Tabs : opening'[t].now \in Nat
    BY <1>3
  <1>5. ASSUME NEW t \in Tabs, opening'[t].pc = "prune", NEW r \in OfKind(opening'[t].listed, "PRE_RESTORE")
        PROVE  r.at \in Int /\ \E s \in OfKind(snapshots', "PRE_RESTORE") : r.at <= s.at
    <2>1. \/ opening'[t] = opening[t]
          \/ opening'[t].listed = snapshots /\ UNCHANGED snapshots
      BY <1>3, <1>5
    <2>2. CASE opening'[t] = opening[t]
      <3>1. r.at \in Int /\ \E s \in OfKind(snapshots, "PRE_RESTORE") : r.at <= s.at
        BY <1>5, <2>2 DEF RetentionInv, ListedIsCovered, At
      <3> QED
        BY <3>1, CoverStays
    <2>3. CASE opening'[t].listed = snapshots /\ UNCHANGED snapshots
      BY <1>5, <2>3 DEF RetentionInv, OfKind
    <2> QED
      BY <2>1, <2>2, <2>3
  <1> QED
    BY <1>2, <1>4, <1>5 DEF RetentionInv, ListedIsCovered, At, OfKind

LEMMA RetentionInit == RecoveryInit => RetentionInv
  <1> SUFFICES ASSUME RecoveryInit PROVE RetentionInv
    OBVIOUS
  <1>1. IsFiniteSet(snapshots) /\ \A s \in snapshots : s.at \in Int
    BY ScenesAssumption DEF RecoveryInit, Part
  <1>2. \A t \in Tabs : opening[t].pc \in {"closed", "ready"} /\ opening[t].now = 0
    BY DEF RecoveryInit, NotOpen
  <1>3. opening = [t \in Tabs |-> opening[t]]
    BY DEF RecoveryInit
  <1> QED
    BY <1>1, <1>2, <1>3 DEF RetentionInv, ListedIsCovered, At

\* No step removes the newest snapshot taken before a restore, whatever list a
\* tab prunes by and however little room there is (planRetention, applyRetention).
THEOREM NewestPreRestoreStays == Spec => NewestPreRestoreIsKept
  <1> DEFINE Kept1 == \A s \in NewestOf(OfKind(snapshots, "PRE_RESTORE"), 1) : s \in snapshots'
  <1>1. RetentionInv /\ [Next]_vars => [Kept1]_vars
    BY NewestStays
  <1> QED
    BY RetentionInit, RetentionStep, <1>1, LocalDataIsWhole, PTL DEF Spec, NewestPreRestoreIsKept
=============================================================================
