-------------------------- MODULE MCLocalRecovery ---------------------------
(***************************************************************************)
(* Two tabs, two edits.  A day has four instants, and the device was used  *)
(* for three weeks before the run.                                         *)
(***************************************************************************)
EXTENDS LocalRecovery, TLC

CONSTANTS t1, t2, e1, e2

MCPolicy == [daily |-> 1, weeks |-> 1, preMigration |-> 1, protectDays |-> 2, preImport |-> 1,
             preRestore |-> 1, manual |-> 1, quotaPercent |-> 40]

Before == [project |-> None, supplier |-> FALSE]
Beginning == [project |-> First, supplier |-> FALSE]

\* Older copies a device may hold: of two weeks, of yesterday and of today.
Old == {Snapshot("DAILY", 60, Before), Snapshot("DAILY", 79, Beginning),
        Snapshot("DAILY", 80, Beginning), Snapshot("PRE_RESTORE", 61, Before),
        Snapshot("PRE_RESTORE", 78, Beginning), Snapshot("PRE_MIGRATION", 62, Before),
        Snapshot("PRE_MIGRATION", 77, Beginning), Snapshot("MANUAL", 63, Before)}

SomeOld == {Old, {s \in Old : s.kind = "PRE_RESTORE"}, {s \in Old : s.at > 70}}

Whole == FileOf([project |-> First, supplier |-> TRUE])
Strange == Record("project", [at |-> 0, edits |-> {e2}, refs |-> TRUE], FALSE)

\* The file as an older build wrote it.
Older == {[Whole EXCEPT !.schemaVersion = v] : v \in {1, SchemaVersion - 1}}

\* One thing wrong with it, of each kind there is a refusal for.
Damaged ==
    {[Whole EXCEPT !.bytes = MaxBytes + 1], [Whole EXCEPT !.magic = FALSE],
     [Whole EXCEPT !.keysKnown = FALSE], [Whole EXCEPT !.formatVersion = 2],
     [Whole EXCEPT !.schemaVersion = 0], [Whole EXCEPT !.schemaVersion = SchemaVersion + 1],
     [Whole EXCEPT !.provenance = FALSE], [Whole EXCEPT !.counts["suppliers"] = 0],
     [Whole EXCEPT !.counts["suppliers"] = -1], [Whole EXCEPT !.integrity.form = FALSE],
     [Whole EXCEPT !.data = [s \in StoreNames \cup {"quotes"} |-> <<>>]],
     [Whole EXCEPT !.data["suppliers"] = <<>>],
     [Whole EXCEPT !.data["suppliers"] = <<>>, !.counts["suppliers"] = 0],
     [Whole EXCEPT !.data["projects"][1] = Strange]}
    \cup {[Whole EXCEPT !.text = x] :
            x \in {"BACKUP_TOO_DEEP", "BACKUP_MALFORMED_JSON", "BACKUP_FORBIDDEN_KEY"}}

\* Written and sealed by something else, with records no build stores.
With(store, records) == BuildBackupEnvelope([Whole.data EXCEPT ![store] = records])
Sealed ==
    {With("projects", <<[Strange EXCEPT !.sound = FALSE]>>),
     With("projects", <<Strange, Whole.data["projects"][1]>>),
     With("purchaseOrders", <<Record("order", None, FALSE)>>),
     With("projects", [i \in 1 .. MaxPerStore + 1 |-> [Strange EXCEPT !.key = i]]),
     With("projects", [i \in 1 .. MaxPerStore |-> [Strange EXCEPT !.key = i]])}

MCFiles == {Whole} \cup Older \cup Damaged \cup Sealed

MCScenes == [
    editing |->    \* two tabs edit
      [edit |-> {t1, t2}, restore |-> {}, open |-> {}, edits |-> {e1, e2}, restores |-> 0,
       snapshots |-> {{}}, quotas |-> {0}],
    elsewhere |->  \* one tab edits, the other restores
      [edit |-> {t1}, restore |-> {t2}, open |-> {}, edits |-> {e1}, restores |-> 1,
       snapshots |-> {{Snapshot("MANUAL", 63, Beginning)}}, quotas |-> {0}],
    opening |->    \* one tab edits, the other opens
      [edit |-> {t1}, restore |-> {}, open |-> {t2}, edits |-> {e1}, restores |-> 0,
       snapshots |-> {{}}, quotas |-> {10}],
    restoring |->  \* two tabs open, and restore
      [edit |-> {}, restore |-> {t1, t2}, open |-> {t1, t2}, edits |-> {}, restores |-> 2,
       snapshots |-> SomeOld, quotas |-> {0, 10}]]
=============================================================================
