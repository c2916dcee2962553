# LandedCompare: a verification development

LandedCompare compares supplier quotes by landed cost. The browser application
(`src/src`, TypeScript and React) keeps its shared data in a Supabase project
(`src/supabase`: PostgreSQL functions under row security, and one Edge Function);
an older version kept everything in IndexedDB, and that code is still there for
the cutover, for backups and for the calculation screens to come.

This directory models the parts of it in which several people, tabs, requests or
transactions meet, and the calculations whose figures the whole program is for,
checks the models with TLC and proves what matters most with TLAPS. Every
definition is a translation of the code that `PROJECT.json` names for it under
`map`; documents and comments are used only as statements to be checked against
it.

## 1. Inventory

P12 stands for `supabase/migrations/20260925120000_phase12_organization_administration.sql`.

| Part | State | Operations | Hard behaviour | What makes it correct | Here |
|---|---|---|---|---|---|
| Membership administration (P12, helpers, bootstrap) | `memberships`, one advisory lock per organisation | `organization_members`, `change_member_role`, `change_member_status` | calls wait for one another with a role read before the wait; lists are old when used | an ACTIVE OWNER always remains; every write is by somebody who has the authority at that moment; no lost update | `MembershipAdministration`, proved |
| Company screen (`OrganizationScreen.tsx`) | its lists, a pending change, the invitation card with its request id | load, offer, confirm, invite | lists are old when a change is offered; an invitation's answer is lost | what it offers is accepted unless something changed; a retry keeps its id and an edit gets a new one | `OrganizationScreen`, proved |
| Provisioning (`admin-provision-user`, `begin_`/`complete_`/`fail_`/`clear_provisioning…`, `purge_orphaned_auth_identity`) | `provisioning_attempts`, Auth identities, profiles, memberships, row and advisory locks | invite a person, retry, give up, purge | a function killed at any await, lost answers, retries under one request id, two companies inviting one address, a purge beside a link | one grant per request; memberships belong to live accounts; an answer of success is true; a password is still owed | `Provisioning`, proved |
| Boot and session of the tabs (`useApplicationBoot`, `boot.ts`, preference, invitation link) | the stored session, the remembered company, per tab: screen, `bootedIdentity`, `forceSelection`, running boot | boot, sign in and out, select and switch company, accept or decline a link | all tabs share `localStorage`; every read carries the session of the moment; events arrive late; React cancels a boot late | a tab that has heard everything shows the signed-in person; a screen always comes back | `BootSession`, checked and proved |
| Guarded gateway (`guardedGateway.ts`), `changePassword` | the identity and company a runtime was built for | every business call | the session changes between check, request and answer | no answer is taken once another person is seen to be signed in | the bracket in `CatalogRead`, `CatalogScreen` and `OrganizationExport`; `changePassword` planned |
| Cloud gateway (`gateway.ts`) | none of its own | reads by keyset pages, mutations, Auth calls | rows and memberships change between pages; a mutation's answer is lost | a list is what could be seen at one instant, or there is none | `CatalogRead`, proved (Auth calls are in `BootSession`) |
| Legacy cutover (`legacyMigration.ts`, `database.ts`, `preMigration.ts`, `import_catalog`) | each device's database with its version and connections, the cutover marker and attempt, the cloud's catalogue and import record | inspect, upgrade, import, verify, retire with a backup | two tabs and two devices; connections held open; answers lost; a colleague writes; a crash between steps | nothing local is deleted before it is in the cloud or in a backup file; one import per attempt; every action ends | `LegacyCutover`, checked and proved |
| Catalogue write functions and import (2026-09-23/24 migrations) | products, suppliers, customers, statuses with versions | create, update, activate, import | concurrent writers; five places decide what a record may hold | no lost update, all or nothing; nothing is stored that the next place refuses | `CatalogScreen`, `CatalogRecords`, `LegacyCutover`, proved |
| Catalogue screens (`useMasterDataList`, `PartyScreen`, `PartyForm`, `ProductForm`, `ConfirmDialog`) | the list, an open form with its record and draft, a dialog's record, a call of each | load, retry, create, edit, activate, reload the record, switch the language | reloads overlap; a save is refused as stale, or its answer is lost; a dialog is dismissed while its call runs; one number has two spellings | a save overwrites only what its draft was made from; a factor keeps its value | `CatalogScreen`, `CatalogRecords`, proved |
| Cloud export (`exportOrganization.ts`, `backup/cloud/*`) | the reads so far | export, read a file back | rows, memberships and session change between reads; files are edited | a file is complete and of one company; what is written reads back | `OrganizationExport`, `OrganizationFile`, proved |
| Opening and upgrading the local database (`database.ts`, `migrations.ts`) | the database with its version, the version-change request, each page's connection | open, upgrade, stamp, rewrite | builds of two versions are open; an upgrade is blocked, aborted or given up between two requests | a database is wholly of its version; an upgrade loses no record | `SchemaUpgrade`, checked and proved |
| Local persistence (`persistence/*`) | IndexedDB, pending autosave | save, coalesce, retry | saves overlap, another tab writes or deletes | the last edit is saved or the editor says it is not; a stale tab overwrites nothing | `ProjectEditing`, checked and proved |
| Local backup and snapshots (`backup/*`) | snapshots, export files, restore transaction | daily snapshot, retention, reading a file, restore with verification | two tabs take the daily snapshot and prune by old lists; a file is damaged; a restore beside an editor | a restore is all or nothing; what is kept can be restored; retention never drops what it protects | `BackupFile`, `Retention`, `LocalRecovery`, checked and proved |
| Calculation (`calculation/*`, `domain/*`) | none | allocation of costs, conversion, rounding | remainders, signs, capacities, boundaries | shares add up exactly; no assertion of the engine fails | `Allocation`, `CostCalculation`, checked and proved |
| Comparison (`comparison/*`) | none | validation, evaluation, ranking, insights | ties, missing prices, malformed projects | the order of entry changes nothing; a warning changes no figure | `SupplierComparison`, checked and proved |
| Row security and write gate | policies, `write_locked` | predicates of the others | a restore would lock writers out while they run | nobody writes through the gate | policies inside the modelled reads; the gate is not modelled (section 7) |
| Screens, texts, styles; deployment scripts | forms | rendering | — | — | not modelled, except the buttons that start modelled operations |

**How the parts meet.** A screen calls the guarded gateway, which calls the
gateway, which calls PostgreSQL functions; these re-prove the caller's authority
inside the database. Inviting a person goes through the Edge Function, which is
the only holder of a key that may call Auth's administration interface and the
provisioning functions. Administration and provisioning write the same
`memberships` rows and meet at the advisory lock `lock_membership_administration`.
Tabs meet in `localStorage`, in IndexedDB and by events. The server's memberships
decide what a boot may enter. The cutover joins the two worlds: it reads the
device's database, calls the catalogue's import, and compares by the same field
rules the forms and the export use.

The behaviours that are hard to test, at the line where each bites, are the
`hazards` of `PROJECT.json`.

## 2. Modules

| Module | What it is |
|---|---|
| `Memberships` | Pure operators on a membership table: roles, authority, the effect of a stamped write. Used by all administration modules. |
| `OrganizationAuthority` | The abstract specification: memberships change only by single writes, each by a person who at that moment may write that row to that role. |
| `MembershipAdministration` | The two administration calls in detail: authorise, wait for the lock, check, update, answer. Refines `OrganizationAuthority` (`WritesUnderAuthority`). |
| `OrganizationScreen` | EXTENDS `MembershipAdministration` with the company screen of one person. |
| `OrganizationFile` | The company's backup file: what is written, and every test of its reader, in order. |
| `OrganizationExport` | EXTENDS both with the export: its reads beside colleagues, administrators and other tabs, and the file afterwards. |
| `Provisioning` | EXTENDS `MembershipAdministration` with the provisioning runs, the account directory, the invited person and the operator's purge. |
| `BootSession` | The tabs of one browser. |
| `CompleteReads` | The abstract specification of a list read: an answer is the set of rows that could be seen at one instant of the call. |
| `CatalogRead` | The guarded read of one list in detail, page by page. Refines `CompleteReads` (`ReadsAreComplete`). |
| `CatalogScreen` | EXTENDS `CatalogRead` with the list, the form, the dialog and their saves. Refines it. |
| `CatalogRules` | What a record may hold, as the forms, the functions and constraints, the import, its check on the client, and the file's reader each decide it. |
| `CatalogRecords` | One record's life under a form in two languages, colleagues and the import. |
| `LegacyCutover` | The move of the devices' catalogues into the cloud. |
| `SchemaUpgrade` | The device's database under pages whose builds declare different versions of it. |
| `ProjectEditing` | One locally stored project under the autosave controllers of several tabs. |
| `Retention`, `Refusals`, `BackupFile` | Pure operators: which snapshots survive; the first of a list of tests that refuses; the local backup file and its reader. |
| `LocalRecovery` | EXTENDS these and `ProjectEditing` with opening, snapshots, pruning and restores. |
| `Allocation`, `CostCalculation` | Pure operators: rounding and largest-remainder allocation; the stages, settlement and allocation of one supplier's costs. |
| `SupplierComparison` | The comparison of a whole project: validation, evaluation, ranks, insights. |
| `MembershipAdministrationProofs`, `ProvisioningProofs`, `LegacyCutoverProofs` | The theorems of the modules they are named for. |
| `OrganizationProofs` | The theorems of `OrganizationScreen` and `OrganizationExport`. EXTENDS `MembershipAdministrationProofs`, as `ProvisioningProofs` does. |
| `CatalogProofs` | The theorems of `CatalogRead`, of `CatalogScreen` and of `CatalogRecords`. |
| `SupplierComparisonProofs` | The theorems of `SupplierComparison`, with those of the operators of `Allocation` and `CostCalculation`. |
| `LocalRecoveryProofs` | The theorems of `ProjectEditing` and of `LocalRecovery`, with those of the operators it uses. |
| `DeviceTabsProofs` | The theorems of `BootSession` and of `SchemaUpgrade`. |
| `MC…` | Instances for TLC: model values, small scenarios, symmetry. `CatalogScreen` needs none: its `.cfg` gives every constant its value. |

Some definitions are marked `fault:` in a comment. They are single wrong versions
of a neighbouring definition, used by nothing in the specifications: `PROJECT.json`
names them under `mutants`, and putting one in the place of the right definition
makes the property it is listed with fail.

### MembershipAdministration

Variables: `memberships` (organisation, person to role, status, version and
`by`, the column `updated_by`), `adminLock` (who holds the transaction-scoped
advisory lock of an organisation), and per call its program counter, what its
caller had been shown, its arguments, the role it read and its outcome.

| Action | Code |
|---|---|
| `List` | `organization_members`: what the caller is shown, versions included |
| `Authorise` | `assert_org_administrator` before the lock, and the argument checks |
| `Lock` | `lock_membership_administration` (waits) |
| `Check` | the role read again, own membership, target, authority over the row, version, last owner, in the order of the code |
| `Update` | the UPDATE with its stamp, and the commit that frees the lock |

Left out: the shape checks of arguments (they refuse before anything is read) and
`enforce_org_writable`, which only refuses more.

### OrganizationScreen

`load` is what each load under way waits for and has read, `shown` the answer the
screen presents, `pending` the change in the dialog, `busy` the call that `run()`
awaits, `invite` the card (draft, request id, edition), `sent` the invitations
that have left. `BeginsToLoad`, `LoadOwn`, `LoadMembers`, `LoadEnds` and
`LoadFails` are the reads one after the other; `Choose`, `CancelPending`,
`ConfirmPending` and `RunEnds` the changes, which are sent as calls of
`MembershipAdministration`; `UpdateInvitation`, `Submit`, `InvitationSucceeds` and
`InvitationFails` the card. An edition begins with every change of a field and
every success; `request` is the id `submit` generates or keeps. Two loads may
overlap, and the older may then overwrite the newer, as the code has it.

### OrganizationFile and OrganizationExport

`OrganizationFile` writes an envelope (`BuildEnvelope`) and reads one
(`ParseCloudBackup`): keys, version, organisation, every section with its order,
its identifiers, texts, factors and audit columns, the references from customers
to statuses, the counts and the digest. The digest is taken as injective. Texts
and factors are judged by `CatalogRules`.

`OrganizationExport` adds `stored`, the rows of the company; `session`, whose
session the tabs share; `export`, how far it has got and what it has read; and
`file`. `Export`, `RequireOrganization`, `GuardBefore`, `Count`, `StillMember`,
`ReadMembers`, `GuardAfter` and `HandOver` are the steps between two awaits:
membership and organisation first, each list under its guard, the recheck, the
digest, the file read back before it is handed over. A list is answered as
`CompleteReads` promises, which `CatalogRead` is proved to implement. `Create`,
`Assign`, `Administer` and `ChangeSession` are the others; `Administer` is one
write that `OrganizationAuthority` justifies. `Edit` and `ReadFile` are what
happens to a file in somebody's hands: at this commit `parseCloudBackup` has no
other caller than the export itself.

### Provisioning

A *run* is one invocation of `admin-provision-user`. Its program counter follows
the handler: `AuthoriseRun` and `Claim` (`begin_provisioning`), `Find`
(`findUserByEmail`), `Invite`, `Refind`, `LinkLock` / `LinkAdmin` / `LinkCheck` /
`LinkCommit` (the transaction of `complete_provisioning` with its row lock,
advisory lock, checks and writes), `Fail` (`failAttempt` and the error answer).
`Kill` ends a run at any await; a statement that is already in the database runs
to its end. A commit's answer may be lost, so a run that linked may go on to
`Fail`. `Clear` is an OWNER's `clear_provisioning_attempt`. `Accept`,
`SetPassword` and `AcknowledgePasswordChange` are the invited person;
`PurgeLock`, `PurgeCheck` and `PurgeDelete` the operator's purge, with the
identity's row locked between them and foreign keys that wait for it.

Auth's directory is external: it is modelled by what the handler relies on (an
invitation creates one unconfirmed identity per address and refuses a second one;
identities can be listed, listing can fail).

### BootSession

Shared: `session` (whose session is stored), `preference`, `active` (the server's
memberships). Per tab: `screen`, `booted`, `force`, `rerender`, `boot`, `link`,
`underway`, and one queue each for auth and storage events. Each await of the
boot is an action (`CheckLink`, `AskAboutLink`, `ReadSession`, `ReadProfile`,
`ReadMemberships`, `ReadOrganizations`, `Recheck`, `Inspect`); what runs between
two awaits is one step. `Invalidate` drops the screen and asks for a new boot;
`Rerender` is React running the effect, which cancels the old boot, so an old
boot may go on, and even publish its company, in between. `HearAuth` and
`HearStorage` are the listeners; `SignInEnds`, `SignOutEnds` and `AdoptionEnds`
the answers of Auth, each with the synchronous call of the tab's own listener
before it. `crossed` is a history variable: how many changes of person (up to two)
happened since the boot read its user.

With `RequestsFail` any request may end otherwise. `ReadFailures` is what `stopped`
(`boot.ts:282-298`) makes of it: a server that does not answer is UNAVAILABLE, a
forbidden read NO_MEMBERSHIP, and SESSION_EXPIRED or INVALID_CREDENTIALS is
SIGNED_OUT. Auth, asked for the session, fails in the first and the last way only
(`SessionFailures`). A refused boot shows the sign-in form and sets
`bootedIdentity` to null (`useApplicationBoot.ts:345`) although the session may still
be stored; the `user` of that screen, which the form does not show, records whose
session was refused. The refresh that also removes the session is `Expire`.

Left out: the parsing of the link, token refreshes (they do not change who is
signed in), an account without a profile, and the legacy phases after the boot
(`Inspect` is the wait for the inspection, which `LegacyCutover` models).

### CatalogRead and CatalogScreen

`CatalogRead` has `row` (the version of each row of one list, 0 before it exists),
`session` (whose session the browser holds), `members` (the company's ACTIVE
members), `lost` (the screen's runtime has been dropped) and `read`, one record
for each call: its program counter, the rows it has with the version of each, how
many it pushed, what is still ahead of its cursor, and the page and traversal
numbers.

| Action | Code |
|---|---|
| `Begin`, `CheckBefore`, `CheckAfter` | `guard` and `assertIdentity` around the operation |
| `ReadPage` | a turn of `traverse`: one request for the rows after the cursor, with their count |
| `Count` | `visibleTotal` and what `readAll` does with it |
| `AskMember` | `assertStillMember` |
| `Write`, `ChangeSession`, `ChangeMembers`, `Drop` | whatever else happens between two requests |

The server answers a request for whoever is signed in when it is sent: `Visible`
is the row policy. A row is never deleted and its id never changes, as the code's
comment requires of the schema; no action of the model does so because no
function and no policy of the migrations allows it. Columns, and the order in
which a screen presents its rows, are left out.

`CatalogScreen` adds `list` (status and rows shown), `form` (mode, the record with
its version and the version its draft was filled from, whether the last save was
refused as stale), `pending` (the record the dialog asks about), and one `call`
for each of the form and the dialog. `Submit`, `ReloadRecord` and `Confirm` start
a call; `CallCheckBefore`, then one of `Create`, `Update`, `StaleWrite`,
`ReadRecord` and `RequestRefused`, then `CallCheckAfter`, `Saved` or `Reloaded` are
its steps. The answer to a write that was made may be lost (`Arrives`). The dialog
is modelled as it is: Escape and a click beside it close it even while its call
runs, the call goes on, and its end closes whichever dialog is open by then.
`saved` is a history variable: what each acknowledged save left.

The code modelled is that of suppliers and customers; the product screen does the
same with a form of its own, and the status screen has no reload of the record.
Left out: leaving the screen while a call runs, and the maintenance lock, which
disables buttons and whose refusals are among those of `RequestRefused`.

### CatalogRules and CatalogRecords

A text is what the rules tell apart of it: what surrounds it (nothing, ASCII
spaces, other blanks), whether what it holds is nothing, only invisible or
visible, and whether it passes a limit. A number is its value with the way it is
written. `CatalogRules` has one operator for each of the rules the code applies:
`PassesForm` and `BuildInput` (the services), `Parameters` (the gateway),
`Columns`, `ConstraintsHold` and `Accepts` (functions and tables),
`ImportAccepts`, `FindImportProblem` and `SameRecord` (the import, its check on
the client, and the proof afterwards), `FileAccepts` (the file's reader).

`CatalogRecords` puts them in sequence around one record: `Open`, `Type`,
`SwitchLocale`, `SubmitRecord`, `ReadStored`, `StoredRead` and `CloseForm` are the form,
`Colleague`, `SetActive` and `SetStatusActive` somebody else, `Import` a device's
import. `edit` is the open form, and `edit.meant` the number the typed or loaded
factor was read as.

### LegacyCutover

`disk`, `conn`, `strays` and `pending` are the database of each device with its
version, the connections to it, and the upgrade or deletion that waits for
connections to close; `marker` and `attempt` what is in `localStorage`; `tab` the
action of each tab (boot, migrate or retire) and `shows` what the tab shows
between two; `cloud`, `calls` and `imports` the server.

| Actions | Code |
|---|---|
| `Boot`, `ReadVersion`, `OpenOld`, `KeepBeforeUpgrade`, `Open`, `Upgrade`, `UpgradeBlocked` | opening, with the snapshot before an upgrade |
| `Read`, `Compares`, `ReadList`, `Fits`, `Proven`, `NotProven` | `inspect`: the device's rows against the cloud's, list by list |
| `Migrate`, `PreImportSnapshot`, `Import`, `ImportChecks`, `ImportForbidden`, `ImportCounts`, `ImportCommits`, `ImportAnswered`, `ImportRefused` | the import: the checks before the lock, the lock, the count, the commit, its answer |
| `RetireLocal`, `Export`, `Delete`, `DeleteBlocked`, `ConfirmRetired`, `MarkComplete` | the backup file, the deletion and the marker |
| `PendingRuns` | a waiting upgrade or deletion once connections are closed |
| `Throws`, `Leave`, `Colleague` | a failing step, a closed tab, another writer |

`held` (every row the cloud ever had) and `delivered` (the backup files handed
over) are history variables. Left out: the mark of the last external backup, the
edit of a product's SKU (in `CatalogRecords` a record changes field by field), and
a tab that still runs the old build.

### SchemaUpgrade

`stored` is the committed database (version, meta record, indexes, records),
`upgrade` the version-change request at work with the draft of its transaction,
`connection` and `strays` who holds a connection, and `page` where each page's
`openDatabase` is. A record is abstracted to the version it was written in and the
migrations that have rewritten it since, with whether they came in order.

| Actions | Code |
|---|---|
| `OpenDatabase`, `OpenNewer`, `OpenFails`, `OpenCurrent`, `CheckMeta` | `openDatabase` up to its request, the request's errors, the check of the meta record |
| `RequestUpgrade`, `FinishClosing`, `StartUpgrade` | `onversionchange`, `onblocked`, `onupgradeneeded` |
| `StampMeta`, `CursorReads`, `CursorWrites`, `CursorEnds` | the meta record, the migrations in order (`RunSteps`) and the cursors of `rewriteStore`, one request at a time |
| `CommitUpgrade`, `AbortUpgrade` | the end of the transaction, whole or not at all |
| `WriteRecord`, `Unload` | a page that is open writes a record; a page goes |

`MCTabs` composes it with `BootSession`: each behaviour of the run `device_tabs` is
of one of the two.

### ProjectEditing and LocalRecovery

`database` is the stored project (the instant it was changed at, the edits it
contains, whether it names the supplier) and whether the supplier is stored;
`editors` the controller of each tab: base, work, buffer, timer, write in flight,
failures, state; `typed` and `clock` count what was typed and when.

| Action | Code |
|---|---|
| `OpenEditor`, `Change`, `Flush`, `Retry`, `Dispose` | the functions of the controller (`createAutosaveController`) |
| `TimerFires` | a debounce or a retry delay ends |
| `Commit`, `Refuse`, `Abort` | the save's transaction: stale-write check, references, put; a full disk |
| `Settle` | the promise of the save reaches `run` |
| `SaveSupplier`, `DeleteProject` | other screens |

`LocalRecovery` adds `snapshots`, `quota`, `opening` (the daily snapshot and the
pruning of a tab that opens) and `restores`. `Open`, `ListForDaily`, `CreateDaily`,
`ListForRetention` and `Prune` are `runSnapshotMaintenance`; a list may be old when
it is used. `PrepareFromFile` and `PrepareFromSnapshot` read and validate,
`ApplyRestore`, `TakePreRestore`, `Replace` and `Confirm` are the restore with its
two transactions. `held` is a history variable. `BackupFile` writes and reads a
backup: `TextTests`, `EnvelopeTests`, `VersionTests` and `StoreTests` are the
reader's tests in the order of the code, and `RefusalOfFile` is the first that
refuses. A `Record` has a key, a value and whether it holds an `undefined` that
JSON would drop; `Normalised` is what `normaliseForBackup` makes of it. The payload
migrations of this build are identities.

### Allocation, CostCalculation and SupplierComparison

Money is counted in ticks, of which `Minor` make a minor unit: `RoundToMinorUnit`
rounds half away from zero, and a proportional share is a whole number of
`1/ShareScale` ticks, rounded half up as `proportionalShare` does. `Allocation` has
the largest-remainder allocation with its passes and the capacity of each line;
`CostCalculation` the stages of a calculation, the percentage bases, the settlement
of effects, the check that discounts fit their lines, and the allocation of each
entry. An error the code throws is the value of the operator that finds it.
`SupplierComparison` is a specification of three steps: `ValidateComparisonStructure`,
`EvaluateNext` for each supplier, `RankAndExplain`; its properties compare the
result with a reference or with the result for a changed project. A sort is
`InOrder`: in each place the member that has as many before it. `WellFormed` is what
a project is before its structure is checked: numbers the domain's constructors let
through (no negative price or quantity, a rate not below zero), and no more lines or
costs than `FewParts` allows. That last one is the code's own precision:
`proportionalShare` keeps at least ten guard digits and those of the weights beyond
the minor unit, so that the roundings of `n` shares together stay below one minor
unit for every `n` an array can have.

## 3. What the runs show

| Run | Bounds | Question |
|---|---|---|
| `organization` | four scenes of one company: any two calls by any of three people, from every table with an ACTIVE OWNER; a call made from the screen beside another; the invitation card through three editions beside a call; the export of up to two catalogue rows with three record ids beside one write and one change of a membership, and two edits of the file | do administration calls overwrite only what was seen; is what the screen offers accepted; does a retry keep its id; is a file complete, does it read back, and does what is read write the same file? |
| `provisioning_beside_calls` | three people with accounts, one administration call beside one run that invites one of them again, and a purge | does an OWNER remain and is every write under authority when the other writer is a provisioning run, and do the call and the run both end although each may wait for the other's lock or for the purge? |
| `provisioning_companies` | two companies, one new address, two request ids for it, two runs, a purge | do grants, answers and owed passwords stay consistent across kills, retries, clears and purges? |
| `boot_links` | two tabs, two people, one of them in two companies, one tab opened with a link for the second person; two acts of people or a change by the server, three attempts of a boot, any request may fail or be refused | does every tab show something in the end? |
| `device_tabs` | two scenes: the same tabs, two acts or one and a change, any request may fail or be refused; and a page of an older and one of a newer build opening a database of three records in two stores, a chain of four versions, three openings, one failure | what can be published when another person's session answered some of the reads, and whom do tabs show that have heard everything; is a database at every moment wholly of its version, and does an upgrade lose nothing? |
| `catalog_reads` | two scenes: a list of four rows that may be created meanwhile, pages of one row because the server's cap is below the page size, three pages, two traversals, two people; and one record with texts of every kind and factors in both languages, two writes | is an answer all that could be seen at one instant, does every call end, and do the form, the server, the import and the file agree on what is well formed? |
| `catalog_screen` | one row with up to three versions, one read at a time, two people, any request may fail | which versions of a row do the saves of a form and a dialog replace, after stale writes, lost answers and reloads? |
| `comparison` | about 8,000 small projects in families aimed at settlement, lines, capacities, percentage bases, suppliers of every quality and malformed structure | does the engine ever fail one of its own assertions, and what do its figures and ranks depend on? |
| `local_data` | four scenes of two tabs: both edit; one edits while the other restores; one edits while the other opens; both open and restore. Two edits, one retry, a day of four instants, one file with each kind of damage | is an edit ever forgotten or overwritten, is the way back kept, and is what is restored a state that was? |
| `cutover` | seven scenes: one or two tabs on one device, two devices; databases before and after the upgrade, empty, with later records, with records the server refuses; one failure anywhere, one write of a colleague | is anything deleted that is nowhere else, is anything imported twice, is an upgrade protected, and does every action end? |
| `proportional_discounts` | three equal lines, three discounts | expected violation, below |
| `restore_loses_a_save` | one tab edits, one restores | expected violation, below |

Deadlock is not checked (`CHECK_DEADLOCK FALSE`) where the system may really stop:
calls, runs and restores are one-shot, and people need not act.

**The bounds.** `BootSession`: `MaxActs` counts what people do (signing in or out,
choosing and switching company, answering the link), `MaxChanges` what an
administrator changes meanwhile, `MaxTurns` the two together, a change
counted twice (`device_tabs` reaches two acts, or an act and a change in either order;
`boot_links` two acts or a change), `BootIdentityAttempts` the tries of a boot (the code's
three), and `RequestsFail` says whether requests may fail or be refused: in both runs
they may, every one of them. Two calls, two runs and two tabs
are enough for every race these properties are about, because each is between one
actor and what changes under it; three people are needed for a caller, a target
and a remaining OWNER. Two acts are what a session needs to go to another person
and back during one boot. Purges concern one named identity.

`CatalogRead`: `MaxVersion` (writes of one row) and the sizes of its limits. With
four rows, a page limit of three and one row to a page, a traversal can end, be
overtaken by a new row behind its cursor, and reach the limit; two traversals are
one that is repeated and one that is the last. A call's answers depend only on
what it read itself, so one call shows what any number do; the theorems need no
bound. In `catalog_screen` one row is enough because a save concerns one row;
three versions are what the screen finds, what another person makes of it, and
what is saved over that.

`LocalRecovery`: `RetryLimit` is 1 instead of 3 (a first failure retries, a second
gives up: the rest is the same step again); `Policy` keeps one of each kind, so
that every rule both keeps and drops something among the device's old snapshots;
`MaxPerStore` and `MaxInAll` are 3, so that a file of one store too many, and one
of many stores, both occur. `LegacyCutover`: `MaxFaults` is one failure or closed
tab per behaviour; each scene bounds what its devices hold and how often its
people act. `OrganizationExport`: `MaxRecords` 2 per section, so that a section is
reached at, and above, the limit.

`SupplierComparison`: families of projects rather than one product of all inputs.
Amounts are of a few ticks around the halves where rounding turns; three lines and
up to three costs let a remainder travel past a full line and back, and a large cost
beside small ones and a discount lets the one absorb what all were rounded by.

Two runs are expected to find a violation; each checks one sentence of the
repository that the code does not keep. `findings` quotes them.

* `proportional_discounts` (`ProportionalDiscountsFit`): three lines worth the
  same and three discounts of one line's value each. A discount's share is divided
  at a finite number of digits and rounded half up, so the three shares of a line
  exceed the line by the last digit: the supplier whose discounts equal its
  merchandise exactly is INVALID.
* `restore_loses_a_save` (`WhatIsReplacedIsKept`): another tab's commit falls
  between the transaction that takes the pre-restore snapshot and the one that
  replaces the database. It is in neither, although the snapshot is called the
  only route back.

**Definitions marked "Not so".** Six further definitions state what a comment or a
document says and TLC refutes; they are kept beside the properties they could be
mistaken for, and no run checks them:

* `ClaimIsExclusive` (`Provisioning`): after an OWNER clears an attempt whose run is
  only slow, two runs work under one claim, although the claim is said to be owned.
* `FailuresAreRecorded` (`Provisioning`): an account directory that cannot be listed
  throws past `failAttempt` (`admin-provision-user/index.ts:183,201`) and leaves the
  attempt IN_FLIGHT, although a failure is said to be recorded (line 26).
* `OnePersonPerScreen` (`BootSession`): two session changes during one boot leave
  one person's profile on another's screen until the events arrive; the recheck of
  `boot.ts:177` compares the end with the beginning only.
* `TabsAgree` (`BootSession`): a tab that is still inspecting lets the other tab's
  choice pass (`useApplicationBoot.ts:437`), and both settle in different companies.
* `ShowsItsOwnSaves` (`CatalogScreen`): with two reloads of a list under way, the
  older one may end last (`useMasterDataList.ts:89-99`), and the list then shows a
  saved row as it was before the save.
* `SettledEffectsStayNear` (`SupplierComparison`): an effect may settle further than
  a minor unit from its own rounding (`CostCalculation.ts:123`, `1013`): of costs of
  9.4, 0.3 and 0.3 beside a discount of 0.9 on merchandise of 1.4, the first settles
  to 11.

**Type invariants** are stated in every module. Where a run's invariants already
fix the types, or where a theorem proves them, the run does not check them again:
`TypeOK` of `MembershipAdministration`, `RowsReadOnce`,
`ProvisioningTypeOK`, `BootSession`'s `TypeOK`, `ReadTypeOK`, `ScreenTypeOK`,
`RecordsTypeOK`, `ComparisonTypeOK`, `RecoveryTypeOK`, `CutoverTypeOK` and the `ScreenTypeOK` of
`OrganizationScreen` were
model-checked while the modules were written and are not among the runs'
properties, and so was `RankingIsDense`, which `RanksAreDense` proves.

**Fairness.** `MembershipAdministration`: weak fairness of each step of a call,
since PostgreSQL runs a statement that can run and hands a freed advisory lock to
a waiter; none on callers. `Provisioning`: strong fairness of a run's steps,
because row locks are handed out in turn and a purge that comes and goes cannot
keep a waiter out for ever; weak fairness of a purge that has begun; none on
people, kills, or the operator. `BootSession`: for each tab, weak fairness of all
its boot steps, re-renders, event deliveries and answers together: the JavaScript
event loop of a tab with a ready task runs one of them, and a request ends or fails.
Which one is left open, so no kind of step is promised its turn; and nothing is
promised of what a person or an administrator does. `CatalogRead`: weak fairness of the steps of a call, for the
same reason; none on writers, other tabs or administrators. `LocalRecovery`: weak
fairness of an armed timer, of a save's transaction and of its answer, for each
tab, because timers fire and IndexedDB settles every transaction; none on people,
restores or maintenance. `LegacyCutover`: weak fairness of each tab's next step, of
a waiting request whose connections are closed, and of the server's step; none on
people, colleagues or failures.

## 4. What is proved

Every theorem holds for all values of its module's constants that satisfy the
named assumptions. `PROJECT.json` lists the theorems; the lemmas they rest on
stand before them in the same module.

### Membership administration

`MembershipAdministrationProofs`, for any sets of people, organisations and calls:

| Theorem | Statement |
|---|---|
| `TypeCorrectness` | `Spec => []TypeOK` |
| `OwnerRemains` | `Spec => []KeepsAnActiveOwner` |
| `LastOwnerGuardIsSecondLine` | `Spec => []LastOwnerGuardIsUnreachable` |
| `NoLostUpdate` | `Spec => ChangesOnlyWhatWasSeen` |
| `ImplementsAuthority` | `Spec => WritesUnderAuthority`, the refinement of `OrganizationAuthority` |

The inductive invariant is `IInv`: the type invariant; `CallsAreFormed` (a call
past a step carries what that step gave it); `SeenRowsArePast` (what a caller was
shown is no newer than the row, and equal if the versions are);
`CheckedStandsUntilWritten` (the facts a call checked still hold until it writes,
because it has the lock); `KeepsAnActiveOwner`; and the unreachability of the
last-owner refusal. `KeepsAnActiveOwner` alone is not inductive: that an update
leaves an OWNER follows from what its check saw, and that this still stands when
the update happens follows from the lock.

### The company screen and its export

`OrganizationProofs`, for any sets of people, companies, calls, loads and drafts,
from `ScreenAssumption` and `TransactionsAssumption`, and for the export
`ExportAssumption`, `FileAssumption` and `StoresAssumption` (a user has one id, users
and first rows are finitely many; the first rows are such as the constraints of the
tables allow: one row of an id, texts the reader accepts, which `RowsCanBeExported`
shows of all that is stored, and statuses that are there):

| Theorem | Statement |
|---|---|
| `ScreenTypeCorrectness` | `OrganizationSpec => []ScreenTypeOK` |
| `InvitationsKeepId` | `OrganizationSpec => []InvitationsKeepTheirId` |
| `ScreenLosesNothing` | `OrganizationSpec => []KeepsAnActiveOwner /\ ChangesOnlyWhatWasSeen` |
| `OffersAreAccepted` | `OrganizationSpec => OffersWhatIsAccepted` |
| `FilesAreWhole` | `ExportSpec => []FilesAreComplete` |
| `ExportsAreReadable` | `ExportSpec => []ExportsReadBack` |
| `ReadingWritesBack` | `ExportSpec => []ReadingIsWritingBack` |

`OrganizationSpec` is the whole screen, dialog and card together, beside any other
calls (the run takes them one after the other). The invariant is `IInv` of the two
functions with `ScreenInv`. `ScreenRowsArePast` carries `SeenRowsArePast` back
through the screen: a row in a load, in the list or in the dialog was the
subject's once, and rows only move on (`RowsMoveOn`), so that the call the dialog
sends is one `MembershipAdministrationProofs` speaks of, however old its row is.
`OffersAreSound` keeps with every call what `canManage` and `assignableRoles`
asked; that the functions then accept it is `OfferedIsAccepted`, a lemma about
`Verdict`. `InvitationsKeepTheirId` is inductive only with `CardIsOfItsEdition`:
the id on the card is that of the requests of its edition and of no other, and the
newest id generated is not below any.

`FilesAreWhole` needs that a section not yet counted is still whole
(`UncountedAreWhole`), which rests on the reading order naming every section
once; a reader who sees less than there is is away, and then sees nothing
(`CountPreserves`).

`ExportsAreReadable` needs two more invariants. `StoreIsSound`: rows are never
deleted, so the status of a customer that has been read is still stored when the
statuses are, which is why the reading order matters. `ReferencesAreClosed`
carries that across the counts: it speaks of the stored statuses until they are
counted and of those read afterwards. Both theorems meet at the reader:
`ReaderAccepts` splits its verdict into its tests, `WrittenSection` shows that what
`SortedById` makes of a set of rows with distinct ids passes those of a section, and
`SortingIsUndone` that a section which passes them is what `SortedById` makes of its
rows, because two ascending sequences of the same records are equal
(`AscendingIsUnique`). A sorting exists (`ASortingExists`) as the inverse of the
rank, the number of records that do not come after one, and so without induction.
`ReadingWritesBack` adds `FileInv`: what is done to a file, damage and new seals
included, leaves a value of the type `Files`, and a verdict is of the file it stands
beside.

### Provisioning

`ProvisioningProofs`, for any people, addresses, invitations, runs and calls, from
`ProvisioningAssumption` (runs are transactions beside the calls; an account has
one address) and `TransactionsAssumption`:

| Theorem | Statement |
|---|---|
| `ProvisioningIsSound` | `[]BesideInv`, the invariant below |
| `OwnerRemainsBesideRuns` | `[]KeepsAnActiveOwner`, of calls, runs and purges together |
| `EveryWriterHasAuthority` | `WritesUnderAuthority` of all three writers: the refinement of `OrganizationAuthority` |
| `GrantedOnce` | `GrantsOncePerRequest` |
| `MembersHaveAccounts` | a membership and an attempt that SUCCEEDED belong to a live account |
| `OnboardingStaysOwed` | `[]OnboardingIsOwed` |
| `SuccessIsTrue` | `[]SuccessIsOfThisInvitation` |

`BesideInv` is the invariant of the calls (`IInv`) with `ProvisioningInv` and
`GrantsStand`. `ProvisioningInv` has the types; `RunsInv`, what a run between two
steps may rely on (past its claim it works on an attempt of its own invitation, it
links only an account of that address, inside the linking transaction it holds the
attempt's row, IN_FLIGHT, and an answer of success stands); and `PeopleInv`, what
an identity, its profile and its memberships owe each other. The properties are
not inductive without it: `OnboardingIsOwed` fails in a state where a run is about
to link an account of another address, and a purge is safe only because the
identity's row has been locked since the check. `GrantsStand` (what a run checked
under the lock still holds when it commits) is to runs what
`CheckedStandsUntilWritten` is to calls; the refinement follows from both.

### Catalogue reads and saves

`CatalogProofs`, for any finite set of integer ids, any people, calls, page
sizes and limits, and any interference:

| Theorem | Statement |
|---|---|
| `ReadsAreTyped` | `ReadSpec => []ReadTypeOK` |
| `NoRowTwice` | `ReadSpec => []RowsReadOnce` |
| `AnswersAreComplete` | `ReadSpec => ReadsAreComplete`, the refinement of `CompleteReads` |

The inductive invariant `ReadInv` adds two facts to these: what a call has is
behind its cursor, so that a new page adds rows it does not have and the number
pushed is the number of rows; and what it has exists. The second is the code's
own argument: what was collected is a subset of what the count measures while the
person is a member, and a subset of the same size is the same set. The proof also
covers what the comment passes over, a count taken without a membership: it is 0,
so it reconciles only an empty read, and that is then what could be seen.

The same module, of the screen and for the same constants:

| Theorem | Statement |
|---|---|
| `ScreenReads` | `ScreenSpec => ReadSpec`: the screen only does to the server, the session and its reads what `CatalogRead` allows |
| `ScreenListsAreWhole` | `ScreenSpec => ReadsAreComplete`, from the two refinements |
| `ScreenIsTyped` | `ScreenSpec => []ScreenTypeOK` |
| `NothingOverwrittenUnread` | `ScreenSpec => OverwritesOnlyWhatWasRead` |

Its invariant `CallInv` says that a record's draft was filled from the version
that will be sent with it, in the form, the dialog and both calls, and that a
call of the form has an open form of the right mode. A save changes a row only if
the version sent is the row's, which is then the version of the draft.

### Catalogue records

In `CatalogProofs` too, for any texts, numbers and drafts that satisfy the
assumptions on their kinds:

| Theorem | Statement |
|---|---|
| `RecordsAreSound` | `[]RecordsInv`, with the types |
| `RowsCanBeExported` | `[]StoredRowsAreExportable` |
| `FactorsKeepTheirMeaning` | `[]FactorsStayReadable` |
| `ImportsAreRecognised` | `[]ImportsMatchTheirSource` |
| `TheFormSaysFirst` | `FormsSayFirst` |

`RecordsInv` adds that a form nobody has touched, and that the row has not outrun,
holds the row; that nothing is stored before the first write; and that an import
is of a record of the device. The rest are lemmas about the rules themselves: what
a form's input, the function's parameters and the columns keep of each other, for
any kind of text.

### Legacy cutover

`LegacyCutoverProofs`, for any tabs, devices, records and failures, from
`SceneAssumption` (the types of what the devices hold at first) and
`NoneIsNothing`:

| Theorem | Statement |
|---|---|
| `WhatGoesIsKept` | `RetiresOnlyWhatIsKept` |
| `MarkedDevices` | `[]MarkedDevicesHoldNothing` |
| `UpgradesAreProtected` | `UpgradeIsProtected` |
| `OneImport` | `[]ImportedOnce` |

The invariant `CutoverInv` says what an action knows of its database, and its
proof is that this stays true whatever other tabs do to the database: by `Evolves`,
a step leaves it gone, or new and empty, or with the data it had, upgraded or not,
with snapshots only added. So what the action read (`AsRead`), what justifies the
deletion (`Justified`) and what protects the upgrade (`Protected`) survive every
interleaving (`StaysTrue`), also in a request that waits for connections to close
(`WaitingInv`): a database is taken away only by a tab that holds the queue, or by
the waiting request, and both are as justified as when they were made. The rest:
a connection is to a database that exists; one import is at work at a time, and
only while none was made; imports leave records in the catalogue, so that a second
import finds it not empty. The attempt to prove the first version of
`RetiresOnlyWhatIsKept` failed, and TLC showed why with a third tab: a retirement
by decision can also take away a database another tab has created again, empty,
after a third deleted the one in the file. The property says so now.
`EveryActionEnds` is a liveness property and stays with TLC.

### Schema upgrades

`DeviceTabsProofs`, from `UpgradeAssumption` and `DropsAssumption` (the chain of
versions is frozen: what is declared, rewritten and dropped at each) and
`MissingIsNothing`:

| Theorem | Statement |
|---|---|
| `EveryVersionIsWhole` | `[]DatabaseIsOfItsVersion` |
| `UpgradesLoseNothing` | `OpeningLosesNothing` |

`DatabaseIsOfItsVersion` is about what is committed and is not inductive. The
invariant `SchemaInv` adds the draft of a running upgrade, record by record
(`DraftInv`): what a cursor has still to rewrite is one version behind, the record
it has read waits with its rewritten value, cursors of one step are on different
stores, and the indexes are those stored or declared so far without those dropped;
and that a running upgrade has the database for itself (`AloneInv`).

### Local data

`LocalRecoveryProofs`, for any tabs, edits, retry limit, files, policies and
limits (at least one record in a store and two in all, schema 2 or 3):

| Theorem | Statement |
|---|---|
| `LocalDataIsWhole` | `[]LocalInv`, with the types |
| `NoEditForgotten` | `[]NoEditIsForgotten` |
| `KeptCanBeRestored` | `[]WhatIsKeptCanBeRestored` |
| `InstantsNameVersions` | an instant names one set of edits wherever it is kept |
| `StaleSavesAreRefused` | `OverwritesOnlyWhatItKnew` |
| `RestoresWhatWas` | `RestoresAStateThatWas` |
| `NewestPreRestoreStays` | `NewestPreRestoreIsKept` |

`NoEditIsForgotten` alone is not inductive; `Attended`, of each editor, adds that
what is shown and unsaved is what the buffer holds, that a write in flight leaves
the buffer alone, and that SAVED is shown only with nothing to write.
`KeptCanBeRestored` rests on two lemmas about the reader for any limits: reading
what was written restores the state (`ReadingRestores`) and every test of the
reader passes (`FilesAreAccepted`). `StaleSavesAreRefused` is the argument for
`staleWrite.ts`, which compares instants: an instant names one version of the
project in the database, in editors, in writes in flight, in snapshots and
restores, and an editor only adds edits to what it loaded. It holds because the
clock is read once per change and never reads the same value for two.

`RestoresWhatWas` needs, of the files, only what their assumption says (the readers
let a text through only as what this build writes of some state); its invariant
`SourceInv` says that everything kept, planned or about to be written is of a state
the device held or exported. `NewestPreRestoreStays` is about lists that are old when
they are acted on: by `RetentionInv`, every snapshot made before a restore that a
pruning tab listed is still there, or one as new is. Another tab may prune in
between, but by the policy it keeps the newest of those it sees, and the newest of
finitely many exists by a well-founded descent (`SmallestSubset`).

### Session and boot of the tabs

`DeviceTabsProofs`, for any tabs, people, companies, links and numbers of retries:

| Theorem | Statement |
|---|---|
| `TabsAreSound` | the invariant below, with the types |
| `SettledTabsAreRight` | `[]SettledTabsShowTheSession` |
| `RecheckNoticesOneChange` | `OneChangeIsNoticed` |
| `NobodyEntersElsewhere` | what is shown, offered and remembered are companies its user belonged to |

A settled tab is right because nothing wrong is silent: the invariant says that a
screen or a boot that is not of the session's person has an event waiting that
names another person than theirs (`Warned`), unless React is about to begin a new
boot anyway (`rerender`); and the same of a profile that is not its user's. A tab
hears of its own changes at once, so only other tabs' wait. The sign-in form is shown
to nobody, or to the one whose session the boot was refused for, and must be
warned, like any other screen, once somebody else has signed in (`RightFor`,
`ScreenKnows`). `CountsCrossings` ties the history variable `crossed` to what the boot has
read: with one change between two of its reads, the recheck's user is another than
the first. Two changes may cancel each other, which is why the theorem says one
(`OnePersonPerScreen` is "not so", section 3).

### Comparison of suppliers

`SupplierComparisonProofs`, for any currencies, rates, minor unit and precision, and
any projects that satisfy `ProjectsAssumption` (each is `WellFormed`, section 2):

| Theorem | Statement |
|---|---|
| `ComparisonGoesAsItShould` | `[]ComparisonInvariant`, below |
| `ComparisonIsTyped` | `[]ComparisonTypeOK` |
| `NoAssertionFails` | `[]NoEngineAssertion` |
| `SettledEffectsKeepSignAndSize` | `[]EffectsKeepSignAndSize` |
| `LeavingOutMovesOnlyTheTotal` | `[]LeavingACostOutMovesOnlyTheTotal` |
| `CostsInAnyOrder` | `[]CostOrderChangesNothing` |
| `RanksAreDense` | `[]RankingIsDense` |

`ComparisonInvariant` says that each supplier evaluated so far has the evaluation it
would have alone, and which variables go with which phase. The rest is about the
operators. The module first derives what the libraries do not give: what a fold over
a finite set or a sequence computes, that sums exist and are linear, and that a
strict order of a finite set arranges it in one way. On these stand, in the order of
the code:

* `DistributePlaces`: truncated shares and a leftover of whole minor units are handed
  out completely, in one pass when nothing limits them (each truncation lost less than
  a minor unit), and in as many passes as there are units when the lines have room for
  them all, because a pass that leaves something has placed something.
* `CalculatedFits`: the two pools are settled to totals whose difference is the
  settled landed total less the merchandise, and each entry ends on its own side. It
  also gives the bound of `EffectsKeepSignAndSize`: half a minor unit for the total of
  a pool, one for the residual the pool may take over, and one for the entry's own
  remainder.
* `AllPlaced`: discounts are put on last, and at each of them the room the lines still
  have covers it and those after it (`RestFits`), so that none fails for want of room
  and no line falls below zero.
* `EvaluationReordered`: every step of the evaluation turns with a permutation of the
  costs, because the pools and the settlement go by identifiers that differ and a sum
  by no order at all. It holds of every permutation; the property asks for one, the
  costs from the last to the first.
* `RanksCountBelow`: of amounts that do not fall, the rank that goes up at each new
  amount is one more than the number of different amounts below. With `RankedInOrder`
  (the order of the ranking) and `OthersExplained` (one insight for each supplier
  without a total) this gives `RankingIsDense`, whose invariant `RankedAndExplained`
  adds that a comparison that goes on has no supplier twice.

`EffectsKeepSignAndSize` was once stated with two minor units. The proof gave two and
a half, and TLC then found a project that exceeds two; the property now says what
holds.

### Limits

Assumed are only the named assumptions on constants, each checked by TLC in every
run of its module. Beyond the prover and left to TLC: liveness under fairness
(`EveryoneIsAnswered`, `EveryTabDecides`, `EveryReadEnds`, `EditsSettle`,
`EveryActionEnds`) and ENABLED. Every other property of the passing runs is stated
by a theorem. Induction over data is beyond the provers as a theorem of its own; where
the comparison needs it, the module derives it for sets (`Counting`, `Gathering`)
from the well-foundedness of the natural numbers.

## 5. What the models assume and leave open

What a reader of the code should know beside the properties.

*Cutover.* An enumeration of databases that fails reads as "there is none", and the
upgrade that follows is then without its snapshot (`unsure`). Three lists read
beside a committing import can show part of it and report CLOUD_NOT_EMPTY: safe,
and another try succeeds. A blocked upgrade that goes on later leaves a connection
nobody closes, and every later deletion of that database waits for its tab. A tab
of the old build is not modelled; one that writes between the snapshot and the
upgrade would not be in the snapshot.

*Schema upgrades.* `putRecord` and `deleteStore` are in no released migration and
are left out; the released steps rewrite no record, so the runner is checked for
chains that do, as its tests are. Errors of single requests have no handler and
surface as DATABASE_OPEN_FAILED. Two `rewriteStore` calls on one store in one step
would lose writes; no step has them, and the assumption says so. `CheckMeta`'s
branch for an inconsistent record cannot be reached. `bootstrapApplication` has no
caller but tests.

*Sessions.* A boot that Auth or the server refuses as of an expired session shows the
sign-in form, but nothing removes the stored session unless the refresh itself did:
another tab may go on, READY, with it, and this one comes back with the next sign-in,
another tab's SIGNED_IN event or a reload. `SettledTabsShowTheSession` therefore says of the sign-in form that
nobody, or that very person, is signed in, and not that nobody is.

*Catalogue records.* (a) "1.500", refused as ambiguous in Turkish, is left as typed
by a switch of the language and then reads as 1.5 in English. (b) `reloadRecord`
answers in the locale of the click. (c) A stale save of a customer whose status was
deactivated shows RECORD_INVALID, not STALE_WRITE. (d) The comment on
`external_ref` says "exactly as entered"; the form and the function trim it. (e)
Imported texts padded with blanks are changed by a form saved untouched, so the
proof of the migration no longer recognises them. (f) Forms have no maximal
lengths and no range of the sort order. Abstracted: the difference between
PostgreSQL's `lower` and JavaScript's, numbers that underflow, mixed padding,
unassigned code points.

*Organisation.* A section of more than `MAX_RECORDS` rows can never be exported (the
limit of 100 MB is not modelled). "Never a plausible partial one"
(`exportOrganization.ts:16-17`) fails if a membership or a session goes and returns
within one empty list's count and check (`gateway.ts:706`). Loads of the screen may
overlap and the older overwrite the newer; an invitation typed while another is
being sent is wiped by its success. In the export's scene an administration call is
one write that `OrganizationAuthority` justifies, a list is what `CompleteReads`
promises, and rows keep their first version.

*Local backup.* The writer checks neither the number of records nor the size that
the reader refuses (200,000 in a store, 100 MB), and allows an empty container one
level deeper than the reader does: beyond these limits a file is written that
cannot be restored.

*Write gate.* `assert_write_allowed` is a BEFORE ROW trigger: an UPDATE has locked
its row before the organisation's, contrary to the comment that says "organisation
row first". The restore that would take the other order does not exist at this
commit, so nothing can deadlock yet.

## 6. Plan

1. `changePassword`, which goes around the guard, with the profile's version it
   sends, beside `BootSession`.
2. The write gate with the restore of a company, once the code has one.

New runs join the present ones in larger compositions where they ask about the
same actors, so that the whole stays small enough to be run at every change.

## 7. What is not modelled

Screens, texts and styles (wording and layout); deployment scripts (pure
functions over files); rate limits, origin checks and e-mail text of the Edge
Function; the parsing of invitation links; manual snapshots; row security except
as the predicate of the modelled reads, and the write gate (section 5).
`PROJECT.json` lists every part with its status.
