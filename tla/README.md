# MessConnect in TLA+

MessConnect (the Cusat meal management system) runs a hostel mess: students opt
out of meals, show a QR pass when they eat, are fined for meals they chose and
missed, and pay a monthly bill that splits the mess's expenses over the days
everybody opted in. The backend is FastAPI on SQLAlchemy and PostgreSQL
(`src/backend`), the clients are a React PWA (`src/frontend`), and a nightly job
writes fines (`src/backend/scripts/run_fine_reconciliation.py`).

These modules model the part in which money and meals are decided - who is billed
for what, who pays it, and what may still change once a bill is out - and the
browser application through which people decide it: the sessions under its
requests, the shell around its screens, and the screens, each with its requests in
flight.

## 1. The system

### How it runs

Every HTTP request gets a database session of its own, and the transaction is
committed when the handler returns and rolled back when it raises
(`app/database.py:44-59`). PostgreSQL runs at READ COMMITTED, so every statement
of a request sees what others have committed in the meantime. What keeps requests
apart is explicit locks, and three of them matter:

| lock | taken by | mode |
| --- | --- | --- |
| month advisory lock (`billing_lock.py`) | selections, attendance, waivers, ledger | shared |
| | holidays, reconciliation, stock counts, preview, publish, unpublish | exclusive |
| `users` row `FOR UPDATE` | selections, scans, manual and bulk attendance, suspension | row |
| `billing_periods` / `payment_submissions` row `FOR UPDATE` | `submit_payment`, `review_payment` | row |

Almost everything that can go wrong on the server goes wrong between two statements
of two requests, so a request that checks at one statement and writes at a later one is
two actions in the models, with the locks it holds in between recorded in `tx`.

In the browser everything runs on one thread, and what can go wrong goes wrong
across an `await`: a handler reads the screen, sends a request, and writes the
screen when the answer lands, on whatever the screen has become. Answers come in
any order, late, or not at all (every request gives up after 15 seconds,
`api.ts:111`). So a handler with an `await` is two actions, one that sends and one
that runs on the answer, and what it captured in between is kept with its request in
`calls`.

### Components

| component | state | operations | talks to | hard behaviour | what makes it correct |
| --- | --- | --- | --- | --- | --- |
| Billing periods and invoices | `billing_periods`, `student_bill_snapshots`, the preview in an administrator's browser | preview, publish, unpublish, stock count | reads selections, holidays, fines, ledger; locks the month | data changing between review and publication; republication | invoices are what was reviewed and what the data gives, and never change |
| Payments | `payment_submissions` | submit, review | locks period and payment rows, opposite orders | deadlock, reopening under a payment, reuse of rejected rows | a payment is for the issued total; a reference is used once; verified is final |
| Bill calculation | none | `calculate_bills` | called by preview and publish | rounding twice, left-over cents | charges add up to expenses, each within a cent of the exact share |
| Meal selections | `meal_selections` | update one meal or a day | month and user locks, holidays, settings | two tabs, a cutoff that passes or is moved while in flight, holidays over cuts | limit and whole-day rule; choices final once their day is over |
| Holidays | `holidays`, `NO_SERVICE` rows | declare, delete | rewrites selections | stale deletes, overlap of day and meal closures | no closure without holiday; choices survive closures |
| QR passes and attendance | `attendance` | issue, verify, confirm, manual, bulk, reset | selections, holidays, account status | check and insert in different statements | scans are for meals chosen, open, by active students |
| Fines and reconciliation | `fines` | reconcile, waive | attendance, selections, month lock | a scan racing the job; a rerun after a waiver | fined are those without attendance who choose to eat; waived stays waived |
| Membership and account status | `users` | update membership, suspend, reinstate | decides cohort of bills and fines | changed without the month lock | a publication still issues what was reviewed |
| Authentication and sessions | `users`, `refresh_tokens`, the cookie all tabs share, an access token per tab | login, refresh, logout, suspend, set a password; the client's retries (`api.ts`) | under every request | concurrent 401s, lost answers, reloads, requests given up on that run later, two tabs on one cookie; the rollback of a revocation | a write runs once; the requests of a page do not exchange one cookie twice; a new password ends older sessions |
| Rate limiter | bucket rows | consume | every public route | concurrent upserts and expiry | never more than the limit per window |
| Operations | menu, ledger, stock, committee tables | void, adjust, promote, publish menu | the month lock for ledger | overlap checked without a lock | balance is the sum of movements; one assignment at a time |
| Settings, super administration | `app_settings`, administrators | update | read by selections and windows | change under running requests, saves given up on that run later | what is final stays final; "Saved" is true of what was saved |
| Student import | `users` | import a workbook | - | one of many rows bad | all or nothing |
| Notifications, audit log | append-only rows | - | written by the request that causes them | - | same transaction as their cause |
| Frontend shell | role, tab, forms, the profile being asked for | sign in, activate, reset, restore, open a tab | `localStorage`, `/users/me` | a profile that lands in a later login | a view of one's own role on every tab |
| Administrators' screens | per screen: what is chosen, what is shown, dialogs | search, edit, preview, publish, scan, save, void, review | their routers | answers out of order, dialogs changed meanwhile, lost answers | what is shown or sent belongs to what is chosen; success is said of what happened |
| A student's pass and bill | meal, code; month, bill | pick, renew; choose, report a payment | QR and billing routers | a guess after a choice; a bill after another month | the choice stays; the bill is of the month |
| Reports, dashboards, application shell, migrations, seeders, deployment | none of their own | - | - | - | - |

`PROJECT.json` lists the same components with their source files and status, and
under `hazards` every place at which one of the behaviours above bites.

## 2. Plan

1. **InvoiceBook, Billing** - done. The abstract promise to students, the
   handlers with their locks, and the proof that the second implements the first.
2. **BillShare** - done. The arithmetic that `Billing` takes as a constant.
3. **ChoiceBook, Meals** - done. Selections and holidays, and what they promise.
4. **DiningBook, Attendance** - done. Extends `Meals` with attendance and fines: the
   three components share the month lock, the user row lock and the sessions, and
   the interesting behaviours are between them.
5. **BillShareProofs, MealsProofs, AttendanceProofs** - done. Every safety property
   of the three modules that the runs check and that holds, `Attendance` as an
   implementation of `Meals`, and both as implementations of their books
   (section 5).
6. **Session** - done. One account in one browser against the rows that decide
   about it: refresh rotation, `session_version`, suspension, passwords, retries.
7. **Shell, Directory, BillDesk, StudentBill, Overview, Scanner, QrPass, Settings,
   MenuDesk, Ledger, Payments** - done. The frontend, one module per screen.
8. **Frontend** - done. All of them as one specification, checked in one run.
9. **ScreenProofs, FormProofs, SessionProofs, FrontendProofs** - done. An inductive
   invariant for every part, and every property of `Frontend` as a theorem.

Left out, with the reasons in section 6: the nightly job as a process, committee
assignments and inventory, the rate limiter, the student import.

Composition: `Attendance` extends `Meals`. `Billing` sees what both decide as the
lock-protected `input` of a month, and both see `Billing` as the flag
`published`; the lock protocol is the same text on both sides. `Frontend`
composes the parts of the browser application (section 3). It meets the server in
the answers to its requests only: `BillDesk` publishes what `Billing` then checks
again, `Scanner` confirms what `Attendance` then records.

## 3. The modules

### InvoiceBook

What billing promises, with every handler atomic: a month is open or published at
a revision; publishing adds at most one invoice per student under a fresh
revision; a payment is submitted for an issued invoice of the revision in force
and reviewed under it. There are no sessions, locks, previews or data.

### Billing

| state | code |
| --- | --- |
| `period`, `snapshots`, `payments` | tables of `models/billing.py` and `PaymentSubmission`, by their unique keys |
| `input` | everything of a month that is written under `lock_open_period` |
| `cohort` | students the bill counts (not PENDING, not OUTMESS) |
| `shown` | the preview kept by `BillingManagementView.tsx`, sent back with publish as `preview_token` |
| `tx` | the transaction of each session, with the locks it holds |

`calculate_bills` is the constant `InvoiceOf`: any function of figures, data and
cohort. A token is a SHA-256 of the preview; two tokens are equal exactly when
the previews are. `PublishRecheck` is `publish` up to the comparison of tokens,
`PublishCommit` its writes; `UnpublishCheck`/`UnpublishCommit`,
`SubmitLock`/`SubmitCommit`/`SubmitRefuse`, `ReviewLock`/`ReviewCommit`/
`ReviewRefuse` are split at the point where the handler waits for its second
lock or does its write. `EditLock`/`EditCommit` stands for every writer of billing
inputs, in the mode of the advisory lock it takes. `Rollback` is a request that
fails or whose client leaves; `DeadlockCancel` is PostgreSQL's deadlock detector.

### BillShare

`calculate_bills`, with the rate as a whole number of 1/`Scale` cents rounded half
to even, as `Decimal` does at 28 digits. `PrecisionAssumption` keeps the proportion
that matters: precision well beyond the square of the student-days. Fines are
added per student afterwards and are not modelled as amounts.

### ChoiceBook

What meal planning promises for a month, with every handler atomic: an order of a
student for a day is admitted before the cutoff, wherever it is set, and takes
effect whole or not at all, after which the served meals of the day are all wanted or all skipped and a
new cut is within the limit; closing and opening the mess moves no choice and
waits for the orders under way; moving the cutoff reopens no day that is over; a
bill is published when all days are; a published month stands still. There are no
rows, remembered statuses, sessions or locks.

### Meals

`selections` are the rows of `meal_selections`, with `before` for
`status_before_holiday`; a missing row is the default, as in
`get_or_create_selection`. `SelectCheck`/`SelectWrite` is `update_meal_selection`
for one meal or the whole day, `DeclareCheck`/`DeclareWrite` is `declare_holiday`,
`DeleteRead`/`DeleteCommit` is `delete_holiday`, which reads the holiday before it
takes the lock.

`locked` are the dates for which `is_selection_locked` is true at the moment, and
`past` those that are over. The function reads the cutoff from `app_settings` at
every request, and an administrator changes it at any time, without the month lock
(`admin.py:795`): `UpdateCutoff` locks or unlocks any dates at once. The one thing no
setting can do is to unlock a date that is over, because a cutoff lies on its date
or up to seven days before (`settings_validation.py:95`, `get_cutoff_datetime`). So a
choice is final when its day is over (`ChoiceFinalOnceOver`), and not, whatever
`LegalView.tsx:189` says, when its cutoff has passed. The dates have no order in the
model: any may pass its cutoff, begin or end before any other.

Both locking modes
of the month and the `users` row locks are fields of a request, so that a module
that extends this one adds requests without touching these. `BookChoice`,
`BookClosed` and `BookOrders` are what the rows, holidays and requests stand for in
`ChoiceBook`: a row under a holiday stands for the choice it remembers, an update
under way for an order.

### DiningBook

Extends `ChoiceBook` with what is promised at the table: each way to record
attendance, a reset, a fine and a waiver is one step with one guard. A scan and a
fine are for a *settled* meal, one that the student is to eat and that no order under
way can change, which is open and whose day has begun; a fine is for one without
attendance; nothing recorded is written over. The guards say what must be true
when the row is written, whereas the code looks at it some statements earlier. They
say nothing of the cutoff or the hours of a window, which are where the
administrators last put them.

### Attendance

Adds account status, attendance and fines. `ConfirmCheck`, `ManualCheck` and
`BulkCheck` are the checks of the three ways to record attendance and
`AttendanceWrite` their insert; `ResetRead`/`ResetDelete` is `reset_attendance`;
`ReconcileCheck`/`ReconcileWrite` is `reconcile_missed_meals` by the job (all meals)
or by an administrator (some); `WaiveFine` re-reads the fine under its locks and
is one step.

*Windows.* A serving window lies within its date, and its hours are settings that
change without a lock and without regard to the cutoff: with no advance days it may
begin, and end, before the cutoff; moved, it may be open again after a
reconciliation. `WindowMayBe` says where a request may find it: before it on a day to
come, over on one that has ended, anything in between (`begun` and `past`). Every
theorem about attendance and fines is therefore about any setting and any change of
it.

*Passes* are no state. `generate_qr_token` and `verify_qr_token` write nothing, and
`confirm_attendance` checks again, under its locks, everything they have checked; so
whoever is eligible may be holding a pass, and who is not gets nothing by one. That a
signature cannot be forged is taken for granted.

*Who is billable.* Membership decides who may be fined and changes without any of
these locks, so a reconciliation is given any set of students.

*What follows from moving settings.* A student already scanned or fined for a meal
can still skip it, when the cutoff lies after the window or is moved there; a student
already fined can still be scanned, when the window is prolonged. The code permits
both. So the properties speak of the moment a row is written: a fine or a scan is
recorded when the choice is to eat and no update is under way (`FinedChoseToEat`,
`ScannedChoseToEat`), and a fine when there is no attendance and no scan under way
(`AbsentWhenFined`).

*Simplified.* The rows of a batch are locked in one step, the window check of the
reconciliation and its lock are one step (an end that has been seen is not unseen),
`ALLOW_TEST_MODE`, which ignores windows, is off, and the monthly limit `MaxCuts` is a
constant, although `max_monthly_mess_cuts` is a setting too: an update admitted under
a higher limit is committed under it.

### Frontend

The parts share three variables: `ui` is what a part shows or keeps, `calls` its
requests in flight, `srv` as much of the server as it meets. `part` says which part
a behaviour is about and never changes. A screen is mounted when it is opened and
keeps nothing when it is left, and screens talk to the server and not to each
other; so a behaviour of the application, as far as one screen can tell, is a
behaviour of that screen from its initial states. What does outlive a screen is in
`Shell` (the tab, the role, what `localStorage` holds) and `Session` (tokens).

| module | code | what it keeps |
| --- | --- | --- |
| `Session` | `api.ts`, `auth_service.py`, `dependencies.py` | per tab an access token; the jar; refreshes and requests in flight; `session_version`, the live refresh tokens and what became of the others |
| `Shell` | `App.tsx`, `LoginModal.tsx`, `navigation.ts` and the bars | role, tab, whose profile is awaited, the form and its mode |
| `Directory` | `StudentDirectoryView.tsx` | search, list, the dialog on a student |
| `BillDesk` | `BillingManagementView.tsx` | month, figures, status, preview, bills |
| `StudentBill` | `StudentBillView.tsx` | month, its bill, the report of a payment |
| `Overview` | `AdminOverviewView.tsx`, `DashboardSummary.tsx` | figures, history window, the students behind a figure |
| `Scanner` | `AdminScannerView.tsx` | log, camera, manual form; the check-ins recorded |
| `QrPass` | `StudentQrView.tsx`, `mealWindows.ts` | meal, whether it was picked, the code; the clock |
| `Settings` | `SettingsView.tsx`, `super_admin_service.py` | stored, typed and changed values; the server's, and who wrote them |
| `MenuDesk` | `WeeklyMenuView.tsx`, `MessClosurePanel.tsx` | week, day, editor; the menus published |
| `Ledger` | `LedgerView.tsx` | month, kind, the form and the void dialog |
| `Payments` | `PaymentsView.tsx` | list, filter, the review dialog |

In `Session` a *pair* is the access and the refresh token one login or rotation
issues. `RotateRefresh` and `RefuseRefresh` are `refresh_tokens` in full, its
rollback included: a token marked before the account turns out to be suspended is
live again. A request is `first`, perhaps `waiting` for `restoreSession`, `second`,
and `ran` once the server has executed it; `Settles` is whatever ends it, an answer
or the timeout. `RefreshLost` is a refresh the page gives up on after 15 seconds, and
`Reload` throws away the page with everything it waits for. In both cases the request
itself is not taken back: one the server has not executed yet goes *astray* (`Stray`)
and may be executed later, while the page sends the same cookie again
(`StrayRefresh`), and so may a logout nobody heard of (`StrayLogout`); whether the
browser stores the cookie of an answer nobody waits for is open (`Jars`). `fate` and
`login` are history: what became of each refresh token, and under which
`session_version` a session began. `Execute` belongs to requests a page still waits
for; a write it gave up on is executed at most once for the same reason, and no other
property of `Session` is about writes.

Suspending bumps `session_version`, which ends access tokens, and revokes no refresh
token, so after a reinstatement an older session can refresh itself again. The model
has it so and no property says otherwise; the docstring of the handler
(`operations.py:315`) suggests that it should not.

In `Settings` a save that is given up on is `late` and may be executed at any later
time, also after another save was answered (`LateSaveTaken`); `from` remembers of
each value on the server whether it was written by a save that was answered, by one
that was not, or by another administrator.

Two screens keep less than one might think. In `Directory` an edit reloads the list
with the query its handler closed over (`StudentDirectoryView.tsx:192`, `:210`), so the
request sent last may be for an older search than the one in the field; the list is
that request's. In `BillDesk` a new month clears the status, the preview and the bills
and leaves the figures, so those of the last month stand under the new heading while
it loads, and after a load that failed (`BillingManagementView.tsx:67-80`,
`:634-639`); `ShownBelongsToChoice` leaves them out, and no publication takes them,
since there is no preview then (`PublishesWhatIsShown`).

Where a screen does not compare an answer with what it has become (a code that
lands under another meal, entries of another month) the model does not either; see
`LedgerView.tsx:93` among the hazards.

### MC modules

`MCBilling`, `MCMeals`, `MCAttendance`, `MCBillShare` and `MCFrontend` hold the symmetry sets and
the values a `.cfg` cannot express. Symmetry is used over sessions, students,
dates and references, and over requests and tabs of the frontend, where only safety
is checked and no action or property names one of them.

## 4. The runs

| run | instance | shows |
| --- | --- | --- |
| `billing` | 2 students, 1 month, 2 references, 2 values of data, 2 revisions, 2 sessions | invoices, payments and refinement of `InvoiceBook` |
| `billing_requests_finish` | as above, 1 reference, 1 revision, 3 sessions, fairness | every request ends |
| `bill_share` | 3 students, 4 days, 2 meals, 8 figures, 5 plans, 3 closures | the split against the exact shares |
| `meals` | 1 student, 2 dates, 3 meals, 2 holidays, 2 sessions, limit 1 | choices, closures, limit, a cutoff that is moved, and refinement of `ChoiceBook` |
| `attendance` | 2 students, 1 sitting, 1 holiday, 2 sessions | scans, fines and waivers against each other, wherever cutoff and window are, and refinement of `DiningBook` |
| `frontend` | every part with 2 requests in flight (3 on the dashboard) and 2 of each thing that can be taken for another; 2 tabs, 2 token pairs, 1 change of `session_version` | what the screens and the sessions under them promise, in nearly two million states |

Two sessions are enough for the races named in `hazards`, all of which are between
two requests; the deadlock run has a third, so that somebody else can wait on the
two that wait for each other. Two revisions are needed for anything that survives a
republication. Two holidays suffice for a stale deletion (delete, delete, declare
in between) and for two single-meal closures over a cut day; three meals are needed
for a day to be partly cut. One sitting suffices for attendance, as no rule relates
two sittings except the monthly limit, which `meals` checks with two dates.
`MaxRevision` and `HolidayId` are the only bounds on what may happen, and both are
guards of one action.

In `frontend` two requests are what it takes for answers to overtake each other, and
two of everything that is chosen for an answer to belong to the wrong one; the
dashboard has three, as its figures, history and drill-down are asked for at once.
Two pairs make one rotation, and two tabs one rotation racing another on the same
cookie; one new `session_version` separates sessions begun before and after it. A
day has seven hours, so that there is one before, between, in and after the serving
windows of two meals. `CallId`, `MaxPair` and `MaxVersion` bound what may happen;
the proofs (section 5) hold for any of them.

### What `frontend` shows

| property | what it rules out |
| --- | --- |
| `ExecutedAtMostOnce` | a write that the client sent again had already run: only a 401, which precedes the handler, is retried, and an answer that never came is not |
| `RefusedOnlyForCause` | a page is refused because of a refresh it was itself waiting for or had an answer to: the requests of a page share one exchange of the cookie. A refresh it gave up on, by a reload or after 15 seconds, is not ruled out: it may still run and take the cookie the page sends again |
| `ResetEndsSessions` | a session begun before a password was set goes on, through a refresh in flight, a stale token in a tab, or a suspended account reinstated |
| `NeverBlank` | someone signed in, with no profile awaited, is on a tab that shows nothing for their role |
| `ListIsTheLatest` | the directory lists the answer to any but the list request sent last (which may be an edit's, for an older search; section 3) |
| `PublishesWhatIsShown` | a bill is published with figures or a month other than those previewed |
| `ShownBelongsToChoice` | the status, preview and bills of the billing screen (not its figures; section 3), a student's bill or the history rows are of a month or window chosen earlier |
| `SuccessMeansRecorded` | the scanner lists a check-in that was never recorded on the server (a later reset of it is not among the steps) |
| `ChosenMealStays` | the serving windows, landing late, replace the meal the student picked |
| `SavedMeansStored` | the form says "Saved" and shows what the server does not hold, although nobody else and no save given up on wrote it since; or any save, however late, overwrites a setting nobody typed into |
| `DraftOnItsDay` | a meal typed for one day is published to another |
| `ReasonBelongsToItsRow` | an entry is voided, or a payment rejected, with the reason typed for another |

Every one of them has a mutant in `PROJECT.json`, a plausible slip in the handler it
rests on, that the run refutes.

### Where the code disagrees with what it says

Each of these runs has one property, a sentence of the repository, that the code
does not keep.

| run | the sentence | what happens |
| --- | --- | --- |
| `billing_reopen` | "Resolve pending payments before reopening." (`billing_service.py:192`) | `unpublish` looks for payments without locking the period row; a payment submitted before its write is pending for a revision that is reopened, and review refuses it for good. |
| `meals_stale_delete` | "Declare a holiday and cascade NO_SERVICE to meal selections." (`holiday_service.py:26`) | a second deletion of a holiday already deleted puts back the selections of the holiday declared after it. |
| `meals_cut_limit` | "How many full-day mess cuts a student may take in one calendar month." (`meal_timing_service.py:64`) | a cut day under a holiday is not counted, and counts again when the holiday goes. |
| `meals_whole_day` | "only 0 or 3 are reachable states." (`meal_service.py:99`) | with two meals of a cut day closed one by one, the third may be confirmed; reopening leaves two skipped. |
| `bill_share_ties` | "Registration/UUID order breaks ties." (`billing_calculator.py:69`) | remainders are computed from a rate that is already rounded: with 0.02 over 4, 1 and 1 days all three exact remainders are a third of a cent, but the left-over cent goes to the second student and not the first. |
| `attendance_reset` | "Read the rows before deleting so the audit entry records what was actually removed." (`admin.py:645`) | a scan committed between the read and the delete is removed and not recorded. |

The code disagrees with the repository in further places, which are modelled as the
code has them and have no run of their own:

- "revert NO_SERVICE selections back to CONFIRMED" (`holiday_service.py:77`; so also
  `:66` and `admin.py:877`): a deletion restores the remembered choice, which may be
  `SKIPPED`. `HolidaysKeepChoices` is the property of the code; the mutant that breaks
  it, `RevertedToConfirmed`, is what the docstrings say.
- "After the cutoff the day is fixed" (`LegalView.tsx:189`): not while an
  administrator can move the cutoff. `ChoiceFinalOnceOver` is what is kept.
- "refused when refreshing (which also revokes the refresh token)" and the
  reinstated student who would "silently resume an old session"
  (`operations.py:305`, `:315`): the mark is rolled back with the refused request, and
  the refresh tokens of a suspended account stay alive, so it does resume.
- "each code is signed and single-use" (`StudentQrView.tsx:378`): a pass is refused
  while its attendance row stands (`qr_service.py:168`), and once that row is reset it
  is good again until it expires.

Correspondingly, the properties that hold are stated about what the code does
keep: `CutsTakenWithinLimit` says that *taking* a cut respects the limit, and
`NoServiceMeansHoliday` is the direction of the cascade that no order of requests
breaks.

### Fairness

Only `billing_requests_finish` assumes any; in the browser nothing need ever be
answered. A session waiting for a lock is in
PostgreSQL's queue and gets it after finitely many holders, but others may take
and release it in between, so the end of a request is strongly fair. The deadlock
detector runs after `deadlock_timeout` for as long as a cycle exists, which is weak
fairness. Nothing is assumed about clients: no request need ever begin.
`SubmitRefuseUtrOnly`, a refusal that forgets the second submission, shows that the
property is not a gift of the fairness.

Deadlock is checked everywhere except in `BillShare`, which ends after one
calculation.

## 5. What is proved

Every safety property that a passing run checks, of `Billing`, `BillShare`, `Meals`,
`Attendance` and `Frontend`, is also a theorem, for every value of the constants; so
are the three refinements of `InvoiceBook`, `ChoiceBook` and `DiningBook`. No run
checks `FrozenWhilePublished` and `FinesFrozenWhilePublished`: the books say as much
of choices, closures and fines, and `PublishedMonthIsFrozen` and
`PublishedFinesAreFrozen` prove both, of the rows themselves.

### BillingProofs

`BillingProofs` proves, for any number of students, months, references, sessions and
revisions, and any function `InvoiceOf` into the natural numbers:

- `TypeCorrect`, `PaymentsAreForInvoices`, `UtrsAreUnique`, `PublishedDataIsFrozen`
  (invariants);
- `PublishesWhatWasReviewed`, `InvoicesAreImmutable`, `VerifiedPaymentsAreFinal`
  (action properties);
- `RefinesInvoiceBook`: `Spec => Book!Spec`, initial state and every step.

Assumed are only `BoundAssumption` (`MaxRevision` is a natural number) and
`InvoiceAssumption` (the type of `InvoiceOf`), both evaluated by TLC.

None of the invariants is inductive alone. "The invoices in force are what the
data gives" survives a publication only because the data a publication read is
still there when it writes, and that holds because nobody else holds the month's
lock. `IInv` therefore adds

- `LockInv`: two sessions hold no conflicting locks;
- `RequestInv`: what each request checked before it paused still holds - a quote
  is the recomputation of the stored data and equals the token, a submission's
  period is published at the revision it read and its invoice exists, a payment
  under review is still pending;
- `SnapshotsBounded`: no invoice has a revision the month has not reached, so
  that a new revision starts with no invoices.

`TypeStep`, `LockStep` and `RequestStep` show these with one step per action.
`PublishEffect`, `SubmitEffect`, `ReviewEffect`, `UnpublishEffect` and `EditEffect`
then restate each commit without sessions, and the facts about invoices and
payments, as well as the refinement, use these only.

### BillShareProofs

For any number of students, days and meals, any join days, plans, closures and
expenses: `TypeCorrect`, `ExpensesAreCovered`, `ChargesAreExact` and `CutsNeverCost`.
Assumed are `SizeAssumption` (natural numbers), `PrecisionAssumption` (above),
`JoinDayAssumption` (one enrolls on a day of the month) and `ExpenseAssumption`
(expenses are not negative), all evaluated by TLC.

The calculation is one step, so the invariant is easy (`ShareInv`: the charges are
none or what `Charge` gives) and the work is in the arithmetic:

- *Sums.* The library defines a sum by a choice and a fold. `SumEquations` gives the
  two equations that matter, by induction over subsets in the form of a smallest
  counterexample, and `SumAdd`, `SumScaled`, `SumMonotone`, `SumCounts`, `SumAtLeast`
  and `SumAtMost` follow.
- *Left-over cents.* The rounded rate is off by at most half a digit
  (`RateRounded`), which over all student-days is less than a cent
  (`PrecisionAssumption`, `MonthIsSmall`). So there are between none and `N` cents
  left (`CentsLeftBounded`): the slice of the code never counts from the back.
- *Who gets them.* `Precedes` is a linear order, so ranks are exactly `0..N-1`
  (`RanksOrdered`, `RanksCount`), and exactly as many students get a cent as there
  are cents. That is `ExpensesAreCovered`.
- *The exact share.* Rounding the rate may move a remainder across a whole cent. Then
  either the remainder is nearly a cent, and its student gets one (`AlmostACent`), or
  nearly nothing, and gets none (`AlmostNothing`); so no charge is a cent off
  (`ErrorBounded`).
- *Fewer days.* With fewer days the share is smaller; if the whole cents are equal,
  so is the order of remainders, and the cent goes to the other first
  (`FewerDaysNotMore`).

### MealsProofs

For any students, dates, meals, holidays and sessions and any monthly limit:
`TypeCorrect`, `HolidaysAreDisjoint`, `NoServiceIsHoliday` (invariants),
`PublishedMonthIsFrozen`, `ChoicesAreKept`, `ChoicesBecomeFinal` and
`CutsRespectLimit` (action properties). Assumed are `MaxCutsAssumption` (a natural
number) and `DateAssumption` (the dates of a month are finitely many, so that cuts
can be counted).

The invariant `IInv` adds to the properties

- `LockInv`: conflicting month locks or users row locks are never held together;
- `RequestInv`: an update under way holds its student's row and the shared month
  lock, the month is open, its meals are not closed, and its projected day still
  passes the whole-day rule and the limit; a declaration holds the exclusive lock
  and its scope is still free of holidays. A deletion has checked nothing, so
  `DeleteEffect` is about whatever rows match its holiday when it commits;
- `RowsRemember`: a row that says `NO_SERVICE` has a status to go back to.

`SelectEffect`, `DeclareEffect` and `DeleteEffect` restate the three commits under
the invariant, and everything about rows follows from these. `ChoicesBecomeFinal`
additionally needs `ChoosingStep`: no new update is admitted for a date that is over,
since `past \subseteq locked` whatever is done to the cutoff. `CutsRespectLimit` compares the count a request projected with the count
after its write, across whatever other tabs and closures did in between.

`RefinesChoiceBook` is `Spec => ImplementsChoiceBook`. The check of an update is
`Admit`, its write `Carry`, its rollback `Withdraw`; a declaration and a deletion take
effect at their commit and are nothing before, and a deletion whose holiday was
already deleted is nothing at all, whatever rows it rewrites, because the choices
they remember stay (`HolidaysKeepChoices`). That `Carry` admits only what leaves a
whole day and respects the limit is `RequestInv` and `CutStep`; that no order is
under way when the mess is closed, opened or the bill published is `LockInv`.

### AttendanceProofs

`ImplementsMeals` maps a session that serves attendance to an idle one (`MealsTx`)
and shows that every step of `Attendance` is a step of `Meals` or leaves it alone.
Hiding requests hides locks as well, and fewer locks only admit more, which is why
the mapped step is still allowed (`FewerLocks`). All of `MealsProofs` is thereby
available, `INSTANCE`d as `M`.

`DInv` is the inductive invariant of `Attendance`: `M!IInv`, the types, the locks
(now between requests of both modules), and

- `RequestsHold`: what each request checked is still so when it writes. The month is
  open and nobody it records is recorded; whoever is recorded is active, with the row
  held; a scan, a manual entry and a reconciliation are for meals that are not
  closed; a scan, a bulk entry and a reconciliation for a day that has begun; a scan
  and a reconciliation for settled meals; a reconciliation for meals without a fine.

A meal is settled for a student when the choice is to eat and no update of the day
is in flight. Where the cutoff and the windows are set, or when they are moved, does
not occur in the invariant: a meal stays settled for as long as a request needs it to
because that request holds the student's row or the month exclusively, and an update
needs that row and a share of the month (`SettledKept`, from `ChoiceStep` of
`MealsProofs`).
That it holds when a scan or a reconciliation checks is for the same reason
(`RowFreeNotChoosing`, `LockFreeNotChoosing`), and a reconciliation finds no scan
under way because no shared lock is held beside its own.

From this follow `FinedAreAbsent`, `FinedChoseMeal`, `ScannedChoseMeal`,
`AttendanceWhileOpen`, `WaiversLast` and `PublishedFinesAreFrozen`.

`RefinesDiningBook` is `DiningSpec => ImplementsDiningBook`. A request of attendance
or fines is nothing until it writes, and its write is one step of the book: the guard
of that step is `RequestsHold` (`RecordStep`, `FineStep`), which is why the invariant
has to keep more than the other theorems need. `TakeAway` has no guard, as a reset
looks at nothing (`attendance_reset`). Steps on choices and closures are those of
`ChoiceBook`, by `RefinesChoiceBook` and `ImplementsMeals` together
(`DiningKeepsChoiceBook`); attendance leaves the book of choices alone
(`BookUnchanged`).

### ScreenProofs, FormProofs, SessionProofs, FrontendProofs

Each part has an inductive invariant, three facts about it (it holds initially,
every step of the part keeps it, the part's properties follow), and a lemma that
restates its typing with names for its sets. `FrontendInv` is the invariant of the
part a behaviour is about; `FrontendInvariance` is `Spec => []FrontendInv`, and the
thirteen theorems of `FrontendProofs` follow from it.

The properties are about what a screen shows, and an answer that lands makes them
true or false. Most invariants therefore tie the requests in flight to the screen:

- `Directory`: exactly the request marked as the latest carries the query on the
  screen, so only its answer is listed. `StudentBill`, `Overview`: an answer that
  will not be dropped is for the month or window chosen.
- `BillDesk`: the one call in flight, the status and the preview are of the month on
  the screen, and the preview is of the figures in the fields.
- `MenuDesk`: an open editor is on the day shown, and a save goes to the day it was
  typed for. `Ledger`, `Payments`: a reason is that of the open dialog, and a request
  carries the reason of its row.
- `Scanner`: a request that was answered well is recorded. `Settings`: until a save
  is answered, a value that came from here is the one the save carries; afterwards
  it is the one held as stored; a setting nobody typed into is in no save, late ones
  included (`LateIsTyped`).
- `Shell` and `QrPass`: the property is inductive with the typing.

`SessionProofs` is the long one. `RefusedOnlyForCause` says that no dead refresh was
of a cookie its own page exchanged by a request it waits for or heard the answer of,
and to keep that, `Books` accounts for each pair:

- a page has one refresh in flight, and a refresh has a pair exactly when it was
  exchanged;
- numbers not yet issued are good, and nothing carries one, stray requests included;
- a pair whose answer has not landed is in no cookie, no stray request carries it and
  nobody exchanged it;
- a token in the jar that a page exchanged is one whose answer is still to land
  there - so a page that asks for a refresh, having none in flight, never sends a
  cookie it has exchanged.

A refresh that is given up on leaves these books: `Unheard` gives the cookie of one
that was executed the fate `"lost"`, and lets one that was not go astray, to do the
same later (`StrayRefreshStep`). The page that sends that cookie again may be refused,
and the property does not say otherwise. `Versions` does the same for
`ResetEndsSessions`: every pair in a tab or in an answer is of an older version, or of
a session begun since the last password, and every live one is of the latter kind; a
stray refresh cannot bring back a session that a password ended, because it needs a
live cookie. `RestoreSessionKeeps`, `UnheardKeeps` and `EndingKeeps` are about the
operators the actions are built from, so that each action is a few lines.

Assumed are `BoundsAssumption` (`MaxPair` is positive, `MaxVersion` a natural number)
and `TabAssumption` (a tab is not one of the words `fate` uses), both evaluated by
TLC.

Model-checked and not proved: liveness (`RequestsFinish`), which is beyond the prover.

## 6. What is not modelled

- **Login lockout, setup codes, the rate limiter.** What a client meets is a refusal,
  which `Session` and `Shell` have. The limiter itself is one upsert in a
  transaction of its own.
- **The nightly job as a process.** What it writes is `ReconcileCheck` and
  `ReconcileWrite` in `Attendance`; that it runs before a month is published, the
  purge of old tokens and the audit row of a run are left out.
- **Committee assignments, inventory, the administration of accounts, the student
  import.** Each request checks and writes in one transaction of its own rows, and no
  modelled component reads them but for the role and the status of an account.
- **Home, calendar, alerts and profile screens.** They load once, and every button
  waits for its own request; what a whole-day cut does is in `Meals`.
- **Reports** only read. The **audit log and notifications** are rows written in the
  transaction of their cause and are looked at in one place, the entry of
  `reset_attendance`.
- The amounts of fines are not modelled, nor the identity and expiry of a pass
  (section 3, Attendance), nor the order of dates, nor a change of
  `max_monthly_mess_cuts` while the system runs.
- Rendering, static files, migrations, seeders and deployment keep no state of the
  running system.
