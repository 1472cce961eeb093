# Givernance: TLA+ models, model checking and proofs

Givernance is a multi-tenant CRM for non-profits: a Fastify API, a BullMQ
worker, a small relay process, PostgreSQL and Redis. What makes it hard is not
the CRUD but the paths along which one committed mutation turns into work in
another process, and the external parties (Stripe, Keycloak, browsers that
retry) that call in at any moment, in any order and more than once. This
directory models those paths, checks them with TLC and proves the main results
with TLAPS.

## 1. Inventory

| component | state | operations | what is hard | what makes it correct |
|---|---|---|---|---|
| outbox + relay (`packages/relay`, `outbox_events`) | row status, each replica's batch | insert in a business transaction; poll, enqueue, mark | several replicas, crash between enqueue and mark, error after Redis stored the job, shutdown in mid-tick | no row completed without a job; nothing enqueued that was not committed; one job at a time, and redelivery only outside the deduplication window; every event settles |
| events queue + worker dispatch (`worker.ts`) | BullMQ job states, retention, child queues, notifications | take, fan out, route, ack, retry, stall | at-least-once handlers, runs that outlive their lock, eviction ends deduplication | an effect only by a hand-out, and as many of these as attempts and one forgiven stall allow |
| Stripe webhooks (`payments/routes.ts`, `stripe-webhook.ts`) | `webhook_events`, job, donation, payment attempt, constituents, campaign fee total, outbox | receive, enqueue, run a handler | duplicates, any order, overlapping runs, stalls, one attempt per job | booked once, tables agree, fees rolled back once, final outcomes stay final |
| refund/delete of donations (`donations/service.ts`) | donation status | three-phase refund, delete | races the webhook of its own refund | refund announced, fee total right |
| Idempotency-Key plugin (`plugins/idempotency.ts`) | one Redis cell per key | claim, replay, 409, cache or delete | overlapping retries, crash after commit, a failing `onSend`, role check | mutation once, and once more only for a 409, an error or a crash each; a success stands for a mutation |
| branding + Keycloak sync | asset rows, tenant pointer, S3 objects, KC attribute | upload, process, activate, remove, gc, sweep, sync | four queue hops, unlocked reads of the pointer, commits mistaken for failures, kept job ids | the pointer shows a ready logo nobody removed; the sweep spares it and reaps the rest; Keycloak ends up showing it |
| provisional admin + disputes | user flags, dispute row | open, resolve x3, expire | reads outside the transaction that writes, overlapping calls and nightly passes | one first admin, replaced at most once and only by an open dispute; one confirmation |
| option merge, undo, purge, erasure | options with merge marks, JSONB values, undo store | mark, rewrite chunk by chunk, undo, purge, erase | edits without a lock, retries after an undo, a second pod, erasure in between, stale catalogue | an undo and an erasure are final; records read as the options in force say; every job ends |
| bulk e-mail | job rows with outcome arrays, emails queue | dispatch, send, record, finish, resume | crash between send and record, a "stalled" run that is alive, a row resumed twice, lost jobs | nobody mailed twice or dropped silently; completed means everybody reached; every row comes to rest |
| bulk import | import rows, cursor | batches in transactions | resumption | no batch twice or skipped |
| receipts + key rotation | sequence row, receipts row, S3 object, keyring, sweep cursor | allocate, upload, insert; re-wrap, retire | upload inside the transaction, reused numbers, stalls, rows behind the cursor | gapless numbers; the object is the row's own; one receipt per donation; no key retired that a row needs |
| signup, invitations, tenants | tokens, tenant status, KC user | sign up, verify, resend, accept, clean up | partial failure against Keycloak, token reuse | one tenant per verification |
| impersonation, sessions, flags | PG rows + Redis mirrors, caches | start, end, revoke, cached reads | stale caches, Redis outage | revoked means refused |
| surveys, reports, postal export, digest | batch rows | scheduled batches | little sharing | - |
| CRUD modules, web, migrate, shared | tables, UI | single transactions | - | - |

Components meet in three ways only: a row in `outbox_events` written in the
transaction of the mutation, a job in a BullMQ queue, and shared tables. The
models compose along the same lines.

## 2. Plan

Most important behaviour first:

1. `EventDelivery` (abstract), `JobQueue`, `OutboxRelay`: the backbone. Done,
   with refinement proved.
2. `PaymentAccounts` (abstract), `StripePayments`: the money. Done, safety and
   refinement proved.
3. `Idempotency`: retries of clients. Done, safety proved.
4. `Disputes` (provisional admin): done, safety proved, and it refines `Office`
   (abstract). `Branding` (upload to
   Keycloak): done, safety proved.
5. `BulkEmail`, `OptionMerge` with erasure, `Receipts` with the key rotation:
   done, their safety invariants are proved, and `Receipts` refines `ReceiptBook`
   (abstract).
6. Open: bulk import, onboarding (signup, invitations), impersonation and
   session revocation.

Abstract specifications still worth stating: a tenant's logo as a register that
uploads and removals write, and a job runner with recorded outcomes that the
bulk jobs implement.

How the modules meet: `OutboxRelay` shows that the path from a committed event
to a job implements `EventDelivery`. `Branding`, `BulkEmail`, `OptionMerge` and
`Receipts` use what it promises, one action that turns an event into a job
with a given id, and `JobQueue` for the queue behind it; in `OptionMerge` the job
is queued in the step that asks for it, as every merge and undo has an event and
a job id of its own and a later hand-over only delays it.

## 3. Modules

| module | role | code |
|---|---|---|
| `EventDelivery` | abstract promise of the outbox: jobs only for published rows and one at a time, completed rows only with a job, effects only by hand-outs, and these bounded | - |
| `JobQueue` | BullMQ as used here (external): ids, states, `add` ignored while the id exists | - |
| `OutboxRelay` | table, replicas, events queue, worker dispatch | `relay.ts`, `relay/src/index.ts`, `worker.ts`, `notifications-fanout.ts` |
| `PaymentAccounts` | abstract promise of the payments: each booking, refund and deletion is one step of the accounts | - |
| `StripePayments` | endpoint, webhook processor, refund and delete | `payments/routes.ts`, `stripe-webhook.ts`, `donations/service.ts` |
| `Idempotency` | plugin around one key | `idempotency.ts` |
| `Office` | abstract promise of the grace period: the office passes once, by a pending complaint | - |
| `Disputes` | the founder's provisional window: disputes, resolutions, nightly expiry | `disputes/service.ts`, `tenant-lifecycle.ts` |
| `Branding` | one tenant's logo from upload to Keycloak and to the sweep | `branding/service.ts`, `branding/routes.ts`, `branding-*.ts`, `keycloak-sync-org-logo.ts`, `worker.ts` |
| `BulkEmail` | a mailing and its resumes | `bulk-email-service.ts`, `send-bulk-email.ts` |
| `OptionMerge` | one picklist definition: merges, undos, purge, edits, erasure | `customization/service.ts`, `custom-field-*.ts`, `gdpr-erasure.ts`, `constituents/service.ts` |
| `ReceiptBook` | abstract promise of the receipts: numbered entries, each for a donation in the books | - |
| `Receipts` | the receipts of one tenant and year, and the key rotation | `generate-receipt.ts`, `rewrap-receipt-deks.ts`, `receipt-crypto.ts`, `receipt-kek-rotation.md` |
| `*Proofs` | theorems of the module named | |
| `MC*` | values for TLC | |

Definitions named `D_<what went wrong>` are deliberately broken variants of the
definition `D`; PROJECT.json names the property each of them violates. They are
not used by any specification.

### OutboxRelay

`status` is the column of that name, `pc`/`batch` are a replica inside
`relayPendingEvents`, `job` the events queue, `child` the queues behind it,
`step`/`tries`/`stalled` the worker's progress with the active job, `lost` how many
runs of the event lost their lock and have the fan-out or the routed effect still
before them, `age` how many jobs ended the same way since a finished one did, which is what BullMQ's
`removeOnComplete: 1000` / `removeOnFail: 5000` retention depends on.
`enqueued`, `handed`, `handled`, `ended` and `firstEnd` are history variables. The SELECT
runs in autocommit, so `FOR UPDATE SKIP LOCKED` protects nothing once it has
returned: `SelectPending` may therefore leave out or include any row that
another replica is working on. `AddError` may or may not have stored the job;
`MarkFailed` overwrites whatever is there; `AbortTick` is a crash, a shutdown or
an error in the catch block. `Stall` takes the lock from a run; if its process
lives, the run goes on (`LostFanout`, `LostRoute`) beside the next hand-out or
after its job has failed. The refinement keeps the row, the job, and how often a
job was accepted, handed out and had its effect; replicas, batches, attempts and
locks disappear. The status of a row and the state of its job are kept apart, so
that a completed row without a job, a second job beside the first, or an effect
nobody was handed the job for would each be a step `EventDelivery` does not have.

### StripePayments

`emitted`/`closed` are Stripe, `hookRow` the `webhook_events` row, `accepting`
requests between the INSERT and the enqueue, `hooks`/`owner`/`stalled` the
queue, `run` the processor. A handler is two steps, its SELECTs and its commit,
because the transaction acts on what it read under READ COMMITTED. `created`
numbers the donation rows of an intent, so that a write by row id misses a row
that was deleted and booked anew. `raced` records overlapping handlers:
properties that the code only gives without overlap say so. The module ends with
the mapping to `PaymentAccounts`: donation, attempt and fee total are the
columns, `paid` is what Stripe announced, and webhook row, queue, runs and the
phases of the UI refund disappear.

### Idempotency

One cell is one Redis key. `cell` is `Free`, the sentinel `Pending`, or the
request whose response it holds. The cache key is put on the request before the
claim is tried, so every later reply, the 409 included, passes through `OnSend`.
When `onSend` throws, Fastify sends a 500 through it once more, which deletes the
key, also after a commit (`OnSendFails`, "resend"). `effects` are the requests
whose handler committed in this TTL window, `carried` those whose handler ever
did, `mishaps` counts the 409s and faults of the window.

### Disputes

`firstAdmin` and `provisional` are the sets of users whose `first_admin` and
`provisional_until` columns are set, `past` says that the founder's deadline has
passed, `resolution` and `disputer` are the dispute rows. Opening and resolving
are split into their read and their commit, because the code reads the window
and the dispute outside the transaction that writes: `opening` holds the provisional
admin a member's call has read, `target` and `choice` the dispute and the resolution a
super-admin is about to commit. A nightly pass selects its candidates once and
then checks and clears each of them (`pass`, `candidate`). The same person may
be a member and a super-admin. `confirmed` is history. The mapping to `Office`
keeps the two columns, the disputer of the open row and the confirmations; what
calls and passes have read, the deadline and the closed rows disappear.

### Branding

`row`, `deleted`, `pointer` are columns, `aged` the rows whose last touch lies
before the grace period, `objects` the S3 directories. The originals and the
variants of one upload lie in different directories because the route makes up a
UUID of its own for the key of the original. Handlers are split where they read
outside a transaction, or inside one without a lock: the activation into check,
select and commit, the removal into read and commit, the Keycloak sync into two
reads and the call, the sweep into its select and one step per row. A job may be
handed out twice (`Turns`), because the lock of its first run expired (`Stall`);
that run died, or it goes on and can still throw, flip the row, activate or sync
beside the second one, while only the run that `HoldsLock` decides the job's
outcome. `doubtful` names the uploads with a commit that was not the last word of
its job: a flip to ready reported as an error or made while another run was past
its check, and an activation that another run of its job may follow. Of the backbone this module uses only what `EventDelivery`
promises, so a committed event is handed over or parked; `Age` assumes that the
grace period of seven days exceeds any backlog.

### BulkEmail

`row` is the chain of `bulk_email_jobs` rows that starts with one dispatch; the
child of a resume names its `parent`. `delivered` and `failed` are the outcome
arrays as sets and `count` is `delivered_count`, which can exceed the set when an
id was appended twice. `run` is a call of `processSendBulkEmail`, split at every
statement that commits or mails: flag, row, recipients, one `sender.send`, one
`recordOutcome`, finish. The try block covers the send and the record, so a
failed record of a delivered mail becomes a recorded failure (`RecordThrows`).
`Stall` takes the lock away from a run that died or that goes on, `GoesCold` is
the ten minutes after which the API takes a processing row for stalled, and
`WipeRedis` loses jobs. `mails` counts what each recipient got; `unproved` are
those whose mail was sent without the row learning of it. Three more histories
say who may be mailed twice: `doubled` the rows two runs had at the same time,
`shared` the people a child row got while its parent was still mailing, `again`
those a row handed to a second child. They are kept apart because they are
different behaviours of the code: the first two need an overlap, the third is two
resumes one after the other, which `resumeBulkEmailJob` accepts.

### OptionMerge

`options` holds each option's active bit and the merge it carries, `value` what
the records hold under the key, `undo` the rows of `custom_field_merge_undo`,
`jobs` the two jobs of each merge. A backfill chunk is two steps, scan and
rewrite, since users take no advisory lock; the lock of the values is held in
between (`chunk`, `LockFree`). `Pods` processes run one job each; a run whose
lock expired dies, or goes on as one of the `strays` and keeps its process
busy. `met` records which merges had jobs at work together: `{m}` is in it when
the backfill and the undo of `m` were. `domain` selects how the records behave. An edit is the
read of the catalogue (possibly cached), for constituents the unlocked read of
the row, and the write of the whole blob. `tangled` records that a request did
not wait for the earlier ones or that an older merge was undone first.

### Receipts

`run[d][n]` is attempt `n` of the job of donation `d`; its transaction holds the
sequence row (`holder`) from `Allocate` to `Commit` or `Throw`, across the
upload. `next` is the committed value. `bucket` maps a receipt number to the
object last put there; a PUT overwrites. `LoseConnection` ends the session but
not the upload; the history variable `severed` keeps its number. `Stall` is
BullMQ's second hand-out, which may run beside the first. The rotation follows
the runbook: `config` is what the operator has written, `configs` what each
process was started with; the sweep reads pages by a keyset on random ids
(`rank`) and counts rows that fail. `wrappedBy` is the version that really
wraps a row's key, `version` the one the row names. The feature flag is no state
of its own: it may be switched between any two reads, so each read returns either
value (`FlagRead`). The mapping to `ReceiptBook`
keeps the committed sequence value, number and donation of each row, the number
shown on the donation, the donations that exist and those whose job was handed
out twice; runs, bucket and keys disappear, so the whole rotation is a stutter.

## 4. Runs

| run | question | bounds |
|---|---|---|
| `outbox_relay` | redelivery, refinement of `EventDelivery`, every event settles | 2 events (one inline), 2 replicas, batch 2, 2 attempts, retention 1, 2 faults |
| `stripe_ledger` | booking, fees, constituents, refinement of `PaymentAccounts` | 2 payments, one refunded in two parts (and the only one refunded from the UI, `RefundsHaveEvents`), 2 runs, 1 fault, 1 deletion |
| `stripe_lifecycle` | agreement of tables, finality, booking without fault | 1 payment: failed, succeeded, refunded |
| `stripe_refund_fee` | fee rolled back once (violated) | 1 payment refunded |
| `idempotency` | how often the mutation runs, faithful cache, earned successes | 4 requests, 1 viewer, 2 faults |
| `disputes` | the office, the window, refinement of `Office` | founder and 2 members, one of them also super-admin, 1 more super-admin, 2 disputes, 2 passes |
| `branding` | activation, servable pointer, sweep, everything else reaped | 2 uploads, 2 worker processes, 1 fault (a stall whose run dies or goes on is one) |
| `branding_url` | "last-write-wins" of the sync (violated) | no fault |
| `bulk_email` | no mail twice, nobody forgotten, completed is real, rows come to rest | 2 recipients, 2 runs, a dispatch and 2 resumes, 1 fault or 1 change of the flag, 1 erasure |
| `option_merge` | erasure and undo are final, records read as the options say, jobs end | 2 records (constituents or donations), 3 options, 2 merges, 2 processes, chunks of 1, 2 attempts, 1 editor, 1 trouble |
| `option_merge_patch` | patches keep other keys (violated) | 1 merge, 1 trouble |
| `receipts` | numbers, objects, uniqueness, rotation, refinement of `ReceiptBook` | 2 donations, 2 processes, 2 key versions, 1 sweep in pages of 1, 1 trouble |

Why the bounds suffice: every hazard of these components involves at most two
actors on one row (two replicas, two runs, a run and an operator, a request and
its retry) and one disturbance; a third request is needed in `Idempotency` (the
one that runs again after the 409) and a fourth leaves slack. Two events with
retention 1 are the smallest instance in which one job's end evicts the other's
and redelivery becomes possible. In `Disputes` the interesting conflicts are
between two calls, or a call and a pass, on one window; a second dispute can
only be opened when the first is closed, and two suffice to act on the closed
one. In `Branding` a replacement needs two uploads, and two activations overlap
only on two worker processes. In `BulkEmail` a mailing repeats itself through a
re-run or through resumes; three rows hold a chain of two resumes as well as two
resumes of one row, and an early end needs two recipients. A fault and a change
of the flag in one behaviour are left out (`FewDisturbances`), as is a second
erasure. In `OptionMerge` a second merge is needed for an undo out of order, for
a chain of marks and for a record that already holds the target; chunks of one
make every backfill of two records stop between them, and two processes let a
backfill and an undo, or a stray and its successor, work at once. Behaviours in
which jobs have met (`met`) are followed with at most one undo row, and these,
as those with a stray, without an edit (`FewMeetings`): what is left out is an
edit beside a stray and larger cases of merges that met, and the theorems have
no such bound. In `Receipts` two donations compete for the sequence, a
rolled-back number is reused by the other one, and pages of one row put a row
behind the cursor. `MaxFaults`, `MaxDeletes`, `Pods` and the retention limits
are constants of the modules and the theorems hold for all of them.

Deadlock is not checked: all these systems stop when there is nothing left to
do. `stripe_ledger` uses the symmetry of the processor's runs; `receipts` that
of donations and processes; runs with liveness use none.

Fairness: weak fairness for each replica's poll loop (it sleeps a fixed time and
polls again), for each step of a job (BullMQ hands out waiting jobs), for
Stripe's delivery until it gets a 200, and for each handler's next step. Nobody
is obliged to publish, pay, refund, delete, dispute, resolve, upload, remove or
fail. In `Disputes` the nightly pass is started again and again (weak fairness
of its select) and, as its check may be disabled for a time by an open dispute,
its check and its update are strongly fair. In `Branding` one weak fairness
condition covers everything that goes on by itself (`System`: relay, pick-up,
the runs, the sweep, the grace period): it only says that the system does not
stop while any of it can go on, and the sweep's flag is on. In `OptionMerge`
likewise (`Work`); edits, retries and what a run without its lock may suffer are
not part of it. In `BulkEmail` events reach the queue, waiting jobs are handed
out and a run goes on. A run of the events queue that lost its lock is not
obliged to go on. Nobody is obliged to resume, undo, merge or erase, and
`branding_url` needs no fault.

## 5. Findings

* **A UI refund can leave the fee on the campaign** (`stripe_refund_fee`). Phase
  3 of `refundDonation` sets `refunded`; the webhook that should take the fee
  off then sees the status and returns.
* **Keycloak keeps the first logo** (`branding_url`). The sync's job id is per
  tenant and the queue never removes finished jobs, so every sync after the
  first is ignored.
* **An edit of a constituent can undo an erasure** (`option_merge_patch`).
  `updateConstituent` reads the row without `FOR UPDATE`, merges the patch into
  the blob it read and writes all of it, with no condition on `deleted_at`. An
  erasure, or a chunk of a backfill, that commits in between is overwritten. The
  comment in `donations/service.ts:723` says that constituents follow the locked
  pattern.

What else came up while modelling, and is in the models without a run of its
own (the properties of the runs are stated so that they hold with it):

* A row whose enqueue failed is marked `failed` and never selected again
  (`relay.ts:61` and `:116`), while `02-reference-architecture.md:349` promises
  delivery "even if Redis is temporarily unavailable". `EventDelivery` calls such
  an event parked.
* The webhook row is committed before its job is added (`payments/routes.ts:230`);
  when the add fails, Stripe's redelivery is answered as a duplicate.
  `BookedUnlessFault` excepts it. The job also has one attempt only.
* The 409 to an overlapping retry passes through `onSend`, which deletes the
  sentinel of the request in flight (`idempotency.ts:269`). So does the 500 that
  Fastify sends when the `SET` of a success throws (line 303), with the key of a
  mutation that is already carried out. `RepeatsNeedMishaps` counts both.
* `kept` does not re-read the dispute in its transaction (`disputes/service.ts:373`)
  and overwrites a committed `replaced`. The record then denies a replacement that
  took place, and `ReplacedIsInOffice`, which speaks of recorded ones, has nothing
  to say about it; the office is not affected (`OneFirstAdmin`, `ImplementsOffice`).
* `charge.refunded` processed before `payment_intent.succeeded` is skipped for
  good, and a partial refund is booked as a full one (`stripe-webhook.ts:483`, `:499`).
* A dispute opened between the expiry's check and its update loses its window
  (`tenant-lifecycle.ts:52`), and `replaced` may promote a user who was
  soft-deleted meanwhile (`disputes/service.ts:277`).
* The variants of a logo are never deleted, neither by the gc job nor by the
  sweep: both derive the directory from the original's key
  (`branding/service.ts:187`). An upload whose `ready` commit was reported as an
  error, or made while another run of its job was past its check, can be marked
  failed while its activation is on its way, or under the pointer
  (`branding-process-asset.ts:137` looks at no status); and an activation that
  lost its lock after its check can bring back a logo that was removed meanwhile
  (`branding-activate-logo.ts:101`). `ActivationIsCausal` and `ActiveLogoServable`
  except these `doubtful` uploads.
* A mailing dropped while its flag was off stays `pending`, and a pending row
  cannot be resumed (`bulk-email-service.ts:464`), although
  `feature-flag-rollback.md:65` and `23-postal-campaigns.md:618` tell the operator
  to resume it.
* A row that was resumed, and whose child has ended, can be resumed again: the gate
  (`bulk-email-service.ts:459`) looks at the row's own status and delivered set,
  which the child does not touch, and the unique index only excludes an active
  child. Those the child has mailed are mailed once more, without any overlap or
  fault, while the comment at `bulk-email-service.ts:424` speaks of concurrent
  resumes only. `NobodyMailedTwice` excepts them by name (`again`).
* When two runs have one row at the same time, both append the recipients they
  mail, and the counter that decides `completed` (`send-bulk-email.ts:347`) makes
  up for somebody nobody mailed. `CompletedReachedAll` excepts such rows (`doubled`).
* With a second pod on the custom-fields queue, as `worker.ts:757` suggests, or
  with a run that lost its lock and goes on, the backfill and the undo of one merge
  can be at work together: the mark is checked at pick-up only
  (`custom-field-option-merge.ts:255`). The backfill then rewrites what the undo
  restored and leaves undo rows behind, and the two may even keep each other
  busy, although `35-custom-fields.md:179` says that a delayed backfill "can
  therefore never brick an undone option or silently reverse a completed undo".
  `UndoneStaysUndone`, `RecordsReadAsTheOptionsSay` and `JobsComeToRest` except
  exactly these merges (`met`); they hold for any number of pods otherwise.
* A record edited between a chunk's scan and its update is rewritten from the
  scan when it still holds the source. A merge or undo requested before the
  earlier ones were worked off, or an undo of an older merge first, can leave
  values that the options do not explain (`tangled`). A flag that is off drops
  the job for good. New writes of a merged option are not "rejected immediately"
  (`customization/service.ts:1033`): the catalogue may come from a cache that is
  a minute old.
* A receipts job is never retried, since attempts given to a Worker are ignored
  and the queue sets none (`worker.ts:65`). A run taken for stalled that goes on
  can leave a donation with two receipts, of which `getReceiptByDonation` returns
  either.

## 6. Proofs

All theorems are of the form `Spec => []Inv`, `Spec => [][A]_vars` or
`Spec => Abstract!Spec`, for every value of the constants that satisfies the
named assumptions of the module.

* `OutboxRelayProofs`: `IInv` is `TypeOK` with three named parts. `OriginInv`
  ties queue, batches and side effects to a published row. `MarkInv` says that a
  replica at `mark` holds a row whose job was accepted, which is what makes
  `CompletedWasEnqueued` inductive. `EvictionInv` relates `age`, `ended` and
  `firstEnd`: a terminal job has been overtaken by at least `age` endings since
  its own, so eviction at the retention limit gives the bound of
  `RedeliveryNeedsEviction`. The refinement maps each step to one of
  `EventDelivery`. What it needs besides is an account of hand-outs (`CountInv`):
  the effects an event has had and the runs that have it still before them, the
  active one and those that lost their lock, are together within its hand-outs, so
  an effect always has one of its own; and the hand-outs, with what the present
  job has left of its attempts and its one forgiven stall, are within
  `HandoutsPerJob` for each job accepted.
* `StripePaymentsProofs`: `IInv` adds to `TypeOK` that every run and job comes
  from an emitted event (`OriginInv`) and `BookInv`: the tables agree, refunds
  are announced, booking is bounded by deletions, and, per intent outside
  `raced`, a handler that read `cleared` still owns the only pending rollback of
  that row, which is what bounds the debits. The constituent bound has the same
  shape with donors for intents.

  `FeeTotalIsExact`: the total is a fold over the set of payments. `LedgerSum`
  shows that such a fold is the value, at the whole set, of a function on its
  subsets that grows by one term with each element (`IsSum`), by well-founded
  induction; `SumMoves` that changing one term changes the sum by the difference.
  The code floors the total at zero, and the sum would break if the floor ever
  took effect: `FeeCovered` shows that it does not, since the fee rolled back is
  itself a term of the sum. This is why `Intents` is assumed to be finite.

  The refinement of `PaymentAccounts` needs two more facts: a refund that is under
  way, in a handler or in the UI, has in mind a donation row that was once booked
  (`RowsInv`), and, from `FeeTotalIsExact`, that a rollback subtracts the fee
  exactly as long as no handlers overlapped.
* `IdempotencyProofs`: the cell, not the processes, carries exclusivity. `ClaimInv`
  counts what has run the mutation or may come to: the effects of the window, the
  requests in the handler, those on their way to free the cell, and the cell if it
  is free. Together they exceed the window's 409s and faults by one at most: a
  claim takes the free cell's share, and whatever frees the cell early is counted
  in `mishaps`. `CacheInv` says that a success waiting for `onSend` was committed
  in this window, so a cached reply, and a replayed one, is that of such a request.

* `DisputesProofs`: at most one dispute is open (`OneOpenDispute`, the unique index);
  `AccusedInv` says that only the founder ever has a window,
  `OfficeInv` that the office is the founder's as long as no dispute replaced
  them and the disputer's afterwards (`OneFirstAdmin`, `ReplacedIsInOffice`), and
  `ConfirmInv` that a confirmation used up the window. A pending replacement is harmless because its commit re-reads
  the dispute; that is where `OfficeInv` meets the stale `target`. The refinement of
  `Office` maps each commit to one step: closing a dispute empties the pending set
  or, when the dispute was closed before, leaves it alone (`ClosingPending`), and
  the claim of the nightly job only succeeds for the founder in office.

* `BrandingProofs`: `EventInv` (jobs and runs come from events, events from uploads),
  `PipelineInv` (after a flip that was the last word no run of the pipeline, with
  its lock or without, is past its check of the row, so no catch block takes the
  row back), `UsedInv` (an upload that was ever seen under the pointer has an
  activation that is `Over`: its job has ended and no run of it is under way, so
  nothing brings a removed one back) and `SweepInv` (what has aged or been selected
  by the sweep is out of reach of pipeline and activation, runs without a lock
  included, so the pointer cannot move to it). The first three speak of uploads
  outside `doubtful`; the sweep's does not.

* `BulkEmailProofs`: `ListsCover` says that the row's accounts (delivered, failed,
  gone) and a run's list together cover the row at every step, whatever overlaps,
  which gives `NobodyForgotten`. For each recipient that is not `Repeated`, the rows
  that list them are a `Line`: all but the last were resumed, what was resumed is at
  rest, and as long as the last one has them left nobody has mailed them. Each
  recipient has a line of their own, which is why an exception for one is none for
  the others. `OneRun` and `Exact` say that a row outside `doubled` has one run at
  most, a counter that is the size of its delivered set, and nobody on a list whom
  it has recorded. These give `NobodyMailedTwice`, and `CompletedReachedAll` with
  the cardinality facts of `FiniteSetTheorems`.

* `OptionMergeProofs`: `NothingErasedComesBack` is inductive once jobs are known to
  belong to requested merges and edits to records: an erased record nobody edited
  is empty, so the re-check in a chunk's UPDATE passes it over and no undo row is
  added for it, and it has no undo row an undo could replay. `UInv`, for
  `UndoneStaysUndone`, adds that an undo is only asked for once the mark is gone and
  merge ids are never reused (`MarksAreTheirs`, `UndoClearedTheMark`), that a backfill
  and an undo of one merge that are both at work have met (`NoMeeting`; at work is a
  run with the job's lock or a stray), and hence that a merge that never met itself
  has no backfill at work once its undo is done (`NoLateBackfill`): a later one finds
  no mark at its pick-up. No assumption is made on the number of processes.

  `RecordsReadTrue` says what all the chunks, retries, drops, kills and strays add up
  to. Its invariant has a witness `V`: for each merge and each record, what the
  record holds read through the merges in force before it (`IsReading`). `TrueTo`
  says how the stored values follow `V`: an undo row remembers `V` before its merge,
  a record is rewritten by the merge under work exactly where it has an undo row, an
  open chunk saw what its records hold, and once all is worked off a record holds
  `V` after the last merge. `OneAtATime` is what `~tangled` gives: one merge is under
  work and it is the last in force. A stray backfill of a merge that is finished and
  in force does no harm, for no clean record holds its source any more
  (`SourceGone`). `CatalogInv` keeps chains of marks increasing, so that a value
  follows them to an end, and `ReadingIsStanding` shows, by induction along the
  marks, that reading through them all is the definition the property uses.

* `ReceiptsProofs`: the invariant parts are `Fresh` (attempts that have not begun
  have no run), `Locks` (the holder is alive and connected, and a connected run that
  writes holds the row and has the number after `next`), `Own` (a run that inserts,
  and a committed row, finds its own object under its number unless an upload
  outlived its session there), `Once` (a job that was not taken for stalled ran
  once), `Confs` (every version a process may wrap with is still in the operator's
  keyring) and `Sweeps` (a sealed row is on the active version, in the page at hand,
  beyond the cursor, or the sweep has counted a failure). The refinement of
  `ReceiptBook` follows step by step: a commit is an entry with the next number
  (`Locks`), for a donation whose row the foreign key requires, and a second one
  only after a stall (`Once`); deletion strikes entries out; every other step, the
  rewrapping of a row included, shows nothing.

Only model-checked: the liveness properties (`EventuallySettled`,
`BookedUnlessFault`, `LapsedWindowsClose`, `OrphansAreReaped`, `RowsComeToRest`,
`JobsComeToRest`) and the three violations. Every safety property of a passing
run is the subject of a theorem, and no theorem assumes a single process. `TypeOK`
and `RefundAnnounced` of `StripePayments` are proved as well and belong to no run: as parts of the
inductive invariant the other theorems rest on them, and `ImplementsAccounts`
demands the announcement in the very step that refunds.

## 7. Not modelled

Of the hazards met while reading, the active-user cache that may serve a revoked
user (`session/service.ts:264`) has no model; it belongs with impersonation and
sessions.

Within the modelled components: QR attribution, audit rows, currency conversion
and Stripe fee enrichment (best-effort, no control flow of their own), webhook
events without account or of unhandled type (acknowledged without effect),
amounts of partial refunds, updates of donations, malformed idempotency cache
entries (only a foreign writer can make one), the survey-erasure fan-out, domain
disputes, roles and soft deletion of users, image validation and rendering, and
the sweep's third phase (bucket prefixes of tenants that no longer exist).
In `BulkEmail`: soft-deleting a job row and the templates. In `OptionMerge`: the
rest of the catalogue's operations, and the columns erasure clears besides the
custom values. In `Receipts`: the key service provider and its retries, the
download route and the API's own keyring, the branch for a missing constituent,
a sweep that outlives its lock, worker processes with all five slots busy; a
killed process's PUT is taken not to land, and reading the donation is merged
with taking the number. The queue of erasure jobs has no producer in the
sources; `Erase` may happen at any time.
The other components of the inventory are listed in PROJECT.json with their
reason. The largest that remain are the web application and the plain CRUD
modules, whose transactions share no state with a second actor beyond what the
models above cover.
