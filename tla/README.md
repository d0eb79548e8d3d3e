# A TLA+ model of many-alerts-one-incident

This directory specifies parts of `src/grafana_jsm_sandbox` in TLA+, checks
them with TLC on small instances and proves the main results with TLAPS for
every value of the constants. So far it covers the core of the system: the
durable recovery journal of the Receiver, how it survives and what it records.
The inventory and the plan below say
what else there is and in which order it is to be added.

## 1. The system and its parts

A Grafana alert arrives as a Notification. The journaled Receiver stores its
body, admits it into a durable journal and only then answers 202. A Forwarder
holds the real Jira credential and lets a Run reach Jira under leases that the
Receiver grants and revokes. An accounting ledger meters spend. At this commit
the launcher is disabled: the journaled Receiver admits and starts no Run.

| Part | State | Operations | What is hard about it | What should hold |
|---|---|---|---|---|
| Journal store (`journal_store.py`) | SQLite rows in WAL mode, two anchor slots, lock file; in memory the anchor, a finding, a broken latch | create, open, append, write_anchor, persist_hold, close | a crash between COMMIT and anchor, torn slots, half-written verdicts, damaged files | nothing acknowledged is lost, verdicts stay, crashes are not taken for damage |
| Journal handle (`recovery_journal.py`) | projection, hold, boot id, resume receipt, one lock | create, open with replay, restart, resume, admit, record_refusal, record_restart_run_hold, snapshot, close, inspect | a failed append that did commit, resume tied to the restart before it | the projection is the replay of the rows, one hold per handle, ready again after crashes |
| Reducer (`journal_reducer.py`) | admissions, pending fingerprints, dispatch holds, refusals, claim families | one `plan_*` per event, `verify_commit`, `apply_delta`, `replay` | ownership of a fingerprint moving between groups, capacity records that must still fit, boot fencing of claims | planned and replayed state agree, a held job is not erased by a later admission |
| Front door (`journaled_receiver.py`, `journal_ingress.py`) | handler threads, in-flight slots, metrics | POST, health, start, stop | handler threads against one journal; start, resume and stop | 202 implies body and admission are durable |
| Spool (`journal_spool.py`) | files by digest, byte and entry counts, broken latch | open, store | counts taken before the journal lock, partial files | no admitted body is missing, bounds hold |
| Leases (`forwarder_leases.py`) | lease records, receiver boot, heartbeat, hold | handshake, heartbeat, register, activate, revoke, check, disconnect | expiry, heartbeat and clock regressions on every call | no lease comes back from a terminal state |
| Dispatch gate (`forwarder_dispatch.py`) | scopes, flights, gate state | install_scope, reserve, admit, begin_write, finish, closeout, shutdown | revocation between admit and write, aborts outside the lock | no write begins under a dead lease; quiescent means nothing in flight |
| Receipts (`forwarder_receipts.py`) | entries, delivery claims | reserve, begin_connect, begin_dispatch, finalize, claim and complete delivery | the sweep racing a late finish | one final outcome, one delivery |
| Exchange (`forwarder_exchange.py` and the wire modules) | one connection | serve_request | deadlines, aborts, unknown outcomes | a dispatched request never reports that it was not sent |
| Control and supervisor (`forwarder_control*.py`, `forwarder_supervisor.py`, `receiver_control_client.py`) | owner, sessions, workers, phase | serve_connection, shutdown, start, stop | owner fencing, cleanup entered twice | authority is held before anything is closed |
| Permit model (`forwarder_permit_model.py`) | permits | stage, attempt, close | closing against attempts | a permit is used at most once |
| Accounting store (`accounting_store.py`, events, transition, ledger) | SQLite rows, two anchor slots, projection | create, open, append, inspect | as the journal, but any invalid slot is fatal and a lagging anchor is held | receipts are durable, holds stay |
| Accounting policy (`accounting_policy.py`) | none | evaluate | arithmetic at limits | exposure never passes the budget |
| Bridge and scan (`reservation_bridge.py`, `reservation_scan.py`) | none | assess_bridge | identity reuse across stores | never releases a hold |
| Run supervision (`run_supervision_*.py`, `run_outcome.py`) | action history | next_supervision_action, closeout | order of revoke, interrupt and kill against exit | revoke precedes every signal |
| Legacy Receiver and spawner (`receiver.py`, `run_spawner.py`, `forwarder.py`) | queue, worker, sentinel, timer | accept, work, run, kill | timeout against exit, stop against accept | one Run at a time, sentinel cleared |
| Archive, report, audience and telemetry codecs; demo tools; `prototype/` | none | pure functions or scripts | | |

`PROJECT.json` lists every part with its sources and the hazards at their lines.

## 2. Modules

| Module | Contents |
|---|---|
| `Anchor` | the two-slot anchor file: reader, consistency rules, slot choice, write refusals |
| `RecoveryJournal` | state machine of the store and the handle, its properties, one mutated form per property |
| `MCRecoveryJournal` | the module TLC runs |
| `RecoveryJournalProofs` | the inductive invariant and the theorems |
| `ServingProcess` | the process around the handle: start with or without a resume token, serving, stop, create; `Recovers`, `ResumesInspected` |
| `MCServingProcess` | the module TLC runs |
| `ServingProcessProofs` | each step is a step of the journal, and a resume follows what was inspected |
| `Admission` | what the journal records: admissions and their dedupe decision, capacity holds, refusals, held jobs, restarts and resume; properties and mutated forms |
| `MCAdmission` | the module TLC runs, with its symmetry |
| `AdmissionProofs` | the inductive invariant and the theorems |

`ServingProcess` extends `RecoveryJournal`: every step of it is one of the
handle, with the conditions `start` and `main` put on it, or leaves the handle
alone. The journal and what it records meet at `_commit`. `RecoveryJournal` takes a commit as an id and
asks whether it survives; `Admission` takes its survival as given and asks what
a sequence of commits may say. They are not composed yet.

### RecoveryJournal and the code

`files`, `rows` and `slots` are the disk. `pc`, `op`, `resume`, `anchor`,
`writes`, `projection`, `pending` and `hold` are one process. `acked` records
what callers were told. The other variables count against the bounds.

- **Commits are ids.** A commit's records are written in one SQL transaction,
  so a commit is one entry of `rows`. Ids are fresh, as UUIDs are.
- **Heads are sequences.** `record_digest` chains every record to the one
  before, so an anchored head stands for the whole history under it.
  `commit_seq` is the length, and an equal digest is an equal sequence.
- **One handle.** The flock admits one process and the handle's lock one
  operation, so one `pc` is enough. Interleavings are with crashes, I/O
  failures and storage damage, which may come between any two durable writes.
- **Durable writes are separate steps**: database file, genesis COMMIT, anchor
  file, first slot; COMMIT, directory sync, slot; each slot of `persist_hold`;
  the slot that adopts a tail.
- **A write that fails or is cut short** leaves a slot old, torn or new, and a
  COMMIT absent or present. Memory keeps what it had.
- **Verdicts.** The code's twelve recovery codes are folded to six: those that
  `_verify_open` and `_replay_finding` decide in different places. Every kind
  of bad row is `journal_record_invalid`.
- **Failing id minting at open** is modelled: a damaged journal is then held
  without a write (`OpenHeldUnsaved`), a sound one gets a process hold.
- **Storage damage** happens while no process runs: rows cut, corrupted,
  rewritten or added; a slot unreadable; the anchor file gone. These actions
  are marked external.
- `admit`, `record_refusal`, `record_restart_run_hold` and the capacity hold
  are one action `Admit`: they share `_commit`, and differ only in what the
  reducer plans. Refusals that write nothing leave the state as it is.
- **Capacity is permanent.** `MaxCommits` is `total_bytes`, with one unit per
  commit. Nothing frees a row, so a restart, resume or capacity hold that does
  not fit (`RestartFull`, `ResumeFull`, `AdmitFull`) does not fit at the next
  open either. A clock, an id or a record that fails (`RestartFails`,
  `ResumeFails`, `AdmitFails`) is a passing trouble.

Left out here: permissions, PRAGMAs, byte layout, other format versions, the
duplicate lookup of append (ids are fresh) and inspect, which writes nothing.
Replacing all three files by an older consistent set is undetectable for the
code, as `docs/recovery-journal.md` says; `AckedSurvives` therefore allows
damage to rows or to slots, not to both.

### ServingProcess and the code

`token` is the head `--resume-token` names, `<< >>` without one. A head stands
for its history, so `token = rows` is the equality of digests the open tests.
`stage` says whether `start` is still running (`"start"`), has had its resume
applied (`"resumed"`), or is followed by `main`'s loop (`"serve"`); `"create"` is
`journal_operator.create_state`.

- **A stale token** makes the open raise `resume_stale` before it writes: there
  is then no step to take. A command repeated with its old token is refused for
  good once a commit was made, and every start whose restart committed made one.
- **A resume that was not applied** makes `start` close the journal and exit
  (`NotApplied`). A notification may get in before that.
- **A held journal is served**, with 503, until somebody stops the process.
- **The operator** may start, stop and change the command in any order
  (`Recommand`, `StartOpen`, `Stop`). Nothing says that they will.

Left out: the spool that `start` opens first, the listener and its threads.

### Admission and the code

The variables down to `bootRecovered` are the fields of `Projection` that the
modelled records write. `phase` is where the handle is, `resumed` its resume
receipt. `latest` is history: what the last arrival said of each fingerprint.

- **One projection.** It is the replay of the durable rows. A ready handle's own
  projection equals it; an append that fails latches the handle, whether the
  commit became durable (`Commit` leaves `"held"`) or not (`Fails`), and the next
  open replays.
- **Arrivals.** A status stands for one alert's status and values, and the
  dedupe key is the alerts themselves: the digest is taken to be injective.
  `complete` is `truncated_alerts == 0`.
- **Charges** are any positive number of bytes, chosen anew for every record.
- **Planner and verifier.** `verify_commit` runs before every append. What it
  re-derives with the planner's own function is not modelled twice. Where it
  asks a question of its own (`_verify_capacity_hold`,
  `_verify_operator_action`) the question is an operator and a refusal latches.
  A refusal carries `limit`, `observed` and `requested` from `plan_admission`;
  `Limit` and `Observed` are the verifier's own tables.
- **Held jobs** are the one claim family a method of the handle can write, so
  `PrivateClaimsOutstanding` is about them. The other `plan_*` functions have no
  caller outside tests. Nobody calls `record_restart_run_hold` yet either; the
  model lets a caller pass any job and any admission.
- Calls that are refused without a write (a repeat of a refusal, a capacity code
  that is already held, an exact retry of a run hold) leave the state as it is.
- The limit of 32 members of a run hold cannot be passed, as a source carries at
  most 32 alerts.

## 3. Runs

| Run | Bounds | Shows |
|---|---|---|
| `journal_faults` (`JournalFaults.cfg`) | 3 troubles, 4 commits, 1 row fault, 1 slot fault | `TypeOK`, `AckedSurvives`, `PersistedIsDurable`, `NoFalseVerdict`, `VerdictLatched`, `AnchorForward`; 171,330 states |
| `serving` (`Serving.cfg`) | 3 troubles, 6 commits, no faults | `Recovers`, `ResumesInspected`; 19,736 states |
| `process_holds` (`ProcessHolds.cfg`) | 2 troubles, 2 commits, no faults | `ProcessHoldsClear` is violated; 502 states |
| `admission_pending` (`AdmissionPending.cfg`) | 2 groups, 2 fingerprints, 2 statuses, 1 job, 4 admissions, 8 bytes | `TypeOK`, `PendingIsLatest`, `RunHoldFences`; 661,742 states |
| `admission_bounds` (`AdmissionBounds.cfg`) | 1 group, 2 fingerprints, 2 jobs, 3 refusals, charges 1, 2 and 9, 5 ordinary and 8 total bytes, 2 admissions, 1 pending, 2 refusal records with 1 reserved, 1 held job | `WithinBounds`, `ReserveForResolved`, `DispatchNeedsResume`, `PrecheckExact`, `PlansVerify`, `HoldsStay`; 258,859 states |

A *trouble* is a crash or a failure (of a write, a clock or an id); closing is
none, and is bounded by the restart commit each open adds. Three suffice for
the deepest case: crash after a COMMIT, crash while the tail is adopted, crash
between the two slots of a verdict. Four commits give a genesis, a restart, an
admission and one more, so an anchor can be two behind. Six let `serving` make
two full opens with a resume each and still restart once more. Two are a genesis
and one restart, so the next restart of `process_holds` does not fit.

- `AckedSurvives`: what a caller was told is in the rows of every handle that
  may still write.
- `NoFalseVerdict`: without storage damage the next open finds nothing wrong,
  in every state, also in the middle of a write.
- `PersistedIsDurable`: a verdict reported as persisted is what the next open
  reads; a finished `persist_hold` left it in both slots.
- `VerdictLatched`: a durable verdict is not erased or replaced and nothing is
  appended below it.
- `AnchorForward`: the readable head only grows along its own history.
- `Recovers`: whatever happened before, the next start of an undamaged journal
  serves it, if its command has no token, nothing fails from then on and the
  restart record fits. It must be that start: an open that used up a commit and
  left the journal as before would not do.
- `ResumesInspected`: a resume follows the head its token names and the restart
  of the same start, and nothing else.
- `ProcessHoldsClear`: what the docs say of process holds; see the finding below.

For `Admission`, the shortest way to lose an entry takes three arrivals: a group
reports, another takes over, the first repeats. Four leave one more. The bytes
bound every behaviour, since every commit takes at least one. The bounds of the
second run are small enough that each can be reached before and after the
others, and a charge of 9 fits nowhere.

- `PendingIsLatest`: each waiting entry is what the latest arrival said, also
  after a repeat of what another group had taken over.
- `RunHoldFences`: a held job's restart hold stays.
- `WithinBounds`: no record passes a bound, and until a hold or a restart is
  recorded the bytes above the ordinary ones are untouched. Genesis is the
  exception: it is not held against the byte bounds, and a journal created with
  too few never gets another record.
- `ReserveForResolved`: refusals of other kinds leave the reserve free.
- `DispatchNeedsResume`: after the first boot, no work without a hold unless the
  operator resumed this boot.
- `PrecheckExact`: `admission_precheck` says what `admit` would say.
- `PlansVerify`: the verifier does not refuse what the handle plans, neither a
  resume nor the numbers of a capacity hold.
- `HoldsStay`: a hold keeps its commit until a resume clears it.

**Fairness.** `FairServing` assumes weak fairness of what the code does by
itself: the next step of a call that has begun (`Handle`), and the end of
`start` and of `create_state` (`Started`, `NotApplied`, `CreatedState`). Nothing
is assumed of notifications, nor of the operator: `docker-compose.yml` gives the
receiver "no restart policy", `main` goes on serving 503 with a held journal,
and a repeated token is stale. Where a property needs somebody to act it says
so: `Recovers` is about a journal that is started again, `ProcessHoldsClear` has
`OperatorAttends` as its premise.

**Finding.** `docs/recovery-journal.md` (282-284) says that process holds "are
never persisted and clear on reopen" and lists `journal_capacity_recovery`. That
one does not clear: the next open replays the same rows against the same
`total_bytes`, and the restart record fits no better. The run `process_holds`
ends in a loop in which the operator stops and starts the process for ever and
each start is held again. `tests/test_recovery_journal.py` (607-625) expects the
hold at the first reopen. The other process holds do clear, by `Recovers`.

Deadlock is checked in all runs.

## 4. Proofs

`RecoveryJournalProofs` proves, for all bounds, so for any number of crashes,
commits and faults:

| Theorem | Statement |
|---|---|
| `Invariance` | `Spec => []IInv` |
| `TypeCorrect` | `Spec => []TypeOK` |
| `Durability` | `Spec => []AckedSurvives` |
| `NoFalseVerdicts` | `Spec => []NoFalseVerdict` |
| `HoldIsDurable` | `Spec => []PersistedIsDurable` |
| `AnchorNeverBack` | `Spec => AnchorForward` |
| `VerdictStays` | `Spec => VerdictLatched` |

Its assumptions: the bounds are naturals, `Corrupt` is not a commit id, `NoHold` is
not a hold code. TLC evaluates them in the three journal runs.

`AckedSurvives` alone is not inductive: whether a commit survives an open
depends on the anchor that open will read, and that depends on which slot the
last write went to. `IInv` adds:

- `DiskOK`: each intact slot sits at the index its counter's parity asks for,
  two intact slots are neighbours the reader accepts, and no anchor file means
  no slot;
- `AnchorOK`: the anchor in memory is what the reader would read, wherever the
  handle may write through it;
- `RowsOK`: how rows, projection and anchored head differ at each `pc`;
- `AckedOK`: what was acknowledged is under the anchor unless slots were
  damaged, and in the rows unless rows were damaged;
- `CleanOK`: without damage the anchor is a prefix of the rows, at most one
  commit behind.

The central lemmas are `WriteNext` and `TearNext`: a write through the
in-memory anchor goes to the other slot, so the reader sees the new slot if it
is intact and otherwise the old one. There is one lemma per action, then
`InvNext`. TLC checked `IInv` as an invariant before it was proved.

`ServingProcessProofs` proves, under the same assumptions:

| Theorem | Statement |
|---|---|
| `ServingIsJournal` | `ServingSpec => Spec`, so the theorems above hold of the process |
| `ResumeIsInspected` | `ServingSpec => ResumesInspected` |

The invariant `ResumeInv` says where a start is: while its restart is under way
and a resume was asked for, the projection is the token; while its resume is
under way, one commit more. Without it nothing rules out that the resume of an
earlier start, or one after an admission, is still to come.

**A limit of the prover.** The SMT translation of tlapm 1.4.5 relates `Len` and
`DOMAIN` for every function, not for sequences only: it takes a function whose
domain is not `1..n` as contradictory once `Len` is in scope. A proof step that
mixes sequences with such a function can then prove anything. This model is
built so that the step never arises: the only functions besides sequences are
the pair of slots, which is indexed by `{1, 2}`. For the 161
obligations the SMT solver discharged (129 in `RecoveryJournalProofs`, 32 in
`ServingProcessProofs`; Zenon and LS4 discharged the rest, and do not use that
translation), it was asked again with the goal removed and six seconds of time.
In two the hypotheses alone were contradictory: one is a step by contradiction,
and one is an implication whose premise, no files left, is false after a slot
fault (the prover counts the premise as a hypothesis). For the second, `FALSE`
with the same justification was tried without the premise, and failed, as did
three more attempts to prove `FALSE` from the invariants and actions. In 14 the
solver found the hypotheses satisfiable, and in 145 it found no answer in time.
The examination is therefore evidence, and no proof,
that the steps do not use the defect.

`AdmissionProofs` proves, for any sets of groups, fingerprints, statuses, jobs
and refusals, any bounds and any number of restarts:

| Theorem | Statement |
|---|---|
| `TypeCorrect` | `Spec => []TypeOK` |
| `LatestPending` | `Spec => []PendingIsLatest` |
| `BoundsHold` | `Spec => []WithinBounds` |
| `ReserveKept` | `Spec => []ReserveForResolved` |
| `HeldJobsFence` | `Spec => []RunHoldFences` |
| `ResumeNeeded` | `Spec => []DispatchNeedsResume` |
| `PrecheckIsExact` | `Spec => []PrecheckExact` |
| `PlansAccepted` | `Spec => []PlansVerify` |
| `HoldsRemain` | `Spec => HoldsStay` |

Assumptions: bounds are naturals, `OrdinaryBytes <= TotalBytes` (as
`_verify_genesis` asks), the reserve is at most the limit, charges are positive,
fingerprints, jobs and refusals are finite sets, and `None` is no other value.

`PendingIsLatest` is not inductive: a repeat writes nothing for an entry its own
group still has, so that entry must already say what the repeat says. Its
`IInv` adds `BaselineSeen` for this: a group's baseline agrees with the latest
arrival of each alert unless another group reported it since. It also adds that
the refusal counters are the cardinalities of the keys (`RefusalsCounted`), what
each phase of an open has established (`BootOK`) and that the hold on admissions
means all are used (`AdmissionsUsed`). `OnlyAdmit`, `OnlyRefusal`, `OnlyRunHold`
and `HoldChange` say which actions touch which part, so each conjunct is argued
over the actions that matter to it. TLC checked this `IInv` on the bounds of both
runs first. The module uses no sequence operator, so `Len` is never in scope.
Seven attempts to prove `FALSE` from its invariant, actions and lemmas failed,
and with each of the nine mutated definitions put in place of the original at
least one lemma fails.

**Model-checked only**: `Recovers` and the refuted `ProcessHoldsClear`, since
liveness under fairness is outside the prover.

## 5. Plan

In this order; each item is a module, its run and its properties.

1. `FrontDoor`: handler threads, spool and journal; crash between spool and
   admission; two processes during a takeover, where the spool is opened before
   the journal's lock. 202 implies body and admission. Uses an abstract log
   `DurableLog`, which `RecoveryJournal` is then shown to implement.
2. `Leases`, `Receipts`, `DispatchGate` and their composition: no write under a
   dead lease, one final outcome per receipt, quiescent closeouts. Proofs: type
   and terminal-state theorems of `Leases` and `Receipts`.
3. `AccountingStore`: the second two-slot store, against `DurableLog`, with the
   differences (any torn slot is fatal, a lagging anchor is held).
4. `ClaimFamilies`: run intent, launch claim, attestation, release, effects and
   supervision actions under boot fencing.
5. `Control` and `Supervisor`: owner fence, shutdown from several threads,
   eventual end of every worker.
6. `RunSupervision`, `PermitBook`, `LegacyRuns`; `AccountingPolicy` and
   `ReservationBridge` as operators against reference definitions.

Function domains in modules to be proved are sets of the form `1..n`, or the
module keeps sequences out, for the reason given above.
