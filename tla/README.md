# claude-whatsapp: specifications, model checking and proofs

claude-whatsapp connects WhatsApp to the Claude command line. Two Go processes
run on one machine: the **bridge**, which receives webhooks from gowa (a
WhatsApp gateway), runs `claude` and sends the answers back, and the **admin**
server, a web page from which the stack is watched and configured. They share
files, not memory. This directory holds TLA+ specifications of the parts of
both that keep state, TLC configurations that check them on small instances,
and TLAPS proofs that hold for every instance. `PROJECT.json` maps every
definition to the lines it models.

## 1. Inventory

### The bridge

| Part | State | Operations | Hard to get right |
|---|---|---|---|
| Webhook handler, `internal/webhook/handler.go` | one goroutine per accepted message | decide, record, acknowledge, run Claude, reply | work goes on after the 200; gowa posts again when it misses the 200 |
| Pending store, `internal/pending/store.go` | one file per unanswered message, and its temporary | `Write` (temporary, then rename), `Done`, `ListAll` | crashes between the steps; two deliveries share one temporary, and each empties it before it writes |
| Chat locks, `internal/webhook/chatlock.go` | a mutex per chat | `Lock` | every return path must release it |
| Session store, `internal/session/store.go` | chat to Claude session id, in memory and in a file | `Get`, `Set` | read before a run of minutes, overwritten after it |
| Claude runner, `internal/claude/runner.go` | none | `Reply`: resume, else start afresh | a failed resume drops the conversation |
| gowa client, `internal/gowa/client.go` | cached device id, shared by all goroutines | send text, quoted or not; resolve the device; one repetition | a send that reports an error may have arrived; the device changes under it |
| Access policy, `internal/access/access.go` | the access file, a cached copy per process | `Authorize`, `Decide`, `Get`, `Save` | a cache keyed by modification time, a file that others replace |
| LID lookup in `handler.go` | the bot's LID with an age | `botLID` | late and failed answers overwrite good ones |
| Start-up, `cmd/bridge/main.go` | none | replay of every pending file | all replays start at once, beside new webhooks |

### The admin server

| Part | State | Operations | Hard to get right |
|---|---|---|---|
| Access requests, `internal/admin/access.go` | none of its own | read, change and write the access file | no lock around the three |
| Account, `internal/adminauth`, `internal/admin/auth.go`, `cmd/admin` | credentials file, `totpLastStep`, login sessions | set-up, adoption of `ADMIN_PASSWORD`, login, password change, TOTP enrolment, confirmation, disabling, `passwd`, `totp disable` | every change replaces the whole file, from two processes; the file may be lost or damaged |
| Rate limiter in `adminauth.go` | per address: failures, window, lock, number of locks | check, count, forgive | guesses are verified between check and count, with nothing held |
| Pairing, `internal/admin/admin.go`, `internal/gowa/admin.go` | none; gowa's device records | status, pairing by QR image or code, reconnect, logout | each request is several calls; records that are no longer logged in stay behind |
| Claude sign-in, `internal/admin/claudelogin.go` | one session record, a child process per run | start, submit code, cancel, scanner, waiter, time limit | goroutines of an old run meet the record of a new one |
| Status and alerts, `internal/admin/admin.go`, `alerts.go`, `internal/alerts` | the Monitor, the alerts file | sample every minute, announce, remind | announcements lost by failures, restarts, disabled alerts |
| Logs, QR proxy, web page | none | forwarded calls | nothing that outlives a request |

### How they interact

gowa posts to the bridge and is called back by it. Both processes use gowa's
device records: the admin server pairs and unlinks what the bridge sends as, and
the bridge learns of it when gowa refuses its device. The bridge reads the access
file the admin server writes; the alerts loop asks systemd, gowa, docker, the
bridge and `claude auth status`. A finished sign-in drops the cached answer of
the latter. Everything else meets only in files: pending directory, session
file, access file, alerts file, credentials file.

### What correctness means for each

* **Pipeline**: an acknowledged message is answered or still on disk, unless two
  deliveries wrote its file at once; one Claude run per chat; a sender removed from
  the policy is not served from the queue; conversations are not lost; a second
  answer has a cause; the queue drains after a restart.
* **Access**: every message is judged by a policy in force while it was
  handled; what is saved is what is enforced; a switch of modes keeps the other
  mode's data.
* **WhatsApp**: a text arrives at most once per call, whatever the call reports
  ("sent" means that gowa took it, not that WhatsApp did); a send fails only for a
  reason; "unlinked" means that the record is gone.
* **Guessing**: an address has a bounded number of wrong guesses in a window; a
  lock holds, and the next one is longer.
* **Account**: a code works once; nobody is locked out by a secret nobody
  confirmed; sessions end with their password; operations that do not overlap
  change only what they own.
* **Sign-in**: one live process, known to the session; a session that blocks
  new starts is attended and ends; pasted codes are not shown; the dashboard
  shows the sign-in.
* **Alerts**: the channel agrees with the Monitor unless an announcement was
  lost; downtimes are whole; no announcement is repeated too soon; lasting
  trouble is announced in the end.

The hazards behind these, each at its line, are listed in `PROJECT.json`.

## 2. Plan

1. `Bridge`, with the abstract `AckedQueue` it implements. Done.
2. `ClaudeLogin`. Done.
3. `AdminAuth`. Done.
4. `AccessPolicy` (operators) and `AccessStore` (processes). Done.
5. `Alerts`. Done.
6. `LoginGate`: the limiter with its window and doubling lock, and the handlers
   around it; the first-time set-up and the adoption of `ADMIN_PASSWORD` in
   `AdminAuth`. Done.
7. `WhatsApp`: the bridge's device-id cache and repetition, and the admin server's
   pairing requests, over gowa's records; the sends shown to implement `SendOnce`.
   Done.
8. `Alerts`: a save of the settings in two steps, two savers.
9. `PolicyGate`, an abstract policy service (one policy in force, changed
   atomically), shown to be implemented by `AccessStore`. Done.
10. A clock for `Bridge`'s runs, for the bound of 25 minutes after which the
    status calls the queue stuck, and the two ages of the LID cache.

Every invariant and action property that a passing run checks is a theorem, and so
are the three refinements. Items 8 and 10 are left; their properties come with
theorems of their own.

## 3. Modules

`MC*.tla` and `*.cfg` give constants their values. `*Proofs.tla` hold theorems.
`Induction` belongs to no component: it has induction and recursion over the natural
numbers in a form the provers can use, over a set instead of a predicate and along a
function instead of an operator, derived from the well-foundedness of their order.

### `Bridge`, `AckedQueue`

A *task* is a goroutine working on one message: that of a webhook delivery, or
that of a replayed file. `pc[t]` walks through `ServeHTTP` and `handleMessage`:
`open`, `write`, `rename`, `ack`, then (replays start at `authorize`) `wait` for
the chat's lock, `run`, `save`, `quote` or `plain` for the reply, `done`. `json` and
`tmp` are the two files of a message, and `opened[t]` is the name under which the
file is found now that task `t` is writing: `os.WriteFile` empties the temporary
when it opens it and writes afterwards, and in between another delivery of the
message may empty it again, rename it or replace it. The event `contended` is noted
of a message of which two deliveries were between opening and renaming at once.
`conv` and `saved` are the session store
in memory and on disk; a session is represented by the messages its history
holds. `Crash` drops everything in memory; `Restart` is `main` and
`replayPending`. Faults (crash, send, disk, policy) are drawn from budgets.
`AckedQueue` knows only owed, promised and closed messages, and the risky ones, of
which two records were made at once and which it may lose; `Bridge` implements it
through the mapping at `Queue`.

Abstractions: message ids are distinct and safe as file names; the bytes of a record
are written in one step, which may fail half-way; an empty or torn file does not
parse; that gowa takes a text is what counts as sending it; prompt, media and typing
indicator are left out.
A task that was killed takes its `claude` process along (systemd's default
KillMode).

### `AccessPolicy`, `AccessStore`, `PolicyGate`

`AccessPolicy` is pure: numbers with the form they were written in, JIDs, LIDs,
`Normalize`, `Legacy`, `Authorize`, `Mentioned`, `Decide`. `AccessStore` has the
file with its modification time, a Store per process (cached policy, time,
error), savers in the admin process and messages in the bridge. `refreshLocked`
is three steps, stat, read and use, because a rename by the other process
may fall between them; the mutex is held over all three. `handleAccessSave` asks
`Get`, `Err` and writes, in that order, without a lock around them. A message is
judged after a LID lookup if it has to be, with the policy taken before.

`PolicyGate` is what the handler relies on: a policy that changes at an instant, of
which a message takes one, at an instant between its arrival and its verdict. It has
no files, times, caches, mutexes or errors. `AccessStore` implements it (`Gate`): the
stage of a message is read off its `pc`, the policy it holds is its `base`, and the
policies in force are what the file means (`InForce`; two while there is no file,
the environment's and a denial, because a file that vanishes between stat and read
counts as unreadable).

Abstractions: two versions of the file have different modification times; stat
fails only for a missing file; the lookup finds or misses the LID at will. The
comment at `access.go:145-147` says that only the active section is checked; the
code also checks the roster in personal mode, and the model does as the code.

### `AdminAuth`

An operation is a login, a request of a signed-in browser, a command of the
machine's user, or one that makes a first account: the set-up page, and the
adoption of `ADMIN_PASSWORD` when the server starts. `LoseFile` deletes or
damages the file behind the server's back; a damaged file is no account, and
neither set-up nor adoption replaces it, but `passwd` does. Each operation reads
the whole credentials file, under the server's mutex or in its own process, and
replaces the whole file later. A password is known by the operation that set it,
a secret by the one that generated it, a code by its 30-second step. `knows`,
`accepted`, `proven` and `disturbed` are history variables.
`BeginTOTPEnrollment` on an account with two-factor login takes it back to
pending, as the code does.

Abstractions: `SignOut` may end any session at any time, which is what their age
does to them; what a new name and password must look like only refuses requests;
`passwd` may ask again as often as it likes.

### `LoginGate`

The limiter in front of those handlers. A request asks `Check`, verifies with
nothing held, and ends in `Fail` or `Success`; those in between are `stage` and
`client`. `entry` is the limiter's map, `Fail` with its pruning, restarted
window and lock. `guesses`, `through` and `lasted` are history: the times of the
wrong guesses since the last lock or complete login, the guesses that went
through while the lock held, and the length of the last lock. The length of a lock
is the code's loop that doubles and stops at the limit, as a recursive function. That an entry
untouched for an hour may be dropped depends on how many other addresses there
are; in the model it may be dropped at any failure (`crowded`).

### `WhatsApp`, `SendOnce`

gowa's records are `registered`, those logged in are `linked`. A sender is a
goroutine of the bridge in `Client.post`: `list` and `ask` are `refreshDeviceID`
over gowa's list, whose order means nothing, `store` is its assignment under the
mutex, `post` and `answer` are `doPost` and what `post` makes of its error. A
request of the admin server is a chain of calls with its `target` in between:
`existingDevice` and then the login, reconnect, logout or status; a pairing
without a device registers one first, and a logout that gowa reports as failed
looks at the list again. Any call may fail before or after gowa carried it out.
Somebody may pair or unlink a device at any time. gowa may answer 2xx and lose the
text (the repository's README, line 302). A sender is `calm` while no request of its
call has failed and no device was changed. `SendOnce` is what `Bridge` assumes of a
send; `WhatsApp` implements it.

Abstractions: a text that arrives after its call has ended is not followed any
further, because neither "sent" nor "failed" says anything about arrival; lists of
groups and participants and the QR image change nothing and are left out.

### `ClaudeLogin`

A run is one `claude auth login` process with its generation number. The start
request polls, the scanner finds the link and records output, the waiter ends
the run; all share the session record, and the latter two compare generations.
`claude auth status` is asked under a mutex of its own. Left out: an output line
too long for the scanner, and grandchildren that keep the output pipe open.

### `Alerts`

`Verdict` is `verdict` on the probes. A minute of the model is one tick of the
loop's timer. `Probe` takes the sample, `Check` is `Monitor.Check` up to the
post, `Arrives` and `Fails` are the outcomes of the post. `incident`, `quiet`,
`same` and `disturbed` are history: the true age of the incident, the true time
since the last attempt, whether nothing else was seen since, and whether an
announcement was lost. A saved webhook URL is checked trimmed and stored
untrimmed, so a padded one is accepted and no message to it arrives. A save is
one step; the Claude part of a sample is not aged (the code's may be 30 seconds
old).

## 4. Runs

All runs end within three minutes on two workers. For every property of a passing
run there is a *mutant*: an operator beside the definition it would replace, such
as `LeaveLocked` beside `Leave` (the early return keeps the chat's lock) or `Settled`
beside `Stands` (the cache is never given up), which changes the model as a plausible
bug would change the code. `PROJECT.json` pairs them; with the mutant in place TLC
finds the property violated.

| Run | Instance | What it shows |
|---|---|---|
| `bridge_safety` | two messages of a member of a group, the first posted twice; two crashes, a crash and a fault of any other kind, or two failing sends | `OneRunPerChat`, `AckedIsRecoverable`, `RevokedNeverRuns`, `DuplicatesHaveCauses`, `ContextKept`, and that `Bridge` implements `AckedQueue` |
| `bridge_liveness` | one person's two messages in a direct chat; two crashes or a crash and a send error | `AckedIsSettled`, `RestartDrains` |
| `apology_lost` | one send error | violated: an acknowledged message is dropped without any answer |
| `leftover_tmp` | one crash | violated: an answered message is replayed by every later start |
| `claude_login` | two runs | `OneSignIn`, `ActiveIsAttended`, `CodesRedacted`, `DoneIsVisible`, `SignInEnds` |
| `old_start_request` | two runs | violated: a start request whose run was cancelled cancels the next run |
| `whatsapp` | two devices, two senders, one request of the admin server; any call may fail, any device may be unlinked | `CalmSendSucceeds`, `UnlinkedMeansGone`, and that a send implements `SendOnce` |
| `login_gate` | three requests at a time, three wrong guesses lock, ten moments | `GuessesBounded`, `LockHolds`, `LocksGrow` |
| `admin_auth` | any three operations, with an account or none, three clock steps; the file may be lost or damaged | `CodeOnce`, `OnlyProvenSecrets`, `SessionsFollowPassword`, `UndisturbedKeepsFields` |
| `two_factor_lost` | any three operations, two clock steps | violated: a password change turns a concurrently confirmed second factor off |
| `access` | two saves, one webhook, two changes of the file | `CacheHonest`, `SavedIsEnforced`, `UndisturbedSaveKeeps`, and that messages are handled as `PolicyGate` says (`ImplementsGate`) |
| `alerts` | three states of the stack, reminders after two minutes, one failure, one restart, one edit | `ChannelInStep`, `DowntimeIsWhole`, `NoSpam`, `TroubleIsTold` |

Every run also checks its module's type invariant where it checks invariants.

Why the bounds are enough to be interesting. *Bridge*: two messages of one chat
are needed to contend for its lock, two posts of one message to contend for its
temporary, and two crashes to crash again during a replay; a quoted reply needs
two send errors to get lost. `bridge_liveness` posts each message once to
stay quick: with `MaxTries <- FirstTwice` in its configuration it holds as well, over
418 thousand states in five minutes. That a contended message is settled or lost to
a fault is proved for the bridge at rest (`SettledAtRest`). The members of a group
differ in nothing but whether the policy allows them at a time, and the policy may
change between the two messages. *ClaudeLogin*: every race is between a run and its
successor; the theorems cover more runs. *AdminAuth*: two operations overlap,
the third is the login or the enrolment that sees the result; three steps are
the width of the window of a code. States that differ only in what ended
operations had read are explored once (`VIEW Relevant`). *LoginGate*: the limiter
treats addresses apart but for the pruning, which `crowded` allows at any time, so
one address is enough; three requests are one more than are needed to guess while
a lock falls; the window of two, locks of one, two and three and ten moments let
the count start over, the lock double and reach its limit, and the entry grow
stale. *WhatsApp*: two devices are a live one and a leftover; two senders share
the cache; one request is enough to disturb them, and what disturbs a request may come from
`Pair` and `Unlink` too. The theorems cover any number of requests. *AccessStore*: two changes are a replacement
between stat and read and one more; the requests are a switch to each mode that
does not mention the other section; the hand edit names one person twice. The
group message names the bot by its LID, which makes the lookup necessary.
*Alerts*: a healthy, a degraded and a down state make every kind of incident; an
interval of two minutes is longer than one sample; ages are counted up to it.

Deadlock is not checked where the system may stop: once all messages are
answered, all operations have run or all runs have ended, or the last moment has
come while an address is locked, and the bounds leave nothing more to happen.
`AccessStore`, `Alerts` and `WhatsApp` are checked for deadlock: a webhook, a
restart, a minute or a send is always possible.

### Fairness

Only the liveness properties assume any.

* *Bridge*: weak fairness of every task's step: goroutines are scheduled, a
  run of Claude is killed after ten minutes, an HTTP call ends after thirty
  seconds, and a mutex of Go is not starved. Weak fairness of `Restart`:
  the unit has `Restart=always`. No fairness is assumed of gowa, of crashes or
  of the policy.
* *ClaudeLogin*: weak fairness of the ten-minute limit and of the kill it
  causes; strong fairness of the waiter, who competes for the status mutex with
  `claude auth status`, which has a limit of its own. No process is assumed to
  end by itself and no user to paste a code.
* *Alerts*: time passes, the loop is a goroutine of its own, probes and posts
  have limits of seconds. Whether a post arrives is left to chance within the
  bound of failures. Nothing is assumed of the stack.

## 5. What is proved

Every theorem holds for all values of the constants that satisfy the module's
`ASSUME`s, which say no more than that bounds are numbers and inputs have their
types. Each follows from an inductive invariant with one lemma per action.

* **`BridgeProofs`**: `TypeCorrect`, `MutualExclusion`, `Durability`,
  `Revocation`, `Continuity`, `Refinement`, `PromisesKept`. `OneRunPerChat` is
  not inductive: it needs that a task in the critical section has its chat's
  lock (`LockHeld`). `AckedIsRecoverable` needs to follow the steps of `pending.Write`: a task
  that writes alone has the empty temporary open, one that renames alone finds it
  complete (`OnFile`), two that write at once are noted (`Alone`), so a task on its
  way to the acknowledgement has its message recorded, noted as unrecorded or
  contended (`Recorded`); a contended one is worked on while nothing has crashed and
  no send has failed (`Cared`).
  `RevokedNeverRuns` needs that a task beyond the policy's test belongs to a
  sender granted since the start (`Vetted`). `ContextKept` needs that the
  holder of the lock knows the session in memory (`SessionKnown`).
  `CopiesHaveCauses` counts: each answer sent, and each task that may still send
  one, is accounted for by a delivery, a crash or a send error (`Accounted`); a
  bridge that is down may start two more tasks, for the message's two files.

  The safety half of `AckedIsSettled` and `RestartDrains`: a goroutine's steps only
  bring it closer to its end and it starts once per delivery or process
  (`BoundedWork`), every held lock has a task that can go on (`NoLeakedLock`), no
  goroutine ends with its message still queued unless a send or a removal failed
  (`NothingLeftBehind`), and when none is under way every acknowledged message is
  settled (`SettledAtRest`). What is left to TLC is that enabled steps are taken.

  Two theorems say that findings 1 and 2 have no other causes than the ones given:
  `DroppedBySendError` (no pending file is removed unanswered while no send fails; it
  needs that whoever is past writing has left a file, `Traced`) and
  `LeftoverByCrash` (no file of an answered message is left while nothing crashes).
* **`ClaudeLoginProofs`**: the invariant says that a run not yet started has
  left no trace (`FutureRuns`), that the record's `cancel` and `stdin` are of the
  latest run (`PointsToLatest`), and that a finished waiter's process has ended
  (`WaitedHasEnded`). `OneSignIn`, `ActiveIsAttended`, `CodesRedacted` and
  `DoneIsVisible` follow. `SignInProgress` is the safety half of `SignInEnds`: an
  active session always has a step of its run ahead, the run has at most three and
  nobody sets it back, the last one ends the session, and no other run takes its
  place before. `OnlyOldRequestsDisturb` says that finding 3 has no other cause: every
  run but the latest has been told to stop (`RunsInTurn`), so a start request that
  cancels a run not its own outlived its own.
* **`AdminAuthProofs`**: an operation's place fits its kind, codes are accepted
  in order, a demanded secret is proven in the file and in every copy about to be
  written, and the copy of an undisturbed operation is fresh (`FreshCopies`). One
  that makes a first account found none, and there is none yet unless it was
  disturbed (`StillVacant`). `FieldsKept` also shows that finding 4 has no other cause
  than a replacement of the file between a password change's reading and writing.
* **`AccessProofs`**: `Normalize` makes canonical policies and does not change
  them again (`SavedIsEnforced` rests on this); a Store's time is not ahead of the
  file, and a read that saw the file's time saw its content; what a task took is
  among the policies it saw in force. `GateRefined` proves the refinement of
  `PolicyGate` step by step: the moment a policy is taken is the last step of
  `refreshLocked`, and what is taken then is in force then (`CachedTruth`,
  `EnvironmentTruth`, `ReadTruth`); a message never asks what only savers ask
  (`Askers`). `Enforcement` says what a policy means without the code's detour through
  its normal form: the handler admits whom the policy as it was written entitles
  (`Entitled`), numbers in whatever form, of several entries with one number the first
  one's LID. It rests on `SameMeaning`: normalising a valid policy changes how it is
  written and not whom it lets in.
* **`AlertsProofs`**: the Monitor times an incident exactly while it last saw
  one, with the true age (`Timed`); its clock of announcements is not ahead of the
  true one while nothing else was seen (`Paced`); what is being sent is what was
  last seen (`Current`). `SilenceIsShort` is the safety half of `TroubleIsTold`: a
  check that says nothing of a trouble while alerts are on has it on the channel
  already, or it was due less than a reminder interval ago; silence does not put the
  reminder off.
* **`LoginGateProofs`**: the guesses since the last lock are in the limiter's
  count or were cut off with a window that has passed (`Remembered`): at most
  `max - 1` before the cut and as many after it, hence fewer than `2 * max - 1` in
  a window. A request that goes through a lock was under way when it fell, and
  none begins while it holds (`Held`). `GrowingLocks` needs that the last lock is the
  one the limiter's count of locks stands for (`Escalated`), and that the loop which
  computes its length, one doubling more per lock, doubles or stops at the hour: an
  induction over the number of locks, by way of `Induction`.
* **`WhatsAppProofs`**: before the first `doPost` nothing has arrived, and only an
  attempt that gowa refused is repeated (`Arrival`), from which the refinement of
  `SendOnce` follows; an undisturbed sender that resolves its device has a logged-in
  one or has asked them all (`Informed`).

Only model-checked: the liveness properties `AckedIsSettled`, `RestartDrains`,
`SignInEnds` and `TroubleIsTold`. That fair steps are taken in the end involves
ENABLED, which is beyond the prover; what their proofs would say of single steps is
in the theorems named above.

## 6. Findings

1. A message whose apology cannot be sent is dropped (`handler.go:186`), though
   the pending store promises a file until a reply was sent. Run `apology_lost`;
   `DroppedBySendError` shows that nothing but a failing send does this.
2. A crash between the write and the rename of `pending.Write` leaves a `.json.tmp` that is
   replayed and answered at every start and never removed (`store.go:96`). Run
   `leftover_tmp`; `LeftoverByCrash` shows that it takes a crash.
3. The start request of a cancelled sign-in goes on polling, takes the next run's
   state for its own, and cancels that run at its deadline
   (`claudelogin.go:191`). Run `old_start_request`; `OnlyOldRequestsDisturb` shows that
   a request whose run is still the latest disturbs nobody else's.
4. A password change that overlaps the confirmation of two-factor login undoes
   it (`adminauth.go:249`). Run `two_factor_lost`.

Noted without a run:

* An acknowledged message can be lost when gowa posts it twice: the second delivery
  opens the shared `.json.tmp`, which empties it (`store.go:69`), after the first one
  has written it and before that one renames it (`store.go:72`); the first puts the
  empty file in place and acknowledges, and a crash before the second one has written
  leaves nothing to replay. `handler.go:142-145` says that the file survives, and
  `store.go:60-62` that a redelivery just overwrites it. `AckedIsRecoverable` and
  `AckedQueue` name the case (`Contended`, `risky`), and TLC finds the loss as soon as
  they do not.
* A recovery whose one message fails is never announced; reminders exist for
  trouble only (`monitor.go:88`). `ChannelInStep` excepts the case (`disturbed`).
* The status looks at the first record of gowa's list only (`admin.go:445`), the
  bridge at the first that is logged in: with a leftover record the status may say
  "logged out" while the bridge sends. A Status call that fails is shown as "logged
  out" too (`admin.go:447`, `admin.go:338`).
* The bridge's cached device is resolved again only after `DEVICE_ID_REQUIRED`
  (`client.go:71`): a Status call that fails can put a record that is not logged in
  there, and sends fail until a restart. `CalmSendSucceeds` names the case.
* A logout that names a device which has gone unlinks the first other one
  (`admin.go:655`).
* Two pairings at once may both find no device and register one each
  (`admin.go:526`); two set-ups at once may both find no account, and the last
  one stays (`auth.go:120`).
* A lock lets requests through that were under way when it fell, and an address has
  `2 * max - 2` wrong guesses in some windows, not `max - 1` (`adminauth.go:567`).
* A padded webhook URL passes the check and never works (`alerts.go:140`; the web
  page trims it).
* After a restart of the admin server a code of the current window is accepted
  again (`adminauth.go:131`), while the README says that each code works once.
* The 25 minutes after which a queued message counts as stuck allow for one run
  and its retry, not for a wait behind other messages of the same chat.

## 7. Not modelled

Media and transcription, configuration, the HTTP routing and its guard, the web
page and the scripts: none keeps state that outlives a request (see
`PROJECT.json` for each). Cryptography, formatting and
the wording of messages are outside what these properties tell apart.
