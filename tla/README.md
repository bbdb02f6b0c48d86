# chaoxing_plus: models and proofs

TLA+ models of the control logic of chaoxing_plus: a page script, an extension
shell and a Windows host that work through the chapters of a course, search and
fill in answers, and stop when they must. The models cover the protocols that
are hard to test: promises that return late, frames that share a page, service
workers that restart, storage that fails; and, in the host, documents that come
and go under a command, runs that fail half-way, processes and programs that
share files and registry values. What a text matches, how a page is scraped and
what a window looks like is data to them.

Contents: 1 inventory, 2 plan, 3 the modules, 4 the runs, 5 the proofs,
6 findings and observations, 7 what is not modelled. Paths are relative to the
repository root; `core/`, `runtime/`, `projects/` and the extension files are
under `src/`, the C files under `windows/native-source/`.

    tlc -workers 2 -config Worker.cfg MCWorker
    tlapm WorkerProofs.tla

## 1 Inventory

### Page side

| part | state it keeps | operations | talks to |
|---|---|---|---|
| **Answer worker** `core/worker/worker.ts`, `question.resolver.ts` | isStop, isClose, isRunning; per question searching, requested, resolved; a shared nextIndex | doWork, stop, continuate, close; request threads, one resolver | answerers, page handlers, listeners of done/settled |
| **Tab answer pause** `extension-tab-pause.js`, `extension-entry.js`, `projects/tab-answer-pause.ts` | worker: values, durability, a queue per tab; `storage.session`; per frame: the shown pause, ready, pending requests | read, write, onRemoved; setPaused, hydrate, pageshow, canReload | frames over runtime messages; answer worker (gate before a search) |
| **Chapter confirmation** `projects/cx-chapter-confirmation.ts`, `cx-chapter-dialog.ts` | a lease registry on every window; per session: leases, initial popups, the bound popup | create, find, current, clear, release | the submission flow of `cx.ts`, the popups of the course site |
| **Deferred chapters** `projects/cx-deferred-chapters.ts` | a ledger per chapter: phase, inspected tabs, tasks with attempts, missing, pause | record, inspect, choose, attempt, result, missing | `study()` of `cx.ts` |
| **Course session** `projects/cx-course-session.ts` | scope, decision, accepted tasks, an open question; `sessionStorage` and attributes of the root | requestDecision, resumeDecision, synchronizeScope, save; a remote client in child frames | dialogs, `cx.ts`, other frames by postMessage |
| Deferred course, study router, balance recovery, answer run scope, requests, task poller, submission monitor, content recovery, runtime store, dialog bridge, retry cache, panels | see section 7 | | |

### Native side (`windows/native-source/`)

| part | state it keeps | operations | talks to |
|---|---|---|---|
| **Injection session** `session.c`, `host-session.inc`, `host-config.inc`, `host.c` | per page: a table of execution contexts with what each has been given, is queued for and has in flight; the frames; settings in force | feed an event, next task, complete, update the settings, ensure the top frame; send, wait for a reply | a browser over a WebSocket; the configuration file |
| **Host run** `host.c`, `elevation.c` | the process, its step, handles and flags of `h_run`; a helper file beside the client; log, report and configuration file | choose, launch, watch, repeat with the helper, hand over to an administrator restart, undo | the client, Windows, the injection sessions |
| **Home window** `home.c` | session slots, the list and its cursor, one operation of a worker thread, dialogs | open, close, check for an extension, poll, run an examination, exit | browser sessions, settings, account window |
| **Browser session** `browser-session.c` | a job of processes, a debugging pipe, a profile directory | start with its eight commands, poll, close, remove the profile | the browser, which answers late, never, or is closed |
| **Options** `options.c` with `home.c`, `host.c` | four layers of settings | parse, merge, finalize; the dialog | configuration file |
| **Configuration store** `config-store.c` | a file, temporary files | read, merge, write, flush, move | other hosts, other programs |
| **Discovery** `discovery.c`, `discovery-cache.inc` | a list of clients, a cache file | search the usual places, then the disk; use or write the cache | the disk |
| **Client list** `selection.c`, `host.c` | the list, the choice with its mode and carrier, a window of a full scan with a thread of its own | show, choose, scan, cancel | discovery, the user |
| **Owned processes** `process.c` | a table of launched clients and of the descendants seen | launch, owner of a port, stop, alive | Windows, which uses numbers again |
| **Display override** `dpi.c` | a registry value, a mutex | begin, restore | other hosts, other writers |
| **Extension packages** `adapter-account.c`, `home.c` | one cached package with its header | check for the latest, fetch, verify, repair | services, other hosts |
| **Account window** `account-window.c`, `adapter-account.c` | fields, a picture to answer, one worker thread | draw a picture, sign in, check a key | services |
| Network, assets, audit, diagnostics, JSON, launchers, concealment | see section 7 | | |

### How the parts interact, and where it is hard

1. `study()` asks the **course session** for a decision, then runs jobs, one at a
   time, each of which may start an **answer worker**; failures go to the
   **deferred ledger**. Several `study()` turns may be active in a page, because
   a continue starts a new one while an old one still awaits a job. *Hard:*
   results that return to a ledger that another turn has moved on
   (`cx-deferred-chapters.ts:137`), reservations that are given back twice.
2. A **worker** interleaves its request threads and the resolver at every await;
   stop, continuate and close come from listeners at any of them. *Hard:* answers
   complete in another order than they are applied; a timed-out search answers
   later; a callback that throws ends the round for the listeners only.
3. The **tab pause** is one bit replicated in the service worker's memory, in
   session storage and in every frame of the tab, with three kinds of messages
   back (receipt, broadcast, hydration). *Hard:* restarts, failed reads and
   writes, closing a tab with work queued, an answer older than the user's click.
4. A **confirmation** popup may appear in a parent page shared by several task
   frames. *Hard:* which frame does it belong to, and does that stay decided when
   one of the frames navigates or releases its session?
5. The **course session** waits for a human while the page moves to another
   course or is reloaded. *Hard:* late answers to a dialog of a course that was
   left, queued requests, an acceptance left in storage.
6. An **injection session** has one thread: while it waits for the reply to one
   command it handles the events that arrive before it, so the document a task
   is for may be gone, replaced or told anew when the reply comes, and an
   identifier may be another document's by then. *Hard:* crediting a result to
   the document that produced it; leaving nothing marked in flight.
7. A **host run** leaves by one exit path from every step, and may end in a
   second process with administrator rights while the first one waits. *Hard:*
   who ends the client, who removes the helper, who deletes the configuration.
8. The **home window** handles its messages while a worker thread opens and
   closes **browsers** that end by themselves. *Hard:* a session that was opened
   while the window exits, a list that changes under a selection.
9. Files and registry values are shared by **several hosts** and others. *Hard:*
   a value that changed between reading and writing it, a cache that is older
   than the disk, a temporary file after a failure.

What makes each part correct is stated by the properties of section 3; the
hazards, each with its line, are listed under `hazards` in `PROJECT.json`.

## 2 Plan

Order: most consequential protocol first. All of it is done except where noted.

| # | module | of | composed with | state |
|---|---|---|---|---|
| 1 | `Worker`, abstract `AnswerPipeline` | worker, resolver | refines AnswerPipeline | proved |
| 2 | `TabPause` | tab pause | | proved |
| 3 | `ChapterConfirmation` | lease registries | | proved |
| 4 | `DeferredChapters` | ledger, study() | | proved |
| 5 | `CourseSession` | consent | | proved but for liveness and refusals |
| 6 | `HostSession` | a page of the host with its browser | session, loop, WebSocket, browser | proved but for liveness |
| 7 | `HostRun` | a run from start to exit | processes, helper, restart | proved |
| 8 | `Home` | home window | extends `BrowserSession` | proved |
| 9 | `Options`, `HomeSettings` | layers of settings, the dialog | HomeSettings extends Options; over `Layers` | proved |
| 10 | `OwnedProcesses`, `DpiOverride`, `Discovery`, `ClientPicker`, `ConfigStore`, `ExtensionStore`, `AccountWindow` | parts with no state in common | one module, `Parts` | proved |
| 11 | remote client of the course session, answer run scope with balance recovery, requests with task poller, course routing | page side | Worker, CourseSession, TabPause | not done |

Parts 9 and 10 share no state with each other, so their product would show
nothing that they do not show alone. `Parts` instantiates all of them and lets
each behaviour be a behaviour of one; `MCParts` gives it small constants, and
`PartsProofs` proves about it for all of them.

## 3 The modules

`PROJECT.json` maps every definition to the lines it stands for. An MC module
only gives constants their values. A definition commented "Defect" is a wrong
version of the one it stands beside, used to show that a property can fail.

### Worker, AnswerPipeline

Each await of `worker.ts` is a label. A thread goes claim → (paused) → before →
authorizing → (paused) → announce → searching → answered → reporting; between
two labels the code is synchronous, and so is the action. `waitForTask`
(worker.ts:59-89) appears as three ways out of an await: the task's result, the
time limit (searches only), and the abort when the worker was closed. A search
that timed out stays in `late` and may answer at any later time. The resolver
waits for the request of its question, applies options through the gate of
`question.resolver.ts:51-54`, writes the result and reports. `slips` and
`searchSlips` count, for the properties only, what is started after a halt.
Stop, continuate and close are emitted at any time, any number of times.

- `InOrder`: a question is resolved after its own request and after every
  earlier question, although requests complete in any order.
- `ApplicationsBounded`: after a stop or close one option already past its gate
  may still be clicked, and each thread may start one search; no second one.
- `DoneIsComplete`: `done` without a close means that every question was
  requested and resolved.
- `ImplementsPipeline`: until a callback throws, every step of the worker is one
  of AnswerPipeline, where each question is searched, completed and resolved
  once and in that order.
- `RoundEnds`: see fairness below.
- Proved and not run: `ClaimedOnce` (two threads never work on one question),
  `NoPublishAfterClose`, `LateAnswerIgnored`, `SettledIsFinal`.

*Fairness.* `ProgramFairness` is weak fairness of every step the program itself
takes: a continuation that is due, and timers (`setInterval` polls of
worker.ts:439, the time limit of a search). No fairness is given to the page's
handlers, to the authorisation by the human or to the answerer; they may never
return. `RoundEnds` assumes, in the formula itself, that page handlers and
authorisation return and that the worker is from some point on not stopped; the
answerer may still never answer, since searches time out.

### TabPause

One tab, its frames, the service worker and `storage.session`. The worker
serves the requests of a tab one at a time; `step` is the storage call it
awaits. Messages to a frame arrive in the order they were sent, and a frame's
`inbox` is dropped when it loads a new document. A document may go into the
back-forward cache at any moment (`Freeze`), whatever it waits for: answers wait,
broadcasts pass it by (`Miss`), and when it comes back it shows itself paused and
asks again with a timer of its own (`Restore`). Faults: a storage call that fails
(get, set and remove), a `sendMessage` that throws, in the page or in the worker,
or a `respond` that does, both of which end in the handler's `.catch` (`Catch`);
the hydration timer of 2 s; a restart in any state of the tab, which clears the
worker's memory with a clean-up that waits, and closes the ports of the requests
under way (their senders see an unanswered receipt).

- `Converged`: when nothing is under way, every frame on show that claims to be
  backed by the extension shows what the worker knows and what is stored, also
  after a late answer to a read has replaced what the user set. Exempt until the
  next broadcast (`strayed`) is what follows a restart that hit a write
  (extension-tab-pause.js:55-57: the code has no recovery there), a read that
  failed, or a handler that threw.
- `LastChoiceStands`: then the state of the tab is also the last choice made in
  any of its pages, whatever failed to be stored or told. `choice` is given up
  where the code loses it: the worker stops with a write in its queue or with a
  value it could not store, or it reads and fails.
- `NothingLeftOver`: what an open page counts as pending is in the worker's hands
  or its answer is on its way back, so that no page is kept from reloading for
  ever (`PendingUnderWay`); and the worker that saw the tab removed holds nothing
  of it after the clean-up, whatever request was in progress or comes late, and
  nothing stays stored unless `session.remove` failed (`RemovedLeavesNothing`,
  section 6).

Left out: browsers without `storage.session`, a `respond` that throws again in
the `.catch`, ports the browser closes when it caches a page, more than one tab
(queues and keys are per tab and independent).

### ChapterConfirmation

Windows with documents (numbered by navigation), the registry on a window (it
may survive the navigation of a fresh frame), sessions with their leases. A
popup may appear and vanish in any window at any time; the text by which it is
recognised is abstracted to its presence. `overlap` and `raisedUnder` are
history for the property.

- `ClicksItsOwn`: a confirmation that may be submitted is watched by one session
  only; once two sessions watched a page neither may submit what it shows, even
  after the other released; and a confirmation in a shared parent page counts
  only if it appeared while this session alone watched the page.

### DeferredChapters

The ledger and the part of `study()` that drives it. A turn scans the active
tab's ordinary jobs, records failures, inspects, then retries the deferred tasks
in order; it awaits a job at `ordinary` and `attempt`, and meanwhile other turns
run, tabs switch and the user continues. The course-wide router appears through
the outcomes `study()` reacts to.

- `AbandonedForReason`: a task is given up because it expired, its attempts are
  used up or it was missing too often.
- `AttemptsCovered`: however turns interleave, a task counts at least as many
  attempts as there are turns in the middle of one.
- `TerminalIsFinal`: no late result revives or rewrites a finished or abandoned
  task. (It follows that a job finished by a second turn after the first gave it
  up stays abandoned, cx.ts:3893; the code says so by cx-deferred-chapters.ts:137.)
- Proved and not run: `SettledHasNoDeferred`.

### CourseSession

The root document's session as one record, what the stores hold for each course,
and the callers of `requestManualDecision`. `Entered` is synchronizeScope's
change of course, `Saved` is save() with its storage modes (ok, full: writes
throw, denied: everything throws, off: no disk writes), `Synced` both with the
save the attribute observer makes. A question carries the generation it was
asked in; `Settle` is the callback of the race between its dialog and an
override. Callers give the course and the task, or neither (cx.ts:2372).

- `ConsentNeeded`: nobody is told to go on without consent of the human to that
  task, or to the course, in that course. Exempt once a write failed (`lost`).
- `DeclineSticks`: a course that was refused is not asked about again until the
  human resumes, across moves and reloads.
- `OneQuestion`: one question per visit, open only during that visit.
- `RequestsEnd`: every request is answered. *Fairness:* promise callbacks run,
  and a dialog is answered: its countdown accepts after five seconds by default;
  with the countdown off this assumes that the human answers.

### HostSession

A page of the host with both ends of its WebSocket. `session` is `CX_SESSION`:
a slot per execution context (0 is the fallback of a browser that reports none)
with `used`, `generation`, what is `queued`, the `token` of a task in flight,
`bootstrapped` and `bundled`. `at` is where `h_session_loop` stands: reading up
to 64 events, asking `cx_session_next` for tasks, or in a task. In a task `Send`
gives an evaluation to the browser and `Wait` takes what arrives before its
reply into the session, so a task is completed (`cx_session_complete`) in a
table that may have changed under it; the token and the generation of the slot
decide whether the result counts. Serial numbers wrap at `Width`. The browser
executes orders, replaces documents, removes frames with the frames below them,
uses identifiers again and announces all of it. A detached frame takes with it
the frames below that the table names, as the parents the host knows lead to
them; the rest the browser reports itself; a command that timed out stays in `orders` and its reply
comes as one nobody waits for. Changes of the configuration file raise the
version; a lost connection is opened again from nothing.

- `TableSound`: a task is marked in flight only in the slot the host is
  carrying it out for, so that no context is kept from further tasks for ever;
  and the counter of contexts counts the table.
- `CreditIsDue`: when everything sent has been heard, a slot that counts as
  bootstrapped, or as bundled, is a document that is, whatever navigated or took
  its identifier meanwhile.
- `BundleRunsOnce`: a document evaluates the bundle again only after an
  evaluation that threw, also after a lost reply, a second attempt or a
  reconnection. A bundle that throws midway has run in part, has not set its
  mark, and is evaluated again (section 6).
- `SettingsReach`: a bootstrapped context shows the settings in force, is queued
  to be told, or its delivery failed.
- `TopGetsBundle`: without faults and with the extension enabled throughout, the
  top document gets the bundle. *Fairness* (`ProgramFairness`): the host's loop
  goes on, the browser carries out what it is sent and finishes loading, the
  timer runs. Reading an event and ending the reading need strong fairness,
  because the loop stops reading after 64 messages and looks at its tasks, which
  disables them again and again.

### HostRun

`run` is the record of `host.c`'s globals a run starts with, `at` the call it is
at, `host` the first process or its administrator restart. `client`, `beside`
(the DLL under the carrier's name, the one under another carrier's, and the one
marker of the directory with the carrier it names), `layer` (display setting),
`files` and `config` are what the run may leave behind. Every call may fail: a
helper that cannot be written to its end is deleted with what lay there before,
or a part of it stays; one that Windows will not delete stays with its marker
(access denied) or without it (another error). `reason` is a history of these.
The user may close the
client between any two steps and, in the home window, start another run. The
configurations are all modes, clients and things lying beside the client that
the options accept.

- `HelperLeftForAReason`: a helper the host put there stays, once the run is
  over, only for one of these reasons since it was last installed: it or its
  marker could not be written, the client that has loaded it outlived the run,
  or its deletion failed. One that is left for a client keeps its marker,
  without which nothing would ever remove it.
- `FailedLeavesNothing`: a run that failed leaves no running client of its own.
- `HandsOverOnce`: consent is asked for once a run, and `--delete-config`
  deletes the file once the last process is over, and not before the process it
  is handed over to can read it.
- `TouchesOnlyItsOwn`: without a marker in the directory no file beside the
  client is replaced or deleted; under another carrier's name only the file that
  the marker names; and only a client the run launched is ended. It does not say
  that a third party's file is safe: where a marker lies, it is not (section 6).
- `RunEnds`: every run comes back to the home window or to the end. *Fairness:*
  weak fairness of the host's own steps. Waits for programs have a time limit;
  for the picker, the consent prompt and a watch without `--duration` it assumes
  that the user answers, and closes the client, in the end.
- `NoElevateObeyed`: finding 2.

### BrowserSession, Home

`BrowserSession` is a browser in a job with its pipe and profile directory. A
start sends eight commands, each when the one before was answered; the browser
answers late, never, or is closed by its user, and a child process may outlive
the main one. `Home` adds the slots, the list with its cursor, the dialogs and
the one operation of the worker thread, which reports by a posted message that
the window handles later. Poll and refresh are part of the timer's handler.

- `SessionsHeld`: a browser that runs is in a slot or in the hands of the
  worker, none is left when the window is gone; nothing refers to a session that
  was destroyed; the directory of a profile stays while a process uses it.
- `SettingsAsAsked`: a session starts with the settings it was asked for with
  and shows no page before its extension has them.
- `SelectionKept`: when the list is filled again the selection stays with its
  session.
- `ExitEnds`: an exit that was asked for during any operation is carried out or
  given up with the reason shown. *Fairness:* the worker thread and the message
  loop; commands to a browser have time limits.

### Options, HomeSettings, Layers

A layer is a function on the fields it sets, and one is laid over another by
`++` of `Layers`; `DocumentLayer` is
`cx_options_apply_json_utf8` with the fields that follow from others, `Merge` is
`cx_options_merge`, `Finalize` checks and completes. `HomeSettings` adds the
settings dialog and what an examination or a session is started with.
Property `SettingsObeyed`: a client chosen by an argument wins over any file;
a page setting that is an option is not also carried verbatim; an examination
keeps the promise not to write to disk that the dialog shows; and saving the
dialog with nothing but a theme picked changes nothing but the theme. (The first
dialog selects no theme, whatever the options say, and cannot be saved without
one: `home.c:702-705, 616-621`.)

### The stand-alone parts, Parts and MCParts

| module | what it models | property of the run |
|---|---|---|
| `OwnedProcesses` | births and deaths of processes with numbers used again; launch, adoption of children from a snapshot, verification of a listener, stop | `OwnProcesses`: only descendants of a launch are ended for it, a verified listener descends from it (both but for a process that took a number within the scan that adopted it, and what was found through it), and "alive" is about the client that was launched |
| `DpiOverride` | two hosts and others writing one registry value, a mutex that may be abandoned, restore after reading again, reads and writes that fail | `DpiKept`: the setting is in effect in a launch, and afterwards the value is what everyone but the hosts wants, unless a host died or could not read or write it back |
| `Discovery` | the shallow walk, the full walk, the cache with its checks, while the disk changes | `NoClientMissed`, `CachedListTrue`: an undisturbed search lists all that run here; a list from the cache is complete and true |
| `ClientPicker` | list, mode and carrier by what a client can do, the full scan and its window | `ChoiceIsTheUsers`: what is launched supports the chosen way, and only the user cancels a search |
| `ConfigStore` | read, merge, write, flush and move by two hosts and a reader | `SettingsSurvive`: settings nobody changes survive, no temporary file is left |
| `ExtensionStore` | a cached package shared by hosts that are set to different services | `PackageIsOurs`: the package used is sound, of the right service and as fresh as asked for; a damaged one is replaced |
| `AccountWindow` | fields copied by a worker thread, a picture and its token, the window closed meanwhile | `AnswersTheAsker`: a password goes to the service that drew the picture, a key belongs to the address it is saved with |

`Parts` holds them and `HomeSettings`, one in each behaviour, and states these
properties of it. `FileStaysWhole` is about the steps of `ConfigStore`: a writer
that fails, ends or is overtaken between two of them leaves the configuration
file as it was or a whole one in its place.

## 4 The runs

| run | instance | what it shows |
|---|---|---|
| `worker` | 2 threads, 2 questions, up to 2 options, throwing callbacks, fair | order, bounded slips, refinement, end of the round |
| `tab_pause` | page and frame, 2 sets (calls or returns from the cache), 3 loads, 1 restart, 1 fault | agreement of the replicas, the last choice, a removed tab, nothing left over |
| `chapter_confirmation` | 2 frames under a page, 2 documents each | confirmations are submitted by their own session |
| `deferred_chapters` | 2 turns, tests in 2 tabs, 2 attempts, 1 visit without the job (3 in the code; `ChapterProofs` has any number) | the ledger under interleaved turns |
| `course_session` | 2 courses and none, 1 task, 2 callers, 1 move or reload, fair | consent, refusal, every request answered |
| `host_session` | 2 frames, 2 slots, 2 identifiers used again at once, serials that wrap at 3, 2 attempts, 2 troubles | credit, tokens, bundles, settings |
| `host_session_live` | 3 identifiers not used again at once, 1 trouble, fair | the top document gets the bundle |
| `host_run` | every accepted configuration of `MCHostRun`, 2 runs, 2 faults, fair | what a run leaves behind; that it ends |
| `host_run_no_elevate` | same | violation: finding 2 |
| `home` | 2 sessions, 2 settings, 2 slots, 1 trouble, fair | sessions are held, exit ends |
| `native_parts` | the constants in `MCParts` | the stand-alone parts and the options |
| `picker_cancel` | 3 clients that differ in what they can do, 2 scans | violation: finding 1 |

Why the bounds suffice for the questions asked. Every property is about at most
two competitors: two threads claim, two sessions overlap, two turns hold a task,
two callers ask, two hosts share a file, two documents want an identifier. Two
questions distinguish "own" from "earlier"; two options distinguish the one that
may slip from the next. In TabPause two sets give an older and a newer intent,
three loads give one frame a second document, and one restart or fault puts the
interesting failure at every place. One move reaches another course or a reload
with a question open. In HostSession two frames fill a table of two, a third
document must evict or be refused, and two troubles are a failure and the
navigation that follows it; a serial that wraps at 3 comes round within a task.
Two faults of a run are a failure and one in its clean-up. What the proofs cover
holds for all values. Deadlock is checked except where the bounded system stops
by itself (`CHECK_DEADLOCK FALSE`): when sets, loads, moves, births, changes or
faults are used up, or a window is closed.

Bounds named in the modules: `MaxOptions`; `MaxSets`, `MaxLoads`, `MaxRestarts`,
`MaxFaults`; `MaxDoc`; `MaxMoves`; `MaxTrouble`, `MaxTroubles`;
`MaxRuns`; `MaxTime`, `MaxWrites`, `MaxChanges`, `MaxErrors`, `MaxScans`,
`MaxChallenges`, `MaxArguments`. `MaxAttempts`, `MaxMissing`, `MaxContexts`,
`MaxSeen` and `MaxFound` are limits of the program, not bounds. `mutants` in
`PROJECT.json` gives for every property a plausible wrong version of a
definition that breaks it.

## 5 The proofs

All are for every value of the constants, from the ASSUME of the module (sizes
are naturals, attempts and missing limits positive, windows above a window are
windows, slots are numbered from 1 and finitely many, configurations that the
options accept). tlapm checks them with SMT,
Zenon and, for the temporal step, LS4.

- **WorkerProofs.** `IInv` is the type invariant with: questions belong to one
  thread from claim to request (`OwnsQuestion`); the resolver has resolved
  exactly the questions before its cursor and stands at a requested one
  (`ResolvedPrefix`), which InOrder alone does not say and the next step needs;
  a spent slip leaves no label from which a second follows (`SlipsSpent`); the
  phases of a run (`RunPhases`). From it: `WorkerInOrder`, `WorkerClaimedOnce`,
  `WorkerHaltBounded`, `WorkerDoneIsComplete`, `WorkerNoPublishAfterClose`,
  `WorkerLateAnswerIgnored`, `WorkerImplementsPipeline`; and, assuming that
  callbacks do not throw, `WorkerSettledIsFinal` and `WorkerRefinesPipeline`.
- **TabPauseProofs.** For any frames, documents, calls, restarts and faults.
  `OnItsWay` is why the frames converge: a frame either waits for the worker
  (`Asked`), or its newest message, or without one what it shows, is right or is
  not called durable (`Coming`). A step of the worker keeps it because a write is
  told to every document and a read to the one that asked, and because a restart
  ends in an unanswered message for each request it loses. That a frame without
  pending requests may believe a broadcast needs `PendingUnderWay`: an ignored
  broadcast leaves a write in the queue. The requests are counted by the lemmas
  on `Count` (concatenation, the first element, a lost prefix), by bijections of
  finite sets. `ChoiceAhead` says where the last choice is: it is the last write
  of the queue, or all that waits are reads and it is the state of the tab.
  `FramesConverge`, `ChoiceStands`, `NothingIsLeft`.
- **ChapterProofs.** Of `ChapterConfirmation`: leases are of past or present documents;
  leases of one registry are both ambiguous, and stay so; a visible popup of a
  shared page was raised under exactly the sessions still watching it. The last
  part is why a late session cannot take a popup over. `ConfirmationIsOwn`.
  Of `DeferredChapters`: each operation is shown to make a sound entry of a
  sound entry and to keep terminal ones (`Follows`), and to defer nothing anew
  (`Closes`); actions are choices of operations. `LedgerCovers` adds a count of
  the turns in an attempt, by finite cardinalities.
- **CourseSessionProofs.** `IInv`: while no write has failed, everything shown,
  remembered, stored or answered as accepted is backed by consent; an open
  question is of the present visit and is saved as pending, so that a refusal
  finds no older acceptance in any store. Gives `SessionConsents`,
  `SessionAsksOnce`, `SessionTypes`. `Refusals` follows what is kept of a refusal:
  wherever a refused course is entered from, memory or storage, it says declined
  or pending, which is restored as declined (`KeptDeclined`); while it is shown
  it is declined, or its question waits for its callback (`Here`); no question
  accepted is of a refused course, and storage is read as long as nothing was
  lost (`Reads`). From it `SessionDeclineSticks`: only `Asking` opens a question,
  and `Here` leaves it no refused course.
- **HostRunProofs.** `IInv` adds to the types: a run holds a handle exactly
  while it may have a client, and a failed one has none left when it reports
  (`HandleHeld`); what is known of the helper and of whoever has it open at each
  place of the exit path (`HelperHeld`, with `Installed`: what the run has put
  there is untouched until the exit path comes to it); a restart is asked for only by the
  first process and only once a run (`OneRestart`); the configuration file is
  there until the process that is to delete it has read it (`ConfigHeld`, which
  needs that the home window is never shown with `--delete-config`). From it
  `HostRunHelper`, `HostRunFailure`, `HostRunHandover`, `HostRunTouches`. Steps
  that only choose the next place are proved through lemmas about single
  updates of `run`.

- **HostSessionProofs.** The functions of `session.c` are operators on a session,
  and each has a lemma: it keeps the table well formed (`Good`: an identifier
  names one used slot, an unused slot has nothing in flight, the counter is the
  number of used slots) and marks nothing new as in flight (`Keeps`). Only
  `cx_session_next` does, for the task it gives. `IInv` adds that what is in
  flight is the task under way, with its generation (`Backed`), so that an event
  dispatched under a task can only end the task's claim to its slot, never leave
  a token behind; and that a task is at one of its commands. From it
  `HostSessionTypeCorrect`, `HostSessionTable`, `HostSessionOneSlotEach` and
  `HostSessionRunsOnce`.
  `Traced` relates the table to the other end, for any queue of events and
  orders between them. An entry is of the document its frame shows, unless an
  event that drops it is on the wire (`Found`); that it is bootstrapped or has the
  bundle is so, unless an event that takes this back is (`Credit`), and so is what
  the steps of the task under way have done (`Underway`). A bootstrapped context
  that was not missed is queued, in a task, or shows the settings with no order
  on its way that changes them (`Informed`). A command that is waited for is the
  last order, and its reply the last one due (`Numbered`): so an entry whose claims
  survived the events before the reply is of the document the command ran in.
  The proof has a lemma for each event that is read and each order that is
  carried out. From it
  `HostSessionTraced`, `HostSessionCreditIsDue`, `HostSessionSettingsReach`.

- **HomeProofs.** For any number of sessions and slots. `Held` says that the open
  sessions are exactly those that a slot, the function under way or the finished
  operation has, each slot its own. That it survives a step needs what each
  party relies on: the function under way (`CallSound`: a start works on a
  session no slot has, a close on the one of its operation's slot) and the
  operation (`WorkSound`: one that opens keeps an empty slot and the settings it
  was asked with; one that ends the window has every session before it; none
  runs while a dialog is open). `Sound` follows one browser: the page is not
  asked for before the settings were confirmed, because what is left in the pipe
  of earlier answers cannot confirm them. From these `NoneLost` and
  `SettingsKept`. `SelectionStays` also needs that the list `home_refresh_list`
  builds exists and leaves no taken slot out: `Enumerable` and `IncreasingAll`,
  by well-founded induction on finite sets and by counting.

- **PartsProofs.** `PartsMove`: a step of `Parts` is a step of its part. Each
  part then has an inductive invariant of its own.
  `FileInv` (`ConfigStore`): the file, the temporary file of a host past its
  write and what a host has read keep every setting that no write so far
  changes, and a temporary file is there exactly between creation and move.
  `AccountInv` (`AccountWindow`): the worker works on a copy of the text it was
  started with, and a login answers a picture of the service it asks.
  `PackageInv` (`ExtensionStore`): every file at the cache's place is what its
  header says, and what a host holds is of its service and no older than the
  release it saw published when it forced an online check. `DpiInv` (`DpiOverride`): only the owner of the mutex is
  at work, and unless a host died in between, the value is the one all others
  want, or the owner knows which it replaced. `PickerInv` (`ClientPicker`): the
  window offers what its client supports, and every request to cancel comes from
  the button. `ProcInv` (`OwnedProcesses`): an entry of the table knows
  when its process ends; if it is the process the list meant (`listed`), it and
  its children belong to the launch, and what is about to be ended does. `SearchInv` (`Discovery`): the walk has listed all it
  passed, what it lists was there, and a cached list knows all usual places.
  `SettingsInv` (`Options`, `HomeSettings`): a layer sets only fields of the options,
  carries none of them verbatim, and was asked for its window no later than it
  counts layers (so that a path among the arguments is not overruled by a window
  that a file asks for); the arguments are one layer when files are read; options
  that promise not to write do not log; and no setting of the window brings a log
  back. The lemmas on `++`, `Restrict` and `Typed` give what each merge sets.
  From these the nine properties of the run that are invariants, and `PartsFileStaysWhole`.

What these rest on. `PartsAssumption`: the numbers that stand for no one are not
hosts, processes or services; processes and lists are finite; bounds are natural.
`SettingsAssumption`: an argument sets fields of the options, as every branch of
`cx_options_parse_cli` does, and `log` is a Boolean (`cx_json_bool`).

Model-checked only: the liveness properties (`RoundEnds`, `RequestsEnd`,
`TopGetsBundle`, `RunEnds`, `ExitEnds`), for fairness is beyond the prover.
Every other property of a passing run is a theorem.

## 6 Findings and observations

1. `host.c:2409`: a full scan that is cancelled after an earlier one was
   completed leaves an empty list, although the notice says the candidates are
   kept (`picker_cancel`).
2. `host.c:1392`: the pipe mode asks for an administrator restart although
   `--no-elevate` forbids it (`host_run_no_elevate`), against the help text.

The quoted lines are in `PROJECT.json`. What follows was seen while modelling
and is not a run; the properties above exempt it where they say so, or it lies
outside what they state.

Page side:

- `worker.ts:37`: a throwing onResultsUpdate makes `settled` come while the
  other threads go on.
- `extension-entry.js:85`: a late answer to a read replaces the user's newer
  pause until the receipt of that write comes.
- `extension-tab-pause.js:17, 65`: a failed read, and one whose answer throws,
  counts as "not paused".
- `extension-tab-pause.js:81`: a `session.remove` that fails, or a worker stopped
  between `onRemoved` and its clean-up, leaves the key of the closed tab in
  storage until the browser's session ends.
- `cx-course-session.ts:228`: a refusal that cannot be written leaves the
  acceptance written before it, which a new document restores.

Options and settings:

- A layer that memory mode forbids to write and one that names a log are told
  apart by the layer only (`options.c:1123, 1175` against `1142, 1199`; compare
  `docs/windows.md:134`).
- Settings of an examination are applied to options that were finalized before
  (`home.c:896-918`, `options.c:161-165`). A `deleteSuspend` of a lower layer
  survives an execution mode on the command line. A setting given twice is taken
  first by the options and last by the configuration store.
- Two hosts that write the configuration file lose one update.
- The dialog ignores `--panel-theme`: without the setting it selects no theme
  (`home.c:702-705`), and refuses to save until one is picked (`616-621`).

Runs and processes:

- The value given back by the display override is the one of the launch: a host
  that dies in between leaves the temporary one, and so does one that cannot read
  the value when it restores it (`dpi.c:132`): the call ends and is not repeated.
- `h_install_proxy` (about `host.c:923`) tries a second carrier that it never
  switches to. The repetition with the helper forgets the first client's handle,
  and starts again a client that its user closed before there was an endpoint.
  A helper that lay there before is removed by the repetition's clean-up.
- A DLL of a third party under the carrier's name is overwritten and later
  deleted when a marker for another carrier lies in the directory: the marker is
  not read where it counts (`host.c:808-815`, `971`; compare the comment at
  `host.c:945`). A write that fails deletes such a file too (`838-843`).
- When the helper cannot be deleted for another reason than access denied,
  `h_uninstall_proxy` deletes the marker all the same (`host.c:1096`), and a later
  `--uninstall-proxy` refuses to touch the file.
- A bundle that throws midway is evaluated again in the same document, by the
  other strategy and by the retries: its mark is set at its end
  (`host-session.inc:168-169`, `host.c:2146-2163`).
- A run that succeeds and does not stop its client leaves the helper and its
  slot in the table of launches; after 16 of them launching fails.
- When the restart through UAC is refused, `--delete-config` deletes nothing.
- Within one scan a number given away between the snapshot and its use is taken
  for the child it was (`process.c:146-166`): the process that has it now is
  adopted, verified as the owner of the port and ended with the launch.
  `OwnProcesses` exempts these entries by their history (`listed`); without the
  exemption the run finds the case.

Home, account, packages, discovery:

- The poll may wait ten seconds for a browser's clean-up and blocks the window;
  directories that could not be removed stay. `cx_browser_read_settings` leaves
  the target it opened.
- A login that is discarded by closing the window may have made a token; the
  password stays in the window's memory until it is drawn again.
- The cache of packages has no age (compare the message at `home.c:944`).
- A page that was bootstrapped as disabled and loads longer than the host's
  timer does not get the bundle when the extension is enabled.
- For five minutes a client that was locked or new at the search is missing.
- The end of a full scan gives up a window that does not close within five
  seconds and frees what it uses.

## 7 Not modelled

Page side. What is left out meets the modelled parts only through calls and
outcomes that those already allow at any time.

- `CustomOCSWorker` (worker.ts:345-437): another page flow over the same worker.
- The remote client of the course session: a caller that gives up waiting.
- Balance recovery and answer run scope: they stop, continue and close workers,
  which Worker allows at any time.
- Requests, task poller and answer wrapper: one external answer to a search.
- Course-wide routing, study router, submission monitor, content recovery:
  mostly the reading of pages; the outcomes appear in DeferredChapters.
- Runtime store, dialog bridge, retry cache, debug log, panels, configuration.
- The matching of answers, dialogs and page elements is data.

Native side.

- `net.c`, `json.c`, `assets.c`, `browser-extension.c`: transport and formats; a
  message arrives whole or not at all in the models.
- `audit.c`, `diagnostics.c`, logs and reports: no state anyone decides by.
- The launchers, the proxy library, and the modes that hide, suspend or delete
  the program: no protocol of several actors is checked here.
- The former Node host, build, packaging and tests; the tests were read as
  documentation.
