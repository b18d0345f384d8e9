# UN260: a TLA+ model of the banknote counter's panel

The program under `src/` is the touch panel of a banknote counter: an LVGL user
interface in C that talks to the counter's controller over a serial line
(UART4), forwards a second line (UART5) to it, and keeps a history of what was
counted. The controller counts; the panel asks, listens, shows and saves. This
directory holds TLA+ modules of the panel's own logic, configurations that
check them with TLC, and proofs that TLAPS checks. Paths below are relative to
`src/un260/` unless they begin with `src/`.

## 1. Inventory

### Threads

`src/main.c` runs one loop: LVGL (timers and touches), then at most 64 received
frames, then the polls (user interface, counting, boot). The receive thread
reads UART4 and fills the frame queue. The bridge thread copies UART5 to UART4.
A recording thread writes screen recordings. Everything except those threads
is sequential; what makes it hard is that the controller answers late, twice,
out of order or never, that replies carry no number, and that one command is
used for two purposes.

### Components

| Component | State | Operations | Meets | Correct when |
|---|---|---|---|---|
| frame queue (`protocol/protocol_frame_queue.c`) | 256 slots, two cursors, a counter | push, pop, clear, count | receive thread, loop | it is a bounded FIFO queue |
| frame parser (`protocol/protocol_frame_parser.c`, `protocol_frame.c`) | stored bytes, bytes expected | init, reset, feed | receive thread | it delivers exactly what arrived, and finds the next header again |
| serial runtime (`app_service/app_serial_runtime.c`, `protocol/protocol_rx_service.c`, `lv_drivers/uart_bridge_service.c`, `lv_drivers/uart_io.c`) | three descriptors, two threads with their flags, the transmit mutex | start, stop, send, the two thread loops | all | no thread uses a closed descriptor, frames do not mix on the line, a failed start leaves nothing behind |
| boot (`boot/`, `app_service/app_boot_runtime.c`) | stage, handshake, results, timers | replies 0x01 and 0x37, poll, finish timer, popups | loop, page manager | it finishes only after every self-test passed, and never leaves the user waiting |
| counting session (`counting/`, `app_service/app_counting_runtime.c`, `app_command_runtime.c`) | phase, totals, table, serial numbers, pending requests, pending record | replies 0x0A to 0x0E, start, clear, query, history commit | controller, history, currency | each session is saved once, complete, with its own data |
| reject analysis (`counting/counting_reject_analysis_service.c`) | table of the last analysis | update | counting session | the split adds up and is that of this session |
| history store (`lv_system/ui_history_data_fs.c`) | 20 records, counters, `index.cfg` | load, append, select, delete, clear the total | counting session, history page | the file can always be loaded and agrees with memory |
| currency (`currency/`, `app_service/app_currency_runtime.c`, the choice in `lv_core/page_07_curr.c`) | list and its transfer, active and detected currency, AUTO, the choice under way | list, active, detected and mode replies, choose, clear, time out | settings, session, boot | list, index and code agree, and the screen ends on the currency the controller has |
| settings (`app_service/setting_service.c`, `app_setting_*`) | one pending request per setting | request, reply, timeout, cancel | settings pages | the copy on the screen ends as the value in the controller, and every request ends |
| multi-pass verification (`innovation/`) | task, passes, comparisons, prompt, page | start, cancel, capture, confirm, restart | counting session, the ADD setting | each pass is a count of its own and the verdict is that of the passes |
| recording, USB (`recording/`, `storage/`, `lv_system/ui_screen_recording.c`) | state under a mutex, thread, file, mount, button | start, stop, record, finish, rename, report | loop, the drive | a recording is reported once, and as saved only when it is whole |
| data collection, diagnostics, device info, serial number, cfd, print | one pending request, latest reply | request, reply | their pages | a late reply does not confirm the wrong request |
| machine state, mode codec, stream, auxiliary and start-up replies (`machine_state/`, `protocol/`) | latest values | decode | all pages | decoded values are in range |
| page manager, pages, widgets, smart island (`lv_core/`, `lv_components/`, `gesture/`) | LVGL objects, current page | navigation, drawing | all | the page matches the state |
| platform, clock, language, configuration, export (`lv_system/`, `history/`) | configuration files, tables | read, write, format | all | what is written can be read |
| fonts, images (`lv_resources/`, `font/`, `src/aic_ui/`) | none (generated data) | | | |

`PROJECT.json` lists each with its files, its status and the reason for what is
left out, and under `hazards` what is hard to test, line by line, with the
properties that watch over it.

## 2. Modules

    BoundedFifo  <-- implemented by --  FrameQueue  <-- instantiated by --  SerialRuntime
    FrameParser   BootRuntime   CountingSession   RejectAnalysis   HistoryStore
    SettingRequests   CurrencySelection   MultiPassVerification   ScreenRecording

    FrameQueueProofs   BootRuntimeProofs
    ReceiveProofs (SerialRuntime, FrameParser)
    CountingProofs (CountingSession, RejectAnalysis)
    StorageProofs (ScreenRecording, HistoryStore)
    SettingRequestsProofs   CurrencySelectionProofs   MultiPassVerificationProofs

The proof modules that hold two components extend both, so the second of
each pair has names of its own for what every module has (`ParserSpec`,
`RejectInit`, `HistorySpec`, `storeVars`).

Parts that meet in the code and not in a module share the boundary instead: the
module of one has the other as the environment that may do what the other's
module says it does. `CountingSession` may find a save failing, as
`HistoryStore` may make it; `MultiPassVerification` sees counts start, end,
come late and be reset, as `CountingSession` lets them.

### BoundedFifo, FrameQueue

`BoundedFifo` is the promise: a sequence of at most `Capacity` frames. A push
that finds it full changes nothing. `FrameQueue` is the code: an array, `g_head`,
`g_tail` and `g_count`, each function one action under the mutex. The mapping
reads the sequence off the ring. `NoFrame` is the content of a slot that was
never written.

### FrameParser

One action, `Feed`, per call of `protocol_frame_parser_feed()`, split into
operators by the parser's branches: idle, second header byte, length byte, the
rest, last byte. Bytes are abstracted to the two header bytes, lengths and
others; `MinSize` and `MaxSize` are the limits of a frame.

### SerialRuntime

Three threads with a program counter each: `main` (start, stop, send, pop),
`rx` and `bridge`. Start opens the devices, then each service; any of it may
fail and goes to the clean-up of `app_serial_runtime_stop()`. `uart_send()` is
the mutex, the pieces `write()` takes, and an error. The queue is `FrameQueue`;
a frame is the pair of sessions in which its first and last byte were read.
The bridge forwards the chunk that one read returned as one send.

### BootRuntime

One iteration of the loop is `lvgl`, `frames`, `poll`. Stages are numbers: 0 the
handshake, 1 to `NumSteps` the self-tests, then done and failed. Clocks are ages
capped at the limit they are compared with. `onBootPage` is the page number
the loop read at the start of the iteration, so the model has the iteration in
which it is stale. Popups are what CONFIRM on them does. The controller answers
in order, late or never, and sends `MaxSpurious` frames nobody asked for: a
handshake answer, a self-test answer, the start of a count, which the code
follows to the counting page, a fault of a count, or that there is none any
more. The last two use the popup in which a failed self-test is shown, and are
accepted in any stage: a fault replaces it, the end of the faults removes it
(`taken`). A fault popup may also not come up, as where the user turned it off;
that it then comes up later from the main page is left out. A popup covers the
page, but the gestures that lead home work over it.

### CountingSession

What is counted is abstracted to whose it is: totals, rows and serial numbers
carry the number of their session, so that "saved with the data of another" can
be said. One action per kind of frame handled, per user request and per poll;
polls that wait for a time may fire at any time. Sends and saves may fail. The
controller is the last part of the module, as the panel's code takes it to be:
one program that sends what it has to say before it does anything else (so it
answers no request between the report that ends a session and the table), that pushes
serial numbers of the notes while it counts them (0x49), that
refuses to start with an empty hopper, and so reports at least once in a
session. Frames and requests may be lost.

`disturbed` marks a session that lost a frame, whose table was taken for the
answer to a query or the other way round, that met an earlier clear, or whose
serial numbers came again while its save waits for its retry. The code has no
means to notice any of these (replies carry no number); the properties say
what holds for all other sessions. These cases are listed as hazards.

### RejectAnalysis

The pocket of rejected notes keeps what earlier sessions rejected, so the code
compares the table of this session with that of the last analysis. The twelve
codes of a damaged note and the others are represented by two each.

### HistoryStore

The records in memory, newest first, each with a slot and a number, and
`index.cfg`. A save is five steps: write the temporary file, sync it, rename it,
sync the directory, return. Up to the rename any call may fail, which drops the
memory and loads the file again in the same step. With `Unreadable` the file may
not open then; a first load after a start that fails so is left out. A restart finds `index`; a power loss finds `index`
or anything in `old`, the contents replaced since the directory was last
synced, and finds a torn file where unsynced data was renamed. `since` is a
history field inside the store, so that it goes back with it. `Keep` takes the
records at given positions in their order, which is what the loops of an insert
and of a deletion leave. The slot files and `meta.cfg` are written and never read, and are left out.

### SettingRequests

One setting at a time, chosen at the start, since each has its own slot, command
and copy. What the code does differently from one to the next is four sets:
whose reply names the value (`Echoed`), whose failure restores the value before
(`Restored`), whose page ignores a success (`KeepDisplay`), whose boot report
drops the request. A request times out after `Timeout` ticks, and a reply that
finds it expired is ignored, whether the poll came first or not. The controller
applies or refuses; frames may be lost, and the controller may boot.

### CurrencySelection

`currency_state.c` as it is (list, transfer of a list with its gaps, index, code,
AUTO, detected code), the switch and mode requests, and the choice on page 07
that takes several requests in turn: leave or enter AUTO, clear the counts,
switch. The main loop's polls are separate actions. The controller answers, and
boots with another list, currency and mode, all of which it reports. Of what the
code does not have, a frame of a report tells what the controller had (`of`),
and the transfer which lists its codes are of (`sync_of`): a list taken over from
more than one is `mixed`. `trusted` is true until a frame is lost, a request times
out or a boot crosses a request.

### MultiPassVerification

The task and the comparison of two results are translated whole: denominations
with repeated rows, the merge of the sorted serial numbers, the thresholds of a
significant difference. `Merge` is a recursive function, `SameNotes` the
definition it is checked against: what two results have in common as multisets.
The buttons of the page and of its prompts are actions; the counting
session is a phase, a last result and the events that change them. The serial
numbers of a count may end twice, or after the next count began.

### ScreenRecording

The recording thread with a program counter, the main loop, the drive. A step is
what one thread does between two uses of what both touch. The file is at the
mount point, which leads to the drive, to the root file system when nothing is
mounted, or nowhere when the drive was pulled; umount refuses while a file is
open. The file is synced before it is renamed, the directory never: a new name
is `cached` until the drive is pulled, and is then either on it or `lost`, and a
rename under a mount whose drive is gone succeeds in the cache alone. What else
a pull undoes, such as the removal of a temporary file, is exempt as all that
follows a pull is. A loss of power, which is a pull after which nothing runs, is
left out. A click reads the state in one step and requests the stop in the next.

## 3. Runs

| Run | Bounds | Shows |
|---|---|---|
| `frame_queue` | 4 slots, 3 frames (symmetric) | the ring implements `BoundedFifo` |
| `frame_parser` | 5 byte values, sizes 5 to 7 | an accepted header ends in a valid frame, a delivered frame arrived contiguously, a header outside a frame is never missed |
| `serial_runtime` | 2 sessions, 2 slots, frames in 2 pieces | no use after close, one sender in mid-frame, all or nothing, frames of this session only, stop returns |
| `boot_runtime` | 3 self-tests, timeout 2, retry 1, delay 1, 2 unasked frames | progress agrees, finish only after a pass, failures are shown, no late finish, the user is reached |
| `counting_session` | 2 sessions, 2 user actions, queries or losses, 1 query retry, 2 save attempts | saved once, saved complete, one action pending, the display is kept, records leave |
| `reject_analysis` | a pocket of 3 notes | the split is true |
| `history_store` | 3 records, 5 sessions, 2 edits, 2 faults | the file loads, agrees with memory, each session is in the history and in the total once |
| `history_unreadable` | the same, and the file may fail to open when a failed save is undone | expected violation, see section 6 |
| `setting_requests` | 7 settings, 3 values, timeout 1, 3 requests, 1 loss or boot, 2 frames each way | the copy is true, no value is invented, page and copy agree, every request ends |
| `currency_selection` | 2 lists, 2 modes, 2 user actions, 1 boot, detection or loss, 2 requests on the way | lists are sound, index and code agree, the selection is true and ends |
| `multi_pass` | 9 results, tasks of 2 or 3 passes, 3 counts | the task is sound, passes are counts, the verdict is true, prompts are true, a pending start is shown |
| `screen_recording` | 2 recordings of at most 2 frames | the state is true, each recording is reported, what is saved is there, a stop ends |

Type invariants are conjuncts of the first property of a run (`SavedOnce`,
`StoreLoads`, `NeverInvented`, `ListSound`, `TaskSound`, `StateTrue`) or are
proved (`RingTyped`, `ParserTyped`, `RejectTyped`, `BootTyped`, `SerialTyped`).

Why the bounds are enough. Four slots let both cursors wrap with the ring empty,
part full and full. The sizes 5 to 7 with the byte values 0, 2, 5, 6 and 7
contain lengths below, at and above both limits, a length that is also a header
byte, and a header byte inside a frame. Two sessions of the serial runtime are a
restart. Three self-tests are a first, an inner and a last one; ticks only order
the timeouts; two unasked frames are a fault and its end, or two that cross a
boot which failed. Two counting sessions are the one on display and the one that
replaces it; three user actions or losses were checked too, without the pushed serial numbers
(3.6 million states), and are too slow to keep. Five sessions over three records fill the history,
delete from it, fill it again and wrap its slots. Faults are two so that a retry
can fail too or meet a power loss.

Three requests of a setting are one that is late, one that meets its reply and
one more to be confirmed by it; the seven settings have every combination of the
four sets that occurs, the others repeat one of them. Two lists of currencies,
of which one lacks a currency of the other, are a change that keeps the active
one and a change that takes it away; two clicks are a choice and another one
during it. One boot or loss never makes a list that is `mixed`; with two of them
and one click and one mode the safety properties were checked too (1.4 million
states), and the proofs have no bound. Three counts are a task of three passes, or one of two with a count
too many; the nine results differ from the first in one respect each. Two
recordings are one and the one that meets what it left behind; two frames are a
file with room and a full one.

`CHECK_DEADLOCK FALSE` stands where the system may stop: nobody has to count or
to start the runtime again.

### Fairness

`SerialRuntime`: each thread keeps running, including a read that returns after
its timeout; nobody has to call start or stop. `BootRuntime`: the loop runs, time
passes, the animation ends (it is driven by a timer; strong, since LVGL's part
of the loop comes and goes). Neither the controller nor the user is obliged to
do anything. `CountingSession`: the loop handles received frames and repeats a
failed save, and the controller answers a request that reached it. It need not
count. `SettingRequests`: time passes and the poll of the timeouts runs.
`CurrencySelection`: the polls of the main loop run, each of which is in every
turn of it; neither the user nor the controller need do anything.
`ScreenRecording`: the thread runs, the click that began ends, the poll that
began ends, and the main loop polls again and again (strong, since a click comes
between). `FrameQueue`, `FrameParser`, `RejectAnalysis`, `HistoryStore` and
`MultiPassVerification` have no liveness properties and no fairness.

## 4. Proofs

Each theorem holds for all values of the constants under the assumption named
in its module (`CapacityAssumption` and the like: capacities, limits and timeouts
are positive numbers).

- `FrameQueueProofs`: `RingTyped`, `RingCursors` (the counter is the distance of
  the cursors), `RingWritten` (each slot between the cursors holds a pushed
  frame), `RingIsFifo` (the ring implements `BoundedFifo`). `CursorsAgree` is
  inductive given the types; the refinement needs it to tell which slots the
  sequence is read from, and that adding one modulo `Capacity` moves each
  element one place.
- `ReceiveProofs`, the parser: `ParserTyped`, `ParserAccounts`, `ParserCompletes`. The
  length stored plus the bytes expected is the announced length only together
  with the bounds of the type invariant, so one inductive invariant has both.
  `ParserContiguous` and `ParserMissesNone` compare the parser with the line,
  of which the model keeps the last `MaxSize` bytes. Their invariant `LineInv` has
  both directions: what is stored is what came last (`Held`), and whenever
  the last bytes may be the beginning of a frame that began outside a frame's
  body, the parser has stored exactly those (`Tracked`). Neither direction is
  inductive alone, since a byte that ends one frame must not begin another.
- `ReceiveProofs`, the runtime: `SerialTyped`, `SerialDescriptors` (no use after close),
  `SerialFrames` (one sender in mid-frame), `SerialAllOrNothing` and
  `SerialSessions`. The first four rest on one inductive invariant:
  the runtime's flag, the service's flag and the existence of its thread say the
  same (`ThreadsAgree`), which of them are set follows from how far start or stop
  has come (`Phases`), and only the holder of the mutex has a frame left to
  write (`SenderOwns`). All three are needed: the devices close in the phase in
  which no flag is set, hence with no thread. `SerialSessions` adds `SessionInv`:
  what is in the ring between its cursors, and in the parser, was read in this
  session; it uses the lemmas of `FrameQueueProofs` about the ring, instantiated
  for the frames of this module.
- `BootRuntimeProofs`: `BootTyped`, `BootProgress`, `BootFinish`,
  `BootFailureShown` and `BootNoLateFinish`. None but the first is inductive. For
  progress and finish the invariant adds `DoneIsAnswered`, that a boot that is done has its handshake
  answered, and the types of the service's variables: a finish is armed in
  the step that records the last pass, from the results recorded before it,
  and a repeated handshake cannot restart the tests because the handshake is no
  longer "sent". For the screen it adds `AwayIsKnown`: how many polls have passed
  since the user left the boot page, and what the loop still believes of the
  page; the second poll drops the timer. `BootFailureShown` follows the popups: a
  fault that comes up on the boot page leads away as the one it replaces did.
- `StorageProofs`, recording: `RecordingState`, `RecordingReports` and
  `RecordingSaved`. The first two need
  each other: a recording begins where the state is idle and nothing is left to
  join, which means there is no thread. The invariant adds that a completion
  that waits to be reported has been set. What the user is told of a file adds
  what the thread knows while it writes (`FileAgrees`: frames, whole, and where
  the file is at each place of the thread) and what the mount says unless
  the stick was pulled since the recording began (`StickAgrees`), and that a
  pull costs a recording its place and not its mention (`PullSettles`).
- `StorageProofs`, history: `HistoryLoads`, `HistoryAgrees`, `HistoryCounted` and
  `HistoryApart`. `Sound` is what every operation keeps of a store: slots, record
  numbers and sessions apart, numbers below the next one, at most `MaxRecords`
  records. The lemmas `AppendedSound`, `DeletedSound` and `MarkedSound` prove it
  of the operations, from what `Keep` returns (`KeepIs`: each position once)
  and that a bounded set has a greatest number. The invariant `HistoryInv` says
  that all stores are sound, in memory, in the index and in whatever a power
  loss may bring back; that nothing torn is among them (`NeverTorn`); what the
  index holds by each step of a save (`InSave`); and that the session that waits
  is in memory only during its own save and in the index only after the
  rename (`Waiting`), which is why a repeated append adds it once. `Totals`, and the
  theorems on it, assume that an index that is there can be read
  (`~Unreadable`): without that the property is refuted by `history_unreadable`.
- `SettingRequestsProofs`: `SettingNeverInvented`, `SettingDisplay` and
  `SettingMirror`. The
  invariant adds, for the settings whose reply names its value, that the copy,
  the value kept for a failure and every success and boot report on the way were
  had by the controller (`EchoTrue`): a success then confirms only what it names.
  For the pages it adds what makes an untold success harmless: a page that was
  open when the request was made shows the value the success confirms
  (`PageKnown`). For the copy against the controller, while nothing was lost,
  late or crossed (`trusted`), it adds `OneAnswer`, that the open request or its
  one answer is on the way, and `Settling`, that handling the replies on the way
  in order leaves the copy at the controller's value.
- `MultiPassVerificationProofs`: `PassTaskSound`, `PassPrompts`, `PassPending` and
  `PassesAreOwnCounts`, whatever `Compare` finds. The four rest on one invariant.
  `Progress` says how many passes there are in each state; `Numbered` that an
  armed task was armed by the latest count, with ADD off and after every pass it
  has. The prompts need `PendingShown` and the reverse: a question or a report is
  about a task, a pending start exists only where there is none, so the start
  cannot change what a prompt is about. `PassVerdicts` proves `VerdictTrue` under
  the hypothesis `CompareIsRight`: what `Compare` computes of two results agrees with their
  multisets. The proof covers what is done with it: which results are
  compared, when, and which verdict is shown. The hypothesis is about a finite set
  of results, and for the nine of the run TLC checks it as part of `VerdictTrue`.
- `CountingProofs`, the session: `CountingInvariant`, `SessionsSavedOnce`,
  `SessionsSavedComplete`, `StartOrClear` and `DisplayStays`. None is inductive; one
  invariant, `CountInv`, is proved for all five:
  - `InFlight` says which frames may follow each other on the line, and in which
    state of the controller; it makes the head of the line say what the
    controller has done;
  - `Numbered`, `Older` and `Fresh` say whose data may be where: while a session
    is counted, or its end is on the way, everything the panel holds is
    of an earlier one. Without them a report could be saved as the wrong session;
  - `InStep` says that the phase is the controller's and the totals are the
    session's, unless a frame was lost; hence a pushed serial number, which is taken
    in any phase, never meets a record that waits for its own;
  - `Recorded` and `Chain` follow a pending record through its table, its serial
    numbers and its retries, and give at the save what `Kept` says of the store.
- `CountingProofs`, the rejects: `RejectTyped`, `RejectsAddUp` and `RejectsAreTrue`.
  `SplitAddsUp` is inductive with the types: the surplus taken off is never more
  than there is. `SplitIsTrue` needs `OwnSplit`: before the analysis the pocket holds
  the session's rejects, alone or on top of what was analysed last, and then
  the table or its difference, whichever is selected, is what was rejected.
- `CurrencySelectionProofs`: `CurrencyListSound`, `CurrencyIndexAgrees` and
  `CurrencySelectionTrue`, on one invariant of two halves. `CurrencyTyped` holds
  whatever happens: each frame of a report says what the controller had
  (`Genuine`), and what was transferred are codes of the lists they came from, each
  once and at its place (`SyncTyped`), which a list without a gap inherits.
  `TrustInv` holds while nothing is lost, late or crossed:
  - `InOrder`: the reports come whole, each frame finds the panel where the one before
    left it (`Awaited`: so many codes received, the list taken over, AUTO as
    reported), and the last report is of the controller as it is;
  - `ModeOnce`, `SwitchOnce`: an open request is on the way or its one answer is,
    never both, and without a request there is neither;
  - with a report on the way nothing is asked; without one the panel is
    `Settled`: it has the controller's list, and the answers on the way lead
    to what the controller has. Of an answer to a mode request and one to a switch
    the last decides (`Leads`), since either changes AUTO;
  - `Own`: the active code is listed, and at its index unless AUTO is selected.

  `SelectionTrue` is `Settled` with nothing on the way. The boundary lemmas
  (`OnceServed`, `LeadsTaken`, `ChainedHeard`, ...) say what each part keeps when
  a line grows at the end or shrinks at the front.

Only model-checked: liveness (`UserReached`, `StopReturns`, `RecordLeaves`,
`EveryRequestEnds`, `SelectionEnds`, `StopEnds`), which is out of the prover's
reach; and `CompareIsRight`, that is what the recursive function `Merge` computes
for every input.

## 5. Not modelled

Most lines of the repository are data: fonts and images (`font/`, `aic_ui/`,
`lv_resources/`), then pages that lay out LVGL widgets. They have no behaviour to
check, so the share of all lines that the models cover is small and cannot
become large. Of what has behaviour, these are left out:

- drawing, text, layout, navigation and animation of the pages and popups,
  except where a page keeps a value that may disagree with the state;
- decoding of values, and the components that copy the latest reply into a
  struct and show it (diagnostics, device info, stream and auxiliary replies,
  cfd, print);
- `data_collection.c`: one mode request with a guard that swallows a late reply
  (`data_collection/data_collection.c:135-152`); its result is only displayed;
- in `CountingSession`: row contents, fault codes, work mode,
  batch size and add mode; a timeout may come at any time there;
- in `BootRuntime`: a fault whose popup is kept for later; in `HistoryStore`: an
  index that does not open at the first load after a start; in `ScreenRecording`:
  a loss of power; in `MultiPassVerification`: the code takes a pass from the
  totals of the last result and from the tables of what is counted now
  (`innovation/multi_pass_verification.c:116-140`), which the model takes as one: they
  are of two counts only in the late case, or where a table was lost;
- in `SettingRequests`: the preset number of a batch, the print settings;
- exports (`history/`, `ui_export_data.c`, `ui_history_export_data.c`), the
  screenshot and upgrades: they write files in one call, with nothing else
  touching their state, and use the drive as `StickPrepared` does.

## 6. What the models found

- `history_unreadable`: the reload that undoes a failed save takes an index it
  cannot open for an absent one (`lv_system/ui_history_data_fs.c:723`), and the
  panel shows an empty history while the file is full; the comment at line 585
  says memory and file agree. The next append replaces the file. In the run a save
  fails and then the reload.
- After a deletion a full history drops the newest of the kept records first,
  not the oldest (`ui_history_data_fs.c:1029`). No text says which it should be.
- A query that is pending when a session ends swallows the session's table: the
  rest of the chain is not asked for and the session is not saved
  (`counting/counting_denom_reply.c:103`). The late answer of a query that was
  given up is taken for a session's table (line 115).
- A handshake answer after the total timeout takes a failed boot back to the
  self-tests, with its timeout used up (`boot/boot_reply.c:16`). A count that
  starts during the boot leaves it unfinished for good
  (`app_service/app_counting_runtime.c:139`).
- The popup of a failed boot is the fault popup of the counting side, and the
  report that there is no fault (0x0F with code 0, `counting/counting_control_reply.c:45`)
  hides it on any page and in any stage (`app_service/app_counting_runtime.c:209`):
  a failed boot is then left on its page with nothing to press, until a count
  starts or another fault is reported. `FailureIsShown` exempts it (`taken`), and without the
  exemption its run fails. The popup of a timeout is another one and stays.
- A boot report of the mode cancels the mode request in hand, and nothing tells
  the choice of a currency that waits for it
  (`app_service/app_setting_reply_basic.c:86`, `lv_core/page_07_curr.c:612`): the
  choice stays under way and refuses every later one, until another mode request
  ends. `SelectionEnds` exempts it (`stranded`). After a change of the list the
  detected currency may for a while be one that is not listed.
- A code of a list is added to whatever transfer is open
  (`currency/currency_state.c:86-109`). Where the end of one report and the start
  of the next are both lost, the codes of the second overwrite those of the
  first and its end completes the mixture: the panel then has a list that the
  controller never had. `ListSound` exempts it (`mixed`); an earlier form without
  the exemption held in its run only because the run loses one frame.
- The pages of the flap and of the reject pocket ignore a success
  (`lv_core/page_23_set_flap.c:370`), so a page that is opened anew during the
  request shows the old value until it is opened again. Settings whose reply
  does not name the value can be confirmed by the late reply to an earlier
  request (`app_service/setting_service.c:57`). An acknowledgement of a print
  setting with status 1 to 3 cannot be told from a boot report
  (`app_service/app_setting_reply_detail.c:173`).
- Verification: a question about the bundle is closed when a count starts from
  the page of the verification, or by a gesture that leaves it
  (`gesture/gesture_service.c:49-63`), while the task still waits for the answer; then only a
  cancel helps. The prompt that ADD must be off is closed at once when that page
  is open (`app_service/app_counting_runtime.c:127-142`). The end of the serial
  numbers that comes after the next start captures the result of the count
  before (`counting/counting_control_reply.c:70`); `PassesAreCounts` exempts it
  (`late`). A baseline row of no notes that the other result has notes for is
  counted as two differences (`innovation/multi_pass_verification.c:180-210`).
- Recording: a drive that is pulled between the start and the open of the file
  leaves the recording on the root file system, and it is reported as saved
  to USB (`recording/screen_recording_service.c:585`). A recording is also reported
  as saved before its name is on the drive: the rename is followed by no sync of the
  directory (line 631), so a drive that is pulled then, or was pulled just before
  the rename, has the temporary file at best. `SavedTrue` exempts both (`pulled`).

## 7. Plan

Done: the receive path, the serial runtime, the boot, the counting session, the
reject analysis, the history store, the settings, the currency, the multi-pass
verification, the screen recording.

1. Proofs: `CompareIsRight`, by the least position at which it fails.
2. `data_collection.c`, as one more kind of request with its guard.
3. An abstract specification of the counting session (a list of sessions each
   saved at most once) that `CountingSession` with `HistoryStore` implements
   for undisturbed sessions.
