# Smart Intercom: models and proofs

TLA+ modules for the firmware of the smart intercom (SII-001): what its
components do, what they promise, TLC configurations that check the promises on
small instances, and proofs, checked by TLAPS, that the most important ones hold
for every instance.

The code is in `src/firmware`. `main.c` only logs two lines so far: the tasks of
the design document (`docs/SII-001_SDS_...docx`, section 5.2: UI, audio, network,
state task) are not written yet. What exists are the components those tasks will
call, a host build of each and unit tests. The models take the components as they
are and leave open who calls them, when, and from which thread.

To run: `tlc -config EqFifo.cfg MCEventQueueHost`, `tlapm EventQueueHostProofs.tla`,
and so on; `PROJECT.json` lists runs, mutants, findings, hazards and theorems, and
maps definitions to lines of code.

## Inventory

| Component (`components/`) | State | Operations | Talks to | What is hard |
|---|---|---|---|---|
| `state_machine` | current state, state before the door was tapped | `sm_init`, `sm_handle_event` | called by the dispatcher | events in any order; a remembered state that is never cleared |
| `dispatcher` | queue handle, state machine, tone detector, callback | `dispatcher_post`, `_process_audio`, `_init_tone`, `_pump` | posts to and receives from `event_queue`, steps `state_machine`, feeds `tone_detect`, calls `on_transition` | posts from several tasks while the state task is between receive, step and report; full queue |
| `event_queue/host` | ring buffer, mutex, two condition variables | `eq_create`, `eq_post`, `eq_receive` | pthreads | wakeups, barging, timeouts, early returns, wrap-around |
| `event_queue/freertos` | a FreeRTOS queue | the same | FreeRTOS | the contract the host build must match |
| `tone_detect` | target, threshold, debounce count, run of loud frames | `td_init`, `td_reset`, `td_process` | called by the dispatcher | firing at the boundary of the count |
| `mjpeg_rtp` | buffer, open frame, expected offset, header, tables | `mjpeg_rtp_create`, `_reset`, `_feed` | fed RTP payloads | lost, repeated, reordered, truncated, oversized fragments |
| `rtp_parser` | none | `rtp_packet_parse` | gives payload and marker to the assembler's caller | lengths taken from the packet, in any combination |
| `jpeg_synth` | none (a bounded writer inside a call) | `jpeg_synth_build` | takes a frame of `mjpeg_rtp` | output limit, integer scaling of tables |
| `config/host` | linked list of typed entries | `cfg_set_*`, `cfg_get_*`, `cfg_erase`, `cfg_commit`, open, close | `malloc` | retyped keys, sets that fail half-way |
| `config/nvs` | NVS handle, NVS flash, a static flag | the same | ESP-IDF NVS | power lost between set and commit, erase at boot, two tasks that open at once |
| `rtsp_proto` | none | `rtsp_url_parse`, `rtsp_request_build`, `rtsp_response_parse` | none; a client would use all three in one session | separators that mean different things, bounds, responses in pieces or several at once |
| `main` | none | boot message | none | none |

What makes each correct:

* **state machine and dispatcher**: a call starts with a ring, is answered, ends;
  the microphone is open only in an answered call; a door release gives the call
  back as it was; errors and settings end everything; the callback hears of every
  change, once, in order; what the queue accepted takes effect.
* **event queue**: first in, first out, bounded; each call takes effect once or
  says it did not; nobody sleeps on what nobody else will take; every path gives
  the mutex back.
* **tone detector**: fires on each N-th loud frame of an unbroken run, no other.
* **frame assembler**: the camera's data is held in its place, without holes, with the
  header and tables it came with; a frame that arrives whole comes out whatever came
  before.
* **RTP parser**: accepts what is an RTP packet and nothing else.
* **JPEG synthesis**: a whole frame becomes a whole file with its own tables, or is
  refused; a higher quality never has a coarser table.
* **configuration**: a map; a failing set never makes a wrong value readable; what
  was committed survives; nothing is erased without NVS asking for it. (Of these, the
  second fails for a failing allocation and the third for tasks that open the store at
  once, see the findings.)
* **RTSP**: a URL is read as it is meant and refused if it cannot be; a request is
  whole or not sent; a response is read when all of it is there, as it was meant,
  whatever follows it.

## Modules

| Module | Models | Checked or proved in |
|---|---|---|
| `EventQueue` | the contract of `event_queue.h`: an atomic bounded FIFO; also the FreeRTOS build, a call of `xQueueSend`/`xQueueReceive` each | refined by `EventQueueHost` |
| `EventQueueHost` | `event_queue_host.c`, statement by statement | `MCEventQueueHost`, `EventQueueHostProofs` |
| `StateMachine` | `state_machine.c` as operators on a context | through `Dispatcher` |
| `ToneDetect` | `tone_detect.c` as operators on a detector | `ToneHistory`, `Dispatcher` |
| `CallFlow` | what the state machine promises about calls, without its states | refined by `Dispatcher` |
| `Dispatcher` | `dispatcher.c`, composing queue, state machine and detector | itself, `DispatcherProofs` |
| `MjpegRtp` | `mjpeg_rtp.c` as operators on an assembler | through `MjpegStream` |
| `RtpPacket` | `rtp_parser.c` as operators on a datagram | through `MjpegStream` |
| `JpegSynth` | `jpeg_synth.c` as operators on a frame | through `MjpegStream` |
| `ToneHistory` | a detector and the history of the frames it was fed | itself, `ToneHistoryProofs` |
| `MjpegStream` | the way of a frame: camera, network, parser, assembler, JPEG | `MCMjpegStream`, `MjpegStreamProofs` |
| `Settings` | the contract of `config.h` for one handle | refined by `ConfigHost` |
| `ConfigHost` | `config_host.c` | itself, `ConfigHostProofs` |
| `ConfigNvs` | `config_nvs.c`, over NVS as documented, tasks and restarts | `MCConfigNvs`, `ConfigNvsProofs` |
| `RtspUrl` | `rtsp_url.c` as operators on tokens | through `RtspClient` |
| `RtspMessages` | `rtsp_request.c`, `rtsp_response.c` as operators on lines and cells | through `RtspClient` |
| `RtspClient` | a session of a client, a camera and a connection that use the three | `MCRtspClient`, `RtspClientProofs`, `RtspSessionProofs` |

How state and actions correspond to code:

* `EventQueueHost`: `buf, head, tail, count, lock` are the struct's fields;
  `notEmpty` and `notFull` are the sets of threads waiting on the condition
  variables; `pc` names the next statement of each thread. `PostLock` is
  `pthread_mutex_lock`, `PostRefuse` and `PostWait` the body of the `while`,
  `PostStore` the write to the slot, `PostCommit` index, count, signal and unlock,
  `PostTimeout`/`PostExpire` the `ETIMEDOUT` branch (which returns without looking
  at the queue again), `PostRelock` a return from the wait that goes round the
  loop. `Recv...` likewise. A signal picks any waiter; a signalled thread competes
  for the mutex with everyone else. Time is left out: a timed wait may time out at
  any moment, also when it has just been signalled. POSIX lets it return `ETIMEDOUT`
  then and keep the signal; glibc means to pass such a signal on, but neither the code
  nor the model relies on it. `takenEmpty` and `takenFull` count the signals that went
  this way (no more than there are events, or room, for them to be about); they are
  history, and no guard reads them.
* `Dispatcher`: `PumpReceive`, `PumpHandle`, `PumpNotify` are the three parts of
  `dispatcher_pump`, with posts possible between them; `pump` holds its locals. `seen` is the last state the
  callback was told of. The queue is the contract, not the ring: posts use
  timeout 0. A callback is assumed to be registered.
* `ToneDetect`: a frame is loud or not; the Goertzel filter is not modelled. The
  detector `dispatcher_init` leaves (all zeroes) computes 0/0 and never fires.
* `RtpPacket`: a datagram is the fields of its fixed header that steer the parser,
  and the bytes behind it; the CSRC count, the extension's length and the padding
  are read from where the code reads them. `RtpBuild` is the sender, by RFC 3550.
* `MjpegRtp`: a payload is its offset, header fields, the two inline tables, scan bytes
  and marker. The offset expected next is a `uint32_t` and cannot wrap: a 24-bit offset
  and what fits the buffer are added.
* `JpegSynth`: the file is its segments with their lengths in bytes; the writer
  counts them as `writer_t` does, and each `Emit...` is the code's, in its order. `DefaultTables` has the arithmetic of
  `scale_quant` for any entry of the base tables. A type other than 0 and 1 is refused.
* `MjpegStream`: `ReceiveFragment` and `ReceiveStray` are one datagram each, through
  all three components: what the parser refuses goes no further, what completes a
  frame is made a file at once. This loop is not in the repository. The camera's
  payloads are a cell for header and tables (`ReadFragment`) and cells for the scan
  bytes, told apart by frame and place. A stray is bytes, and `mjpeg_rtp_feed` reads its
  payload as any other (`ReadTooFew`, `ReadBytes`): with eight bytes or more it may
  start a frame, or go on where the camera's left off.
* `ConfigHost`: the list as a sequence of entries, each with a slot per type and
  the tag, as in the code. Strings and blobs are known by their lengths. `calloc`,
  `strdup` and `malloc` may fail at any call. `call` records the request beside
  the reply, so that a reply is checked against the request it answers.
* `ConfigNvs`: `at` says where each task is in `cfg_open`: `CfgOpen` tests the flag,
  `FlashInit`, `FlashErase`, `FlashInitAgain` are the calls of `ensure_nvs_init`,
  `CfgOpened` is `calloc` and `nvs_open`; other tasks run between any two. NVS keeps
  what handles read (`live`), what is sure to be in flash (`flash`) and what may be
  (`pending`); `Restart` picks among them. A call that returns false changes
  nothing and is no step, with one exception that ESP-IDF documents: a set that ends
  with `ESP_ERR_NVS_REMOVE_FAILED` returns false, but has written its value, which is
  found once NVS is initialized again (`CfgSetTorn`, `torn`). `promised` is history: what
  each key may hold, going by what the start found and what the calls returned; an erase
  does not touch it. `firm` says whether a task was about to erase the partition at the
  last commit.
* `RtspUrl`: a text is a sequence of tokens: separators, words, numbers, each with
  its width, so that every bound of the code is reached with few tokens.
* `RtspMessages`: a request is its lines with their widths; `Fits` is the test in
  `append`, `Written` what `vsnprintf` leaves. A response is a stream of cells in
  which carriage returns and line feeds stand alone; a status or header line is one
  cell, because no parser step succeeds between its first and last character.
  `ReadCell` is one turn of the parser's loop over the header lines, `ReadHeaders` the
  loop.
* `RtspClient`: `Connect`, `SendNext`, `Keepalive`, `Teardown` and `TakeAnswer` are
  the client, `Serve` the camera, `Arrive` the connection. None is in the
  repository: the client does with the three functions what their headers offer
  (see the module's comment); up to two requests, and a TEARDOWN, are under way. `owed` and `answer`
  are history: the responses as the camera meant them (`Response`); `CellsOf` is what
  of a response goes over the wire.

## Runs

| Run | Bounds | Shows |
|---|---|---|
| `eq_fifo` | 1 poster, 2 receivers, capacity 2, 2 events, spurious wakeups | types, ring arithmetic, mutual exclusion, refinement of `EventQueue`, no wakeup lost but by a timed wait as it expires. Two receivers can sleep while two events are posted, and overtake each other; two values tell any two orders apart; the ring wraps. |
| `eq_live` | 2 posters, 1 receiver, capacity 1, 1 event, fairness | the other side: posters sleep and overtake each other, and again it is a FIFO and no wakeup is lost; queued events are received; blocked posts make progress, as long as no timed post takes a signal with it. |
| `eq_timed` | 1 poster, 2 receivers, capacity 1, fairness; **violation** | a timed call may never return, see below. |
| `tone_history` | debounce 0 to 3, up to 7 frames and resets (`MaxFrames`) | firing frames agree with a definition over the history; 7 frames hold two full counts of 3 and a break. |
| `dispatcher` | queue of 2 (`QCap`), all 13 events, debounce 0 and 2, state task fair | `CallFlow` is implemented, the callback is in step, accepted errors and door timeouts take effect. A queue of two fills, empties and holds an event behind another; the state machine depends only on the order of events. |
| `mjpeg_stream` | 12 frames of 1 to 4 fragments of unequal size, any datagram at any time, 3 ways to wrap it in RTP, 97 strays, resets; buffers of 6 units and 612 bytes | only RTP is accepted; what is held hangs together, with the strays that are taken for parts of frames; whole frames come out and become whole files; tables are ordered by quality. One frame passes the first buffer, one only the second; one has broken tables, two have types without a JPEG form; fragments of different frames share offsets; 16 of the strays have RTP/JPEG headers, and start frames, continue a camera's, miss its end or the buffer's, or have tables one byte short; the qualities are those where the arithmetic turns (0, 1, 49, 50, 99, 127). |
| `mjpeg_torn` | 2 frames, losses only; **violation** | a fragment of another frame is accepted, see below. |
| `config_host` | 2 keys, lengths and numbers 0 to 1 (`MaxData`), buffers 0 to 2 | the list is the map of `config.h`. Two keys suffice for an entry in front of another; buffers are too small, just right and too big. |
| `config_nvs` | 2 tasks, 2 keys, 2 values, all symmetric; restarts without bound | settings committed while no task is about to erase survive; only a partition NVS refused is erased; once no task is opening the store any more, handles and settings are safe. Two tasks are needed for one to be in `cfg_open` while the other uses its handle. |
| `config_race` | 2 tasks, 1 key, 1 value; **violation** | the second of two tasks that open the store at once erases what the first has committed, see below. |
| `rtsp` | 5 cameras, 6 requests and one TEARDOWN (`MaxCSeq` 7), pieces of any size, 505 bytes for a request; about 6000 other texts as URLs | URLs say their parts; requests are whole; responses are taken as meant; each camera plays, or is given up for the reason there is. The cameras: everything left out of the URL and bodies with blank lines in them; everything in the URL, two challenges and the longest id; an id one too long; a request one byte below the bound, and one at it. The texts: all of up to 4 tokens of 8 after `rtsp://`, and parts at and past each limit. |
| `config_missing` | the same as `config_host`; **violation** | a get after a failed set is undefined, see below. |

Every property of a passing run has a mutant in `PROJECT.json`: a plausible bug in
one operator (the "Bug variant" definitions), under which the run finds the
property violated.

`tone_history` turns the deadlock check off because its history is bounded,
`mjpeg_torn` because its network runs out of packets, and `rtsp` because a session
ends; everything else is checked for deadlock.

### Fairness

* `EventQueueHost`: each thread that can run does (weak fairness of `Run`); the
  mutex starves nobody (strong fairness of `TakeMutex`: critical sections are a few
  statements long and never block, and a scheduler that serves threads of equal
  priority in turn gives it; POSIX does not promise it); a timer that stays armed
  fires; receivers call `eq_receive` again, as the state task does in its loop. No
  one is assumed to post.
* `Dispatcher`: the state task calls `dispatcher_pump` again and again, and the
  callback returns. No one is assumed to post.
* `RtspClient`: client, camera and connection each go on while they can (weak
  fairness). Nobody has to send a keepalive or to end the session.

## Findings

1. **Timed calls need not time out** (`eq_timed`, `event_queue_host.c:73` and
   `:101`): the deadline is computed inside the loop. A receiver woken for an event
   another receiver took first waits for the full timeout again, and so on. The
   tests of timeouts (`test_event_queue.c:103`, `:111`) use one thread. FreeRTOS
   has one deadline per call, so the two builds differ.
2. **Torn frames** (`mjpeg_torn`, `mjpeg_rtp.c:118`): fragments fit by offset
   alone. If the end of a frame and the start of the next are lost, a fragment of
   the second completes the first and the mixture is `FRAME_READY`.
   `test_out_of_order_fragment_dropped` (`test_mjpeg_rtp.c:98`) uses an offset that
   happens not to fit.
3. **A failed set is a trap** (`config_missing`, `config_host.c:106`): the entry
   stays without a value, and `cfg_get_str` takes the length of a null pointer in
   place of returning false, as `test_config.c:24` expects for a missing string.
4. **A commit can be lost to another task's `cfg_open`** (`config_race`,
   `config_nvs.c:17-23`): `s_nvs_init` is tested and set without a lock. At a start at
   which NVS refuses the partition two tasks can both see that; one erases, initializes,
   opens, sets and commits, and then the other erases. What `cfg_commit` returned true
   for is gone, and so is the handle. The design document (section 5.7) has the settings
   in non-volatile storage. `CommittedSurvives` says of the other commits that they are
   kept: those made when no task stands between the refusal and its erase. Opening
   the store once before the tasks start, or a lock in `ensure_nvs_init`, would do.

Short of a finding, as no text in the repository speaks of it: on a system whose
condition variables do what POSIX allows and no more, a timed wait that expires as it is
signalled takes the signal along, and another thread sleeps on beside an event, or
room (`event_queue_host.c:75`, `:103`: neither looks again nor signals on).
`NoLostWakeup` and `BlockedPostersProgress` say that this is the only way to lose one.

## Proofs

Checked by `tlapm` with Z3, Zenon and LS4. Constants are arbitrary; what is assumed
of them is in the modules that declare them, and TLC evaluates it on every run:

* `EventQueueHost`, `Dispatcher`: a positive capacity, finitely many threads; the
  constants standing for "no event", "no thread" are not an event or a thread; the
  zeroed `ev_t` is an event.
* `ToneDetect`, `ToneHistory`: numbers of frames are naturals.
* `ConfigHost`: lengths are naturals and `Null` is none of them.
* `MjpegRtp`, `JpegSynth`, `MjpegStream`: a positive buffer (`mjpeg_rtp_create` refuses
  0); entries of the base tables are bytes other than 0, as they are in
  `jpeg_synth.c`; a frame is cut into fragments that are not empty and carries tables
  if its q says so, as RFC 2435 has it; strays are sequences of bytes, below 256. Nothing
  is assumed of the number or sizes of frames, their types, the lengths and contents of
  strays, or what the network does.
* `RtspClient`: a text is a sequence of tokens with widths; an address leads to one
  camera, whose session id and challenges are words and whose body is a sequence;
  no session id and no login is NULL (`NoneAssumption`); the buffer's size is a
  natural; a session has room for the requests up to PLAY, and its numbers have at most
  two digits, which is how wide `CSeq` is in the model (`BoundsAssumption`). Nothing is
  assumed of the number of cameras or URLs, of lengths, or of how the stream is cut.
* `ConfigNvs`: nothing.

**`EventQueueHostProofs`**

* `InvariantHolds`: the inductive invariant `IInv` is the type invariant,
  `RingConsistent`, `MutexHeld` and three facts about threads in the middle of a
  call: who may be at which statement (`Placed`), that a receiver holds no event
  before it loads one (`NothingYet`), and that a thread between writing the slot and
  moving the index still finds its event there (`MidUpdate`). The last is what the
  mutex is for, and without it neither the type of what a receiver returns nor the
  refinement can be proved.
* `TypeCorrect`, `RingStaysConsistent`, `MutexAlwaysHeld` follow from it.
* `NoWakeupIsLost`: given `IInv`, both halves of `NoLostWakeup` are inductive. The
  argument counts: a step either leaves `count` and the awake threads alone, or
  adds an event and, if anyone sleeps, wakes one more (`PostCommit`), or takes an
  event and one awake receiver away together (`RecvCommit`); a receiver goes to
  sleep only when the queue is empty, and by a spurious wakeup a thread only leaves the
  wait set. A timed wait that expires in the wait set only leaves it, too; one that
  expires on its way out is an awake thread the less, and `takenEmpty` makes up for it.
* `HostImplementsEventQueue`: the mapping sends `count` slots from `head` on to the
  queue, a thread's statement to the call it is in, and hides an event loaded but
  not yet taken off. `PostCommit` maps to `PostOk`, `RecvCommit` to `ReceiveOk`, the
  refusals and `Expire` steps to the failures, all other steps inside a call to no step.

**`DispatcherProofs`**

* `TypeCorrect`, and from it `ObserverAlwaysInStep`.
* `DispatcherImplementsCallFlow`: `CallFlow` needs that a door release ends in the
  call it began in, and `prior_before_door` keeps values from earlier calls. The
  strengthening `DoorPrior` says that while the door is being released it is
  `RINGING` or `LISTENING`.

**`ConfigNvsProofs`**, for any tasks, keys and values, with no assumption

* `TypeCorrect`; it includes that NVS is up while a handle works, which
  `nvs_flash_erase` and `Restart` keep by taking all handles along.
* `CommitsSurvive`: what flash may hold was promised. A set adds one value to both
  sides, a commit leaves one, and those of torn sets, on each. An erase takes values
  away that were promised, so the invariant `NoEraseAhead` is needed beside it: after a
  firm commit no task is about to erase and none can come to be, because the handle
  that committed says NVS is up; before the first commit since a start that may erase,
  `Nothing` is promised for every key.
* `EraseNeedsRefusal`: an invariant over all opens at once, `ErasePath`, is needed. A
  task decides to erase on what it saw before another task erased, so the invariant
  speaks of what was found at the start: the partition is as found or good, and a
  task about to erase found it refused.
* `SettledIsSafe`: in a settled store the steps of `ensure_nvs_init` are not enabled,
  and `CfgOpen` passes them by; the flag is never cleared.

**`ConfigHostProofs`**

* `TypeCorrect`: no key ever has two entries, though `get_or_create` and `cfg_erase`
  walk the list by hand.
* `Implements`: the list implements the map of `Settings`. The types are not enough:
  `cfg_get_blob` copies `len` bytes, and that `len` is the length of what is there is
  the other half of the invariant (`LengthsRight`). The argument goes by the effect of
  an operation on a list, for each key: `Put` changes the value of one key
  (`PutEffect`), `RemoveAt` takes one away (`RemoveEffect`), and a search finds the one
  entry there is (`FindsIt`). A set whose copy fails maps to a set that spoils the
  key, one that cannot create an entry to one that changes nothing.

**`ToneHistoryProofs`**

* `Fires`: `FiresAsDefined` speaks of runs of any length, but the detector starts to
  count from 0 again whenever it fires. The invariant `Counted` joins the two: the
  count is the length of the loud run modulo the frames needed. `TypeCorrect` says
  that the count never reaches the number of frames it waits for.

**`MjpegStreamProofs`**

* `PayloadComesBack`: with any number of CSRCs, any extension and any padding, the
  parser finds the payload the sender put in. `AcceptsRtp`: it accepts what RFC 3550
  calls a packet and nothing else.
* `WholeFileOrRefusal`: the writer of `jpeg_synth.c`, once it has failed, stays failed;
  so the result is all of the file, or -1 exactly if it does not fit.
* `Invariance`: the inductive invariant `IInv` says of the data held that each byte
  is in its place in a frame of the camera or another's (`Held`), that it hangs together
  (`ScanHangsTogether`), and, while fragments of a frame come in a row, that it is
  what these make up, or that the frame was dropped for a reason of its own
  (`ComingIn`); the picture is made of what was completed last (`Pictured`).
  A datagram is first reduced to what it does to the assembler (`StepCases`):
  nothing, a payload of the camera or of another, a reset. What others may send is read
  byte by byte (`ForeignFacts`); none of it is a byte of the camera's, so that the place of
  those is kept (`KeptBytes`), and what follows them at an offset follows them in their
  frame. `TypeCorrect`, `HangsTogether`, `ComesOut` and
  `IsShown` follow. `ComesOut` holds for frames cut anywhere and after any datagrams:
  the fragment with offset 0 forgets all that was before.
* `TablesOrdered`: `scale_quant` and the factor are monotone despite two integer
  quotients and the cut to a byte, for all qualities and not just those of the run;
  `QualityOrders` says so of two frames shown in a row.

**`RtspClientProofs`**

* `UrlIsSpelled`: what `rtsp_url_parse` accepts is a text that says the parts it was
  read as. Each cut at a separator puts the text back together (`Cut`, `SchemeCut`,
  `PathCut`, `AuthorityCut`), also where there is none; put one within the other
  (`SpelledOut`) they give the URL. The texts are any sequences of tokens.
* `RequestIsWhole`: `rtsp_request_build` tests line by line whether the next one fits,
  and returns the length of the whole request, complete, exactly if that fits with its
  terminator. What a fold adds up to (`FoldIsSum`) is an induction over the lines; it
  is done by hand, from the least number of lines for which it fails (`MinIs`).
* `ResponseIsFramed`: however a stream is cut by the network, `rtsp_response_parse`
  reads nothing of a response that is not all there, and always the same once it is.
  That the length announced is a natural is a hypothesis, as `content_length` is a
  `size_t`.

**`RtspSessionProofs`**, on top of it: the session, for any cameras, URLs and buffers

* `SessionStays`: the inductive invariant `SessionInv`. None of the three properties
  below is inductive: what the client makes of an answer depends on what is in its
  buffer, that on what the camera sent, and that on what was asked. The invariant has
  a part for each link.
  - `Numbered`: requests not answered yet are numbered in a row, and each is either on
    its way or its response is owed.
  - `Exchanged`: a request on its way is one `rtsp_request_build` makes in this state
    of the login (`RequestFor`); a response owed is one the camera gives to its
    request (`OwedFor`): it carries its number, a 401 comes with a challenge, a
    session with SETUP only.
  - `Stream`: the buffer and the wire together are the cells of the responses owed, one
    after the other; the invariant gives the places where they are cut.
  - `Phase`: which requests can be under way where the client is. Several at a time, and an
    answer while the client is elsewhere, happen only once the stream plays, so no
    login or session changes under a request on its way.
* `TypeCorrect`, `RequestsStayWhole` and `AnswersAsMeant` follow. The request is read
  back line by line (`SentIsOk`). For the response, the parser's fold over the header
  lines keeps the last line under each name (`CellsAreRead`, by least counterexample as
  above); a response that begins a stream is therefore read as it was meant
  (`WholeIsRead`), and by `ResponseIsFramed` also from any front of the stream that has
  all of it (`ArrivedIsRead`). Then one step: taking it leaves a stream of the others
  (`OneLessResponse`).

Only model-checked, and why:

* Liveness and what rests on fairness, which is out of the prover's reach:
  `QueueDrains`, `BlockedPostersProgress`, `AcceptedErrorIsReported`,
  `DoorTimeoutEndsRelease`, `QueueMakesRoom`, `CameraGetsItsOutcome`.

Every other property of the passing runs, the three refinements among them, is proved.

## Not modelled

* The Goertzel filter (float arithmetic); the entries of the JPEG tables; state and
  event names; milliseconds and ticks.
* `eq_destroy` with threads inside: the queue has no shutdown protocol.
  `eq_size`, `eq_capacity`, `dispatcher_state`: reads.
* Timers, UI, audio and network tasks: not in the repository, and nothing in `src`
  says when they would post or stop a timer. That a `TIMEOUT_DOOR` arrives late and
  ends the next release, or that a ring is lost to a full queue and its tone is over
  before the queue has room, is therefore listed as a hazard and not checked; the
  dispatcher accepts any event at any time, and `QueueMakesRoom` is what a task that
  retries needs of it. The same goes for rings repeated by one long tone, which the
  design document (section 5.5) suppresses and the code does not.
* RTP payload type, sequence number, timestamp and SSRC: the parser hands them out
  and no code reads them. Only with them could a receiver avoid torn frames.
* In RTSP texts: capitals, blanks around values, digits of header numbers, a session
  timeout that is not the first parameter; responses by a camera that breaks the
  protocol. A session ends when the client gives up; it does not reconnect.
* What NVS does inside: its documentation is taken at its word.

## Plan

Done: every component but `main`, which has nothing to model, and all safety properties
proved.

With the tasks of the design document, once they are written: timers that name the
release they belong to, a UI that retries, and rings through to the callback.
