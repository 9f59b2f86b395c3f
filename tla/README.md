# A verification development of BilibiliBoardServer

TLA+ specifications of this repository's program, the configurations that check
them with TLC, and theorems about them checked by TLAPS. Paths such as
`Connection.cpp:174` are relative to the repository's root; the sources are
GBK-encoded. `PROJECT.json` lists, definition by definition, the lines modelled.

## 1. The system

One Windows process. Its first purpose (ReadMe.txt) is a *board* with the
followers and videos of a Bilibili channel and their rise since the day began;
around it is the client of a home alarm.

    bilibili.com <--curl-- board thread --file--> bilibilicfg.dat
                              ^ SendMessage
    browser --http--> http thread (request_handler)     window thread --file--> player
                                                          | starts the board thread
    alarm server <--TCP-- io thread (Connection, NetworkClient)
          ^                   | queues under mutexes
          `--TCP lookup-- window thread (AlarmClientDlg, NetworkClientSync)

| component (files) | state | operations | hard behaviour | what makes it correct |
|---|---|---|---|---|
| send side (`Connection`) | `m_SendPackCollect`, `m_Sending`, `m_pSendBuff`, `m_iSendPackCount` | `send`, `doSend`, `handWrite` | callers race the write handler; memory of a pending write | each accepted pack leaves once, whole, in order, from memory that stays put |
| receive and close side (`Connection`) | socket, `m_IP`, `m_isClose`, the reading | `startRead`, `handReadHead`, `handReadBody`, `close` | `close()` from several threads, swallowed exceptions | a failed connection is closed and notified |
| server (`NetworkServer`) | `m_ConnectCollect`, queues of packs, new and closed connections, two of the mutexes | `start`, `connect`, `handleConnect`, `update`, `closeConnect`, `getConnectByIP` | io threads, main thread, users; lock order | table, announcements and sockets agree; accepts go on |
| client (`NetWorkClient`) | `m_pConnect`, `m_isConnect`, queues | `connect`, `handleConnect`, `update`, `send` | superseded connections whose ends arrive late | see the alarm client |
| alarm client (`AlarmClientDlg`) | `m_serverAddr`, `m_nextConnect`, `m_lastHeartbeat`, `m_heartbeatSend` | `update`, `connect`, `onConnect`, `onCloseConnect`, `processHeartBeat` | timeouts, retries, silence, crossing callbacks | never gives up, never storms, is registered while its heart beats |
| lookup (`NetworkClientSync`) | `m_Socket` | `connect`, `send`, `closeconnect` | answers in pieces, stale answers, closing servers | an answer is one whole answer; no socket lost |
| pack (`NetWorkPack`) | buffer, decrypted copy | constructor, `resize`, `getData`, `setUserData` | encryption order, cached decryption | what is read is what was sent |
| board (`BStationBoard`) | `m_mapAVData`, `m_mapAVDataCurrent`, the day's first data, the window, the file | `OnTimer`, `updateFansNum`, `updateVideoList`, `saveCfg`, `loadCfg`, `OnGetFansAndAvListJson` | crash between steps, failing transfers, the day's roll over, blocking requests | rises are against the counts of the day; a saved day survives |
| http handler (`request_handler`) | none kept | `handle_get`, `handle_request`, `url_decode` | boundaries of the buffer, checks before and after decoding | decodes what is encoded, serves who asks |
| io services (`io_service_pool`) | `next_io_service_` | `get_io_service` | unlocked, two callers | takes turns, stays in the vector |
| event manager (`eventmanager.h`) | `m_msgMap`: slots by message | register, unregister, fire | handlers that register and unregister while a message is fired | whoever is owed a call is called, in order, once; who has unregistered is not |
| speech (`AlarmClientDlg.cpp:426-482`) | `m_vecTtswords`, `m_nextTtsTime`, `lastTtsFile`, `m_player`, `m_timerLock` | `processNotice`, `addWords`, `ttsUpdateThread`, `OnTimer` | the player's window dispatches messages, so `OnTimer` within `OnTimer`; files named by the second; any step may fail | every notice is spoken or given up, once, in order; a player has its file |
| board's thread (`AlarmClientDlg.cpp:484-523`) | `m_pThread`, `g_hwnd` | `OnRbtnBStation`, `onPopBStationBoard` | `m_pThread` written by two threads without a lock | one board; a closed board opens again |
| application (`AlarmClient.cpp`), tray, pictures | toolkit objects | starts the threads; one toolkit call each | where the threads meet | composed in `AlarmApp`; drawing is not modelled |

`PROJECT.json` "hazards" lists what is hard to test in this code, at its lines.

## 2. The modules

| module | stands for | composition |
|---|---|---|
| `FifoChannel` | abstract: a channel that delivers in order until it breaks | implemented by `SendQueue` |
| `SendQueue` | `send`, `doSend`, `handWrite` and the pending writes | INSTANCEs `FifoChannel` |
| `Connection` | reading and closing, one step per lock or call others can see | extended by the two below |
| `NetworkServer` | acceptor, table, queues, `update()`, user threads | EXTENDS `Connection` |
| `NetworkClient` | the one connection of a client and its queues | EXTENDS `Connection` |
| `AlarmClient` | the dialog's timer over the client | EXTENDS `NetworkClient` |
| `NetworkClientSync` | the lookup's blocking client against a server | |
| `NetWorkPack` | a pack from constructor to `getData()` | |
| `BStationBoard` | board, file, site, calendar, http thread | |
| `RequestHandler` | `url_decode()` in its loop, `handle_get()`, `handle_request()` | |
| `IoServicePool` | `get_io_service()` access by access | |
| `EventManager` | the vector of handlers, walked slot by slot | |
| `AlarmSpeech` | the window's timer: taking in notices, speaking one at a time | |
| `BoardThread` | opening and closing the board, access by access of `m_pThread` | |
| `AlarmApp` | the threads together | EXTENDS `RequestHandler`, `AlarmSpeech`, `BoardThread` |
| `MC...` | constants for TLC | extends the module it is named after |
| `Picked` | what a queue holds of some set, in its order | used by `NetworkServer`, `EventManager` |
| `...Proofs` | theorems | extends the module it is named after; `NetworkBaseProofs` is about `EventManager`, `IoServicePool` and `NetworkClientSync` |
| `BasicLemmas` | induction over naturals and sequences, `Picked` | used by the proofs |

Variables and actions have the names of the members and functions they model.
A function is one action where nothing outside can tell (it runs under a lock,
or on the only thread that touches its data), otherwise a chain of steps with a
control variable (`at`, `step`, `call`, `stage`). Definitions marked *Mutant* are faulty
variants of the definition after them; every property is violated under at
least one of them.

### Correspondence worth knowing

- **`SendQueue`.** Memory is modelled by name: a pending write refers to the batch
  buffer or to a queued pack, and `Source` says what it reads now. `wire`, `accepted` and
  `failed` are history.
- **`Connection`, `NetworkServer`.** `at[t]` is where thread `t` is in a handler; mutexes are their
  holders. `m_NewConnectCollect` is only used under its own lock, which is
  never nested: its uses are one step each. A peer may end (`eof`) or `reset` at any
  time; `remote_endpoint()` throws after a reset, which `startRead` swallows. What arrived before an end or a
  `close()` is still handled (`ReadArrives`). `connect()` gives a connection the key it was asked for with
  (`Asked`, a name and a port), which `startRead` replaces by the numeric one (`Address`); a name nobody resolves
  throws out of `connect()` (`connectThrows`). `closeConnect()` and `getConnectByIP()` look up the numeric key
  of what they are asked for (`Numeric`).
- **`AlarmClient`.** Times are distances to now, cut off where the code makes
  no further difference, so that no clock has to be bounded. `registered` is history: the last connection a
  registration was sent on; so is `crossed`: since then a close, of whichever connection, was
  reported while another connection was being made.
- **`NetworkClientSync`.** The bytes of an answer are tagged with request and place.
  A head that was not read whole has any kind and any of `Lengths`, which is what the stack may hold, or a length `new` fails for.
  `write_some()` may send a part of a request only: the other end is then `lost` to the requests that follow.
  `unawaited` is history: an answer on this connection was not waited for.
- **`NetWorkPack`.** Encryption works on bytes as numbers; lengths wrap at `Word` (2^32).
- **`BStationBoard`.** `OnTimer` is a chain of steps, each of which can be the last
  before a crash. `fopen("wb")` empties the file; `fclose` writes it at once: 14 videos of
  276 bytes and 12 bytes fit the buffer of a FILE. Both opens may fail, also `loadCfg`'s of a file that has a day:
  the board then runs on as if there was none (`unread`, history). A video's four counts are treated alike
  and stand as one; one that is no integer is kept as any of `Garbage`, with a blank in the window, and differences
  are those of ints (`Minus`). `curmonthday` is the day, `tm_mday` what the code compares.
- **`RequestHandler`.** Characters are codes; what is behind a terminator is any of `Junk`.
- **`IoServicePool`.** Every load and store of `next_io_service_` is a step.
- **`EventManager`.** `fireMessage` is a walk, with the handler's own calls between two of its steps.
  `capacity` grows as the library's vector does; a `push_back` that moves the vector from under a walk leaves
  an iterator whose use is undefined, and there the model stops (`invalid`). A message fired by a handler of another is left out:
  no handler here fires one. `due` and `registered` are history.
- **`AlarmSpeech`.** `timers` is the stack of `OnTimer`s under way: making and destroying the player's
  window may dispatch messages, of which `m_timerLock` lets no second `OnTimer` pass. Files have the name of the
  first notice spoken in their second (`second`). `curlGet`, the file and the player's device fail at will. `silent` is
  history: the files no player was made for.
- **`BoardThread`.** The thread runs from `new boost::thread` on; the assignment to `m_pThread` is a later
  step (`starting`). `early` is history: a thread was over before it was assigned.
- **`AlarmApp`.** `SendMessage` of the http thread returns once the board's window takes messages or is
  gone. Decoding an uri touches nothing the other threads do: they move beside the
  requests of the bound `Beside` only, once decoded, which leaves out no interleaving that matters.

## 3. What the runs show

| run | question | bounds |
|---|---|---|
| `send_queue` | Do packs leave once, whole, in order, from stable memory, and does the send side implement `FifoChannel`? | 5 sends; sizes 2, 3, 6 for a limit of 5: batches that fit exactly, that do not, a pack larger than the limit |
| `server_events` | Do table, announcements and sockets agree, is every close reported and every `connect()` answered, a failure under the key asked for, a success under the numeric one? | one io thread; 1 accepted connection with a pack, 1 opened by name, good and bad heads, eof and reset |
| `server_threads` | With reads on another thread than the accepts, and a main thread that looks up and closes connections between two calls of `update()`: are packs dispatched once and in order, is what is read listed, is a close notified once per thread, is the acceptor always armed? | two io threads, main; 2 accepted connections, 2 packs of the one and 1 of the other, good heads and eof (resets and bad heads are in `server_events`). The four are proved for any users on threads of their own, which are too many states here and can stop everything (section 5) |
| `server_delisted`, `server_lookup` | violations, section 5 | 1 connection |
| `alarm_silence` | With every kind of failing server: some timer is set, the connection established last is registered while the heart beats, connects are apart, silence is answered | 2 connections, which may be alive at once: the one may be superseded by the other and end later. One peer sends a pack or a bad head and leaves in any way, the other stays and is silent. The waits are 0, 1, 2, 3, 4 for the code's 1, 5, 10, 15, 30 s: their strict order. The three safety properties are proved for any number of connections and any waits |
| `board` | Does a day have counts, does it survive crashes, do followers, rises and counts agree, does each day dawn, is each request answered? | 3 days of months of 2, so that a day of the month recurs; 2 titles, lists of one video with a count that was read (1) or one that was not, whatever it holds then (-2); 2 follower numbers; differences modulo 8 |
| `pack` | Is what is read what was sent? | every byte; pairs that differ in either half |
| `application` | Does `url_decode()` stay in its buffer, does what an uri stands for decide the reply; are notices spoken once, in order, from a file that exists, and none kept waiting; is there one board, the one requests go to, that can be opened again? | every uri of up to 5 of 7 characters: enough for an encoded character anywhere, cut anywhere, in and around the target or a ".."; 3 notices, room for two `OnTimer`s within each other, 2 boards' threads |
| `events` | Is whoever is owed a call called, in order, and nobody who unregistered? | 2 messages, 2 objects, 4 slots: the vector grows four times, in and out of a firing, and an object is registered several times |
| `sync` | Is no socket lost, does failure disconnect, is an answer whole, does `send()` return? | 4 requests, awaited or not, bodies of 3 bytes in any pieces; half of the initial states (`rough`) have requests and heads cut anywhere, lengths of 0, 2, 3 or 7 nobody sent, and servers that close |
| `pool` | Do the io_services take turns, and does the index stay in the vector, as long as calls do not overlap (`TakesTurns`)? | pools of 1 to 3, 2 threads, 3 rounds |

The sizes are the smallest at which the hazards occur: two connections for an
order between them, two titles for one that is new, two days of the month
for a roll over that is missed. Lists of several videos, or with one title twice, are beyond the run of the board
(`RisesMatchBaseline` is proved for them). The type invariants of the send queue, the server, the board, the pool and the event manager are proved (the pool's as part of its
invariant); that of `AlarmClient` holds in `alarm_silence` when added to its INVARIANTS. Deadlock is checked except where the bound on
sends, uris or calls ends a behaviour (`send_queue`, `application`, `pool`), the program is
undefined (`events`), or
users' threads wait for ever (`server_lookup`: section 5).

### Fairness

Only what the code's scheduling gives.
`SendQueue`: a pending write reaches the wire or fails. `NetworkServer`: a started handler runs to its end, the
main loop calls `update()`, a read of a dead socket completes; strong where a
step waits for a mutex that is held for a moment once a frame. `AlarmClient`: the
window's timer fires (weak) and seconds end between two of its calls (strong);
nothing is assumed of the network. `BStationBoard`: timer and transfers (10 s, `CURLOPT_TIMEOUT`)
end; a message sent from another thread is handled before the next timer message (strong); for
`DayDawns`, that some list arrives again and again (`SiteAnswers`). `NetworkClientSync`: the caller reads, the
server answers. `AlarmApp`: the window's thread runs and its timer fires (strong: a click on the menu keeps the
thread, until `m_pThread` is assigned), that assignment happens, seconds pass; user, boards and requests
may do nothing.

## 4. What is proved

For every value of the constants, under the modules' `ASSUME`s (TLC evaluates
each in its runs):

- **`SendQueueProofs`**: types, `NothingMislaid`, `InOrder`, `OneWriteAtATime`, `WriteMemoryStable`,
  `BatchFitsBuffer`, `BatchIsUnique`, and that each step is a step of `FifoChannel` or a stutter.
  *Argument:* order alone is not inductive: it says nothing of the packs in
  the pending write, nor of the queue. `NothingMislaid` accounts for every accepted pack: those on the wire, then those of the
  pending write, then those queued, are `accepted`, and the count `handWrite` is going to pop is that of
  the packs in the queue that the write has. The others follow from it. That the batching loop
  ends in exactly one place is by induction over the prefix sums (`BasicLemmas`).
- **`AlarmClientProofs`**: `NeverAbandoned`, `AttemptsApart`, `HeartbeatIsRegistered`, for any number of
  connections alive at a time. *Argument:* `Timers` gives for each place in
  `update()` what is set there: it is cleared before `connect()`, and each way out of
  `connect()` sets it again or has a malformed address. `Registrations` is about any moment, also in the middle of `update()`: unless a disconnection has crossed a connect since the last registration,
  `m_pConnect` is registered or an announcement is on its way (`Registered`), and whenever one is, or a connect is pending,
  the address is known (`AddressKnown`), so that `onConnect()` will register.
- **`BStationBoardProofs`**: types, `DayHasBaseline`, `SavedBaseline`, `RisesMatchBaseline`, `FansRiseAgrees`. *Argument:*
  `Baselines` adds when the counts in memory differ from the file's: only between `BeginDay` and the
  write of `saveCfg`, when the day in the file is older or the file is empty; all of that of boards that could open the file (`~unread`).
- **`NetWorkPackProofs`**: `RoundTrip`, `PacksAreRead`, from the arithmetic of a byte (exchanging its halves and
  flipping a bit each undo themselves) and `InFlight`, which says what each stage has of the pack.
- **`NetworkServerProofs`**: types, `AcceptPosted` and `PacksInOrder` for any threads, connections and endpoints; the others
  under the hypotheses their statements name. *Argument:* `Life` says of each connection who may be at what with it, from
  before its accept to after its `close()`: nobody while it is `Unborn`, one thread alone while it is `Opened`, and in
  `close()` the thread of its reads, or of the failed handler, and the users (`Closers`), each with its key (`Keyed`).
  On it rest, one by one:
  - `ReadingIsListed`: what is queued for `update()` belongs to closed connections (`QueuedClosed`), so an entry is erased of closed ones only.
    Hypothesis `DistinctAddresses`, no two connections share a key, asked for or numeric: the table is keyed by it, and `insert()` does not replace (section 5).
  - `ClosedOncePerThread`: closings reported, queued or on their way are no more than the threads that may be in
    `close()` (`Budget`). Hypotheses: `DistinctAddresses`, since reports are counted by key, and finitely many users.
  - `ClosedLeavesTable`: hypothesis `OneIoThread`. Then nobody closes a connection before it is entered into the table (`Fresh`), and
    a closed one that is in it is being notified or queued (`Leaves`). With two io threads it is false: `server_delisted`.
  - `ToldOnce`: announcements are counted together with those queued (`AnnouncedOnce`). Hypotheses: `DistinctAddresses`, and nobody calls
    `closeConnect()`; with users the end may be told once per thread, which is `ClosedOncePerThread`.
  - `PacksInOrder` rests on types alone: what was dispatched and what is queued of a connection are what it has read.
- **`NetworkBaseProofs`**, the pool: `TakesTurns`, for every pool and any callers. *Argument:*
  `Turned`: the io_services below the index were returned once more than the others; `Turn` says at which
  point of a call the index has moved on, as long as the call is the only one.
- **`NetworkBaseProofs`**, the event manager: types, `RemovedNotCalled` and `FiredInOrder`, for any objects, messages and vectors. *Argument:*
  `Kept`: a slot that is not empty belongs to an object that is registered; unregistering empties all slots of the
  object and moves none, so it holds also in the middle of a walk. `InOrder` adds that the walk is inside the vector and that what is owed
  are the handlers ahead of it: what registering appends to the one it appends to the other, and what unregistering empties
  in the one it takes out of the other (`HandlersAppend`, `HandlersEmptied`).
- **`NetworkBaseProofs`**, the synchronous client: `SocketsAccounted`, `FailureDisconnects`, `AnswerIsWhole`, for any lengths of head
  and body, kinds of requests and number of them. *Argument:* `Apart`: whoever is in `connect()` has no socket and no bytes.
  `Whole`: the unread bytes are answers one after the other (`Together`, `InTurn`), the first of them begins with its head unless a body is being read,
  and then it is the byte that the body lacks next (`Reading`). `Alone`: as long as every answer was waited for, there is one answer at most
  on its way, that of the present request, so the one returned is its own.
- **`AlarmAppProofs`**: `OneBoardShown`, `BoardReopens`, `BufferHolds`, `ServesTarget`, `WordsInOrder`, `PlayerHasFile`, for all uris,
  any number of notices, `OnTimer`s and boards, and any moves of the threads. *Argument:* invariants of separate
  parts of the state. `Owned`: a thread that has not deleted its object is the one `m_pThread` points to or is about to.
  `Decoded`: the buffer is no longer than what was read. `Meant`: what has been decoded, followed by what the rest stands for, is what
  the uri stands for (`Meanings` gives that of every rest, as a recursive function); at the end the rest is empty. `Speech`: `m_timerLock` leaves one `OnTimer` at a time (`OneTimer`), so the notice asked for
  is still the first when it is erased; and a file's name is used again only in its second, in which no player was made for it (`Named`):
  one that is made sets `m_nextTtsTime` to that second or a later one.

`SetInduction` and `SeqInduction` (`BasicLemmas`) turn induction into a statement about sets, from the well-foundedness of `<`;
recursive definitions (`PickedTo`, `Meanings`) are functions, each with a lemma that it satisfies its equation.

Every safety property of a passing run is proved, those of the server under the hypotheses named above, and the steps of the refinement of `FifoChannel`. Only model-checked: all liveness, since
TLAPS does not reason about fairness here (`EveryPackLeaves`, the fairness in `ImplementsChannel`, `CloseReported`, `ConnectAnswered`,
`SilenceReconnects`, `DayDawns`, `RequestAnswered`, `NoticesHandled`, `SendReturns`), and the two violations of section 5.

## 5. Disagreements found

Runs that TLC must find violated:

| run | what the code says of itself | what happens |
|---|---|---|
| `server_delisted` | closed connections are taken from the table (`NetworkServer.cpp:330`) | reading starts before the insertion: closed first, inserted after, listed for good |
| `server_lookup` | `getConnectByIP` is thread safe (`NetworkServer.h:169`) | `closeConnect` and `update` lock two mutexes in opposite orders |

Seen in the modules, without a run of their own:

- disconnections are broadcast (`NetworkServer.h:128`), but a reset before `remote_endpoint()` is swallowed
  (`Connection.cpp:65`): announced, never reported gone. `CloseReported` therefore speaks of
  connections that are being read.
- The table has all connections (`NetworkServer.h:248`), but `insert()` does not replace: the second connection to
  one address is read and not listed. The runs give each connection an address of its own.
- A connection made to a host by its name is announced, listed and reported closed under the numeric address
  (`Connection.cpp:54`), reported failed under the name (`NetworkServer.cpp:128`): `ConnectAnswered` says both.
- A board whose file cannot be opened although it is there (`BStationBoard.cpp:221`) begins the day anew, and saves that
  beginning over the one in the file. `SavedBaseline` excludes such boards until they have saved (`unread`).
- A count that is no integer is stored uninitialised (`BStationBoard.cpp:120`, `:178`) and may be what the next day's rises
  are against; `RisesMatchBaseline` says only that no rise is shown for the count that was not read.
- Round robin (`io_service_pool.cpp:72`), but the index is not locked and `connect()` and `waitConnect()` call from two
  threads: turns are lost, or the vector is read past its end. Hence `overlapped` in `pool`.
- `url_decode` returns false for an invalid encoding (`request_handler.hpp:42`): it always returns true.
- Listeners may hear of the end of a connection before they hear of the connection: `update()` has taken the queue of new
  connections when one is announced and fails, and then takes the queue of closed ones (`NetworkServer.cpp:299`, `:322`).
  The code promises no order across its queues. `ToldOnce` counts the calls; in the alarm client the same is `crossed`.
- After the last speech its file is deleted (`AlarmClientDlg.cpp:459`) before the player that has it open is
  destroyed (`:463`): where an open file cannot be deleted, the files stay. `PlayerHasFile` is about the opposite: none is missing.
- A board closed before `m_pThread` is assigned (`:488`) finds a NULL pointer; the assignment that follows then
  keeps the menu from ever opening a board again (`early`).
- A handler that registers another for the message being fired may move the vector from under the walk
  (`eventmanager.h:139`): the comment at `:123` takes care of removals only (`invalid`).
- `NetworkClientSync::send` connects, and disconnects after the answer (`NetworkClientSync.h:14`): it does neither.

## 6. Not modelled, and why

- Data races whose outcome is a torn pointer (`NetWorkClient.cpp:152`), destructors and
  `stop()` with handlers pending, `OnRbtnQuit` and `OnCancel`: what they do is not a state of the program. They run at its end.
- The acknowledgement of a notice and `send()` by address: a lookup followed by `Connection::send`, both modelled.
- `io_service_pool::run()` and `stop()`, `handle_post()` (always refuses), `addLister`, `removeLister` (called before anything runs).
- Messages fired by handlers of other messages, and the destructor of the event manager.
- Bodies of length 0 and lengths not made by this code.
- Listeners that call back into the server while a lock is held: none does here.
- Windows drawing, the tray icon, pictures, resources, `initimg.h`, logging, the http server, curl and json: external or without state.
- `AnswerIsWhole` and `SendReturns` are about servers that stay and heads that come whole (`rough` is FALSE):
  otherwise the code reads uninitialised bytes, or loops for ever. `SendReturns` is likewise of servers that answer.
- A board closed for exactly a month keeps the old counts: `DayDawns` speaks of the day of the month, as the code does.

## 7. Plan

Done: everything in sections 2 to 4. Next: an abstract specification of the board (a day's counts survive) implemented by
`BStationBoard`, with the refinement proved step by step, and of what listeners are told of a connection, implemented by `NetworkServer`.
