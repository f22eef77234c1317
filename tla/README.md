# TLA+ verification of rimeapi.lua

`rimeapi.lua` gives Lua programs the API of the Rime input method engine
(librime): a native module for Lua >= 5.4 (`src/main.cpp`), a binding for LuaJIT
(`rimeapi_ffi.lua` with a small C++ library, `src/noti_bridge.cpp`), a line editor
for its REPL, and a few Lua programs. This directory models the parts that keep
state, and the calls and conversions between Lua and the engine; it checks them with
TLC on small instances, and proves nearly all of its safety properties for every
instance with TLAPS. librime and the Lua runtime are external:
they are modelled as far as the code uses them.

Paths below are relative to the repository.

## 1. Inventory

| part | state | operations | what is hard |
|---|---|---|---|
| native notification queue, `src/main.cpp:1087-1191` | vectors `sessionid`, `msg_type`, `msg_value`; `noti_mutex`; `noti_func_ref`; the engine's handler | `on_message` (any engine thread), `set_notification_handler`, `drain_notifications` (Lua thread) | threads; a mutex held while user code runs; handlers that call back |
| LuaJIT bridge, `src/noti_bridge.cpp`, `rimeapi_ffi.lua:1281-1320` | `msg_queue`, `lua_queue`, one handler per `RimeApi` object | `on_message`, `drain_notifications`, `finalize_bridge`, the FFI methods | pointers into a queue that is replaced; a limit of 1000; reentry |
| configuration ownership, `src/main.cpp` | `cfg_borrowed_set`, the `ptr` of each `RimeConfig`, the engine's configurations | open, reload, close, init, `settings_get_config`, gc | who closes what; addresses used again; the collector's timing |
| levers settings, `src/main.cpp:1904-1966` | `levers_settings_owned`, its mutex, handles | `push_from_raw`, `custom_settings_destroy`, the deleter of a handle | explicit destruction against the collector's; a mutex held during allocation |
| result structs, `src/main.cpp` | what each `RimeCommit`, `RimeStatus`, `RimeContext`, `RimeSchemaList` holds; `schemalist_borrowed_set` | the get functions, the free functions, gc | two allocators for one type; refilling |
| line editor, `src/line_editor.cc` | line, cursor, history, recall position, suggestion, screen | one `ReadLine` loop over bytes | long key sequences; state kept from key to key and from line to line |
| schema tester, `schema_tester.lua` | session, custom file, deployed workspace, user dictionary, options and properties | the loop over deployments | disk against engine; dying in the middle; restart |
| API calls, `src/main.cpp` (`call_function_pointer`, the methods of `RimeConfig`) | the C++ objects of one call | convert arguments, allocate a buffer, free what is there, call the engine | Lua errors that leave C++ by longjmp; integers that change width |
| engine lifecycle, `main.cpp:1618-1627, 2330-2430`, `src/utils.h` | library handle, `rime_api`, the order of finalizers, the strings of a `RimeTraits` | require, create, initialize, finalize, collect, `lua_close` | finalizing a shared engine; unloading the library under objects; strings the collector frees |
| type glue, `src/lua_templates.h`, `src/lua_export_type.h` | metatables in the registry, userdata | register, push, convert, call a method, gc | one class in several forms (value, reference, pointer, shared pointer), each with its metatable |
| wrapped functions, `src/lua_templates.h`, `src/lua.cc` | the `C_State` of a call, references in the registry | wrap, call, raise, drop | a C++ frame that an error skips |
| utf8 library, `src/lutf8lib-compat.c` | none | `char`, `codepoint`, `len`, `offset`, `codes` | malformed and overlong bytes, positions from the end |
| REPL, `rimeapi.app.lua` | chunk lines, history, exit status | `collect_chunk`, `repl` | incomplete chunks, Ctrl-C |
| readline bindings, `main.cpp:2296-2322`, `noti_bridge.cpp:63-78`, `rimeapi_ffi.lua:527-542` | one static editor | `readline` | history passed on differently |
| console, `rime_api_console.lua` | session, engine, nested reloads | commands | `reload` inside a command |
| LuaJIT structs and configurations, `rimeapi_ffi.lua` | its own borrowed sets | as the native ones | keys and clearing differ from the native ones |
| deployer, rest of the compatibility code, tests, build | - | - | - |

How they interact: an API call made by Lua may make the engine notify on the same
thread; the maintenance thread notifies concurrently and `join_maintenance_thread`
waits for it. Drains call Lua handlers, which may call the API again. The Lua
collector runs finalizers at any allocation, those of configurations, settings and
structs alike. Settings own configurations that structs borrow. The REPL and the
console call `readline`, which is the line editor. The schema tester drives engine,
settings and configurations and shares files with the engine.

What makes each part correct:

- notifications: mutual exclusion; the three vectors describe the same messages;
  no deadlock that quiet handlers could cause; FIFO delivery, once, to the handler of
  the moment; drains, joins and notifications end;
- bridge: the same FIFO; no string is read through a pointer that died; a drain takes
  everything;
- objects of the Lua state: each engine object is freed once, by its owner, with
  the owner's function, and not lost, whatever the order of calls and collections;
- calls: an argument reaches the engine as the value Lua has, or the call raises; an error
  leaves nothing behind;
- lifecycle: no finalizer calls into an unloaded library; the engine does not outlive it;
- type glue: memory is read as what it is; what a userdata owns is destroyed with it;
- utf8: the answers are those of the encoding;
- line editor: the screen shows the line; suggestions are true; recall is predictable;
  the history stays as clean as it was given;
- tester: tests run in their own environment; files change only while the engine is
  stopped; nothing is left behind but by a tester that died.

`PROJECT.json` lists every component with its status, and every hazard at its line.

## 2. The modules

| module | models | state and actions against the code |
|---|---|---|
| `NotificationChannel` | nothing: the abstract promise | a FIFO `pending`, the `handler`, what was `delivered` to whom; a message may be discarded only while there is no handler |
| `Notifications` | native queue | `on_message` is `Notify` (strings copied), `LockMessage`, and one action for each `push_back`; a drain is `DrainCall` (lock), `DrainBegin`, an iteration `CallHandler`/`CallNil`, `HandlerReturn`, and `DrainEnd`. `luapc` and `i` are the Lua thread's place in a drain; `HandlerCalls` says what a handler may do |
| `NotiBridge` | LuaJIT queues | each scope of the mutex is one action; `frames` is the stack of drains under way, each with the generation of `lua_queue` its pointers point into; `Read` yields `Garbage` through a dead pointer |
| `ConfigOwnership` | `RimeConfig` ownership | `ptr` of the struct at each address, `cfg_borrowed_set`, what each of the engine's objects is; one action per kind of call |
| `LeversSettings` | settings and handles | `push_from_raw` is two actions, with the allocation of the userdata between them; a finalizer that must wait for the mutex is `Collect` followed by `Deleter` |
| `LuaObjects` | both together | composes the two: the settings of one are those of the other, calls need a running program, the collector may run at any moment |
| `ResultStructs` | result structs | `pointsTo` is the memory a struct points to, `memory` by whom each block was allocated, or that it was freed by the wrong side; `sides` remembers whose get functions filled the struct at an address; get, free, destroy, collect |
| `EngineLifecycle` | loading, finalizing, traits | `lua` is the state's phase, `finalizers` the userdata in the order of marking; `require` opens the library or does not find it; `lua_close` runs the finalizers backwards; that of the sentinel unloads the library |
| `ApiCalls` | one call | a table `Signature` with a representative of each signature; `Convert` takes one argument, from the left; an error leaves the C++ objects of the frame (`heap`) without their destructors; an int has `IntValues` values, a size_t `SizeValues`, and a lua_Number is exact up to `Doubles` |
| `LuaTypes` | metatables and userdata | each registration writes the metatable of one C++ type; `pushdata` adds one where there is none; `ConvertUserdata` follows `todata`, and `read` is as what form the bytes are read |
| `WrappedCalls` | `LuaWrapper`, `C_State`, `LuaObj` | `list` is what a call registered, `refs` the references of the registry; an error at any conversion |
| `Utf8` | the compatibility library | `codes` as a loop of the program, an action for each call of its iterator; decoding, encoding and positions as functions on strings of bytes |
| `LuaProgram` | all of one Lua thread | chooses one of `LuaObjects`, `ResultStructs`, `EngineLifecycle`, `LuaTypes`, `ApiCalls`, `WrappedCalls` and `Utf8`, and lets it run |
| `LineEditor` | the editor | one action per key or byte of the loop; `screen` is what `RefreshLine` drew last |
| `SchemaTester` | the tester | one action per step of the loop between two calls on disk or engine; `Fail` ends it anywhere, `Start` starts it again |
| `NotificationsProofs`, `NotiBridgeProofs`, `LineEditorProofs`, `SchemaTesterProofs`, `Utf8Proofs` | - | theorems about the modules of these names |
| `LuaObjectsProofs` | - | theorems about `ConfigOwnership`, `LuaObjects`, `ResultStructs` and `EngineLifecycle` |
| `LuaGlueProofs` | - | theorems about `LuaTypes`, `ApiCalls` and `WrappedCalls` |
| `LuaProgramProofs` | - | the theorems of the parts hold together of `LuaProgram` |

The `MC*` modules and `.cfg` files give instances for TLC. Operators with a comment
"Mutant of ..." are variants that a plausible bug would make; with one put in the place
of the original the named property fails, which shows that the property depends on
that code.

## 3. The runs

| run | instance | what it shows |
|---|---|---|
| `notifications` | 2 engine threads, 2 handlers, 2 messages without a common field, 3 notifications | type, `Aligned`, `NoWaitCycle`, refinement of the channel, and that joins, drains and notifications end |
| `notifications_reentrant` | 1 engine thread, handlers that drain, join and change sessions | the Lua thread can deadlock (the mutex is not recursive), but only from inside a handler |
| `noti_bridge` | 1 object, 2 handlers, 2 messages, 3 notifications, 2 drains, room 3 | `NoDanglingRead`, refinement of the channel |
| `noti_bridge_reentrant` | 2 objects, handlers that do anything, 3 drains | pointers die only by reentry |
| `lua_program` | below | ownership, lifetimes, conversions and errors of everything one Lua thread does, and the utf8 library |
| `change_page` (violation) | the calls of `lua_program` | `true` does not page backward |
| `traits_strings` (violation) | 2 objects, 2 results, 3 strings | a traits is read after the collector freed its string |
| `levers_settings_drops` (violation) | 3 settings, 3 handles | a collection inside `push_from_raw` never returns |
| `line_editor` | keys for two characters, a blank, a line break, arrows, Tab, Backspace, Enter, Ctrl-C, Ctrl-D, a lone ESC; length 2, history 2; three histories, one with a blank line, a line twice and more entries than the limit | screen, suggestion, recall, history |
| `line_editor_detach` (violation) | the same | Backspace on a recalled line does not detach |
| `schema_tester` | 3 deployments (option, patch of two lines, patch of one), 2 starts | tests see their own patch; disk and engine agree |
| `schema_tester_properties` (violation) | 2 deployments, one property | an empty property is not put back |

`lua_program` checks seven parts in one run. They share no variable, so a property of one
cannot depend on the steps of another, and it is enough to let each run alone: a behaviour
chooses its `part` and the others rest. (`PartsSafe` proves the safety properties of any
interleaving of the parts, and `ProgramSafe` takes them from there. The one real meeting of two parts, settings that
lend configurations, is composed inside `LuaObjects`.) Its bounds:

- objects: 2 struct addresses, which suffice for aliasing and for reuse; 4 engine objects;
  2 settings with 2 handles;
- structs: 2 addresses, each used by structs of all types one after the other and filled by any get
  function of the type at any time; 3 blocks of memory, so that both structs can hold one while
  another is lost;
- engine: 2 `RimeApi`, 1 result, 1 field: two handles on one engine, in every order with a
  struct and the sentinel;
- types: 2 classes, 1 userdata, made again as another type after it was collected;
- calls: integers from below 0 to the greatest that a size_t holds; an int has 8 values, a
  size_t 16, a lua_Number is exact up to 8, the allocator gives 7: each border has a value
  on either side;
- wrapped: 3 functions with at most 3 parameters, so that an error can fall before, between
  and after the registrations; references 1 to 3, which are reused;
- utf8: all strings of at most 3 bytes over 11 bytes at which ranges of the encoding
  begin or end, and those of 4 bytes over 8 such bytes.

Why the other bounds are enough. Two posting threads and the Lua thread give every way two
lock scopes and a waiting third can interleave; three notifications leave one in the queue,
one in a drain and one in flight at once. A line of length two has a first, a last and a full
position, and histories hold entries longer than it. Two starts are one death and what it
leaves. Objects, posts and drains are counted only to keep the instances finite. Deadlock
checking is off where the system may stop: objects that are used up, a C++ exception or a
fault that has ended the process, a tester that ended, and the reentrant instances, whose
deadlocks are the point. No symmetry is used.

### Fairness

`FairSpec` of `Notifications` assumes weak fairness of what has begun: a thread inside
`on_message`, the end of a maintenance, a drain and the return of a join. The scheduler
and the standard mutex justify that; nothing is assumed about when the engine notifies, when
the program drains, or that a waiting thread is served before others (`EverybodyReturns`
holds because the engine notifies finitely often, which `MaxPosts` stands for). `FairSpec`
of `LeversSettings` assumes that a push and a finalizer that can go on do.

## 4. Disagreements between code and documentation

Each of the five violation runs is a finding in `PROJECT.json`:

1. `push_from_raw` holds `levers_settings_mutex` while it allocates a Lua object; if the
   collector then finalizes a dropped handle, its deleter locks the same mutex on
   the same thread.
2. "editing after history recall should detach from history" is true for inserted
   characters only.
3. "reset empty after tests" is not true for a property that was empty.
4. `change_page` takes `backward: boolean`, and `scripts/api_test.lua:170` passes `true`; the
   code reads an integer, so that any boolean pages forward.
5. The members of a `RimeTraits` are strings that a program sets and reads; the setter keeps
   the pointer of the Lua string, and nothing keeps the string.

Others were met while modelling and are not runs of their own:

- `main.cpp:1246`: `get_commit` is the only get function that does not free the struct it
  fills; a second call on one object loses the first text, and `schema_tester.lua:360` and
  `rime_api_console.lua:202` make such calls. `LostOnlyByRefill` of `ResultStructs` says that this,
  and the same of the levers' get functions, is the only way to lose memory. No document says that
  a commit may be filled again.
- `main.cpp:2048`: `schema_list_destroy` leaves the mark in `schemalist_borrowed_set`. If
  `get_schema_list` then fills the same list, gc frees it with the levers' function;
  `get_schema_list` itself frees what the levers left in the list with the engine's.
  `MisfreedOnlyIfShared` says that only lists both sides were given to fill are freed so.
- `line_editor.cc:389`: a key that sends more than three bytes (Delete, `ESC [ 3 ~`) leaves
  its last byte in the line, against "ignore other keys" at line 179; a lone ESC
  swallows the next key.
- `schema_tester.lua:487`: an assertion that raises an error is a failed row, but the
  message after the deployment says " done.".
- `schema_tester.lua:357-360`: these checks compare a boolean with nil and never fail.
- `rimeapi.app.lua:220`: the status `'interrupt'` is never produced, so Ctrl-C exits with 0.
- `rime_api_console.lua:225`: `input:sub(12)[1]` is nil, so `set option !x` switches on.
- `rimeapi_ffi.lua:1298`: one drain delivers at most 1000 messages and discards the rest;
  the annotation (line 232) says "drain all pending notifications".
- `utils.h:107`: a missing librime is caught by an `assert` only, and release builds define
  `NDEBUG` (`xmake.lua:80`, `CMakeLists.txt:41`). `RimeApi()` then has a null `rime_api`,
  which its deleter calls through (the fault "missing" of `EngineLifecycle`).
- `main.cpp:1578-1582`: the `get_*_dir_s` functions raise an error when the size is left out,
  which the annotation (224-228) declares as `integer|nil`; an explicit nil raises
  wherever a size is optional.
- A negative or huge buffer size makes `make_unique` throw a C++ exception through Lua's C
  frames (outcome "thrown" of `ApiCalls`).
- `main.cpp:637-640`: `RimeConfig:get_string` narrows its size to an int.
- `main.cpp:266`: a session id beyond 2^53 is rounded on its way through a lua_Number, and a negative
  one, or a string that reads as one, is cast to the unsigned id. An integer beyond an int wraps
  around (`main.cpp:1551`). `ArgumentsKept` says nothing of these numbers.
- `main.cpp:2113`: `customize_item` accepts `RimeCustomSettings` only, where the functions
  beside it accept switcher settings too.
- `main.cpp:2064-2071` against `lua_templates.h:26-35`: the vector of `select_schemas` is a C++
  local that an error leaks; the same holds of the copies at `lua_templates.h:605`.
  `ErrorsLeaveNothing` and `CallsLeaveNothing` except just these.
- `get_current_schema` returns false where the annotation says `string|nil`.
- `main.cpp:446-454, 759-771`: menu, candidates and list items are views of pointers, stale
  once their struct is filled again.
- `result.h:92-93`: `Result<void, E>(E)` leaves its tag uninitialized; `lua_templates.h:492, 519,
  533, 549`: an error object that is not a string makes a `std::string` of a null pointer.
- `lua_export_type.h:14-16`: the metatable of a constant object held by value gets the
  finalizer of another type, which does not destroy it (`CollectedIsDestroyed` leaves such
  objects out).

## 5. Proofs

Every theorem holds for any values of the constants that satisfy the named assumptions of
its module, which TLC evaluates on every run that uses them. Most say that names
which the code cannot confuse are distinct, and that bounds are numbers. Those that say more:

- `ApiCallsAssumption`: a size_t has at least as many values as an int, which has an even
  number of them, and the allocator gives less than a size_t can ask for;
- `InputsAssumption` (`ApiCalls`): no integer of Lua is beyond what a size_t holds: builds for
  64 bits, where both have that width. `ArgumentsKept` is about those;
- `LineEditorAssumption`: what a key sends is a sequence of characters;
- `Utf8Assumption`: a string is a sequence of bytes;
- `SchemaTesterAssumption`: a deployment's patch is a list of lines or none, and the options
  and properties that it sets are among those the model gives a value at the start.

| module | theorems | argument |
|---|---|---|
| `NotificationsProofs` | `Typing`, `Mutex`, `Alignment`, `DeadlockFree`, `DeadlockOnlyInHandler`, `Refinement` | below |
| `NotiBridgeProofs` | `BridgeTypes`, `PointersLive`, `QuietHandlersReadLive`, `BridgeIsChannel` | a drain whose pointers are old has another drain or a clearing above it, made by its own handler: every frame below the innermost has been reentered (`PointersInv`), and its counters fit its queue (`CountsInv`). For the refinement, what is pending is the rest of the drain under way and then the queue |
| `LuaObjectsProofs`, configurations | `ClosesOwn`, `SettingsSafe`, `BorrowsCurrent`, `OnlyGetConfigLeaks` | `SoleOwner`, `SettingsKeepConfig` and `NoStaleBorrow` are inductive only together, with the fact that two settings never share a configuration: closing is safe because the mark tells owner from borrower, and a mark never outlives the struct at its address |
| `LuaObjectsProofs`, composition | `ImplementsOwnership`, `ObjectsTypes`, `NothingLeaks`, `OneHandle` | each step of the composition is one of `ConfigOwnership` or leaves its variables alone, so that what is proved there holds here; settings exist just while a push or one handle holds them (`Held`) |
| `LuaObjectsProofs`, structs | `StructsTypes`, `OnlyRefillLoses`, `OwnersFree` | no two structs point to one block (`Apart`), so freeing or filling one leaves the others'; a block was allocated by a side that filled its struct (`FromItsSides`), and a struct is marked only if the levers filled it, and always while it holds what they allocated (`MarkedByLevers`) |
| `LuaObjectsProofs`, library | `LibraryStays` | the sentinel is marked first and once, so it is finalized last (`SentinelFirst`), and until then what `require` found stays (`LibraryKept`) |
| `LuaGlueProofs` | `OwnedAreDestroyed`, `ReadAsWhatItIs` | every type that has a userdata has its metatable, and whoever registered it, the finalizer of an owning type is its own |
| | `CallsTyped`, `ErrorsLose`, `RegistryKept` | before the last argument is converted a call owns at most the vector of `select_schemas`; a registered reference is one of the call's, of a kept object, or lost with a copy |
| | `EngineReceives` | a conversion that does not raise yields a value that means the input (`ConvertedMeans`), one case for each kind of parameter; the arguments are converted once each, from the left, and a call that did not raise has passed all it was given (`ArgumentsInv`) |
| `SchemaTesterProofs` | `TesterTyped`, `TesterAlive`, `TesterIsolates`, `TesterCleans`, `TesterRecovers`, `TesterOffline` | one invariant (`TesterInv`) says for every point of the loop what is on the disk, what is deployed, whether a session is open and what is saved: from the first line written to the end of the tests the custom file and the workspace hold the deployment's patch and no more than what was found (`PatchWritten`, `Between`), at rest only what was found (`CustomAtRest`), and a tester that stopped elsewhere is remembered (`DeathRemembered`) |
| `LineEditorProofs` | `EditorTyped`, `EditorShows`, `EditorSuggests`, `EditorStartsAtNewest`, `EditorBounded`, `EditorKeepsDraft` | each key ends with a redraw or changes nothing the screen shows; the properties are inductive together with the types and with a bound for the draft that a recall puts back (`DraftBounded`); a caller's history may hold anything, and entering a line adds nothing unclean to it (`RememberClean`) |
| `Utf8Proofs` | `CodesSee`, `FunctionsAgreed` | below |
| `LuaProgramProofs` | `ProgramRunsParts`, `ProgramTyped`, `PartsSafe`, `ProgramSafe` | each step of the program is a step of each part or leaves it as it is, so the theorems of the parts hold together |

One theorem has a hypothesis on the constants, which the instance of its run satisfies.
`BridgeIsChannel` is for one object, handlers that neither drain nor unregister, and no more
notifications than one drain takes; with more of any of them the bridge is no such channel
(section 4, the limit of 1000, and the run `noti_bridge_reentrant`).

The argument of `NotificationsProofs`. `IInv == TypeOK /\ MutexHeld /\ LuaFrame /\ Vectors`.
Mutual exclusion alone is not inductive: that a drain holds the mutex depends on where the
Lua thread can be (`LuaFrame`: it is in a handler or a loop only if a drain is under way, and
only a handler's call can make it wait there). `Aligned` speaks of moments when nobody is
between two `push_back`s; `Vectors` says what the lengths are between them, and that the last
elements are the fields of the message of the one thread that is there. Each of the four has
a lemma with one step per action. A cycle of waiting needs the Lua thread to hold the mutex
(`CycleAtMutex`), and then it is inside a drain. For the refinement, `Pending` is the part of
the vectors from the loop's position on: `CallHandler` takes its head (`HandOver`),
`PushValue` appends to it (`PostStep`), every other step leaves it or discards it while no
handler is registered.

The argument of `Utf8Proofs`, in four parts. The decoder: the bits of the first byte give
the number of bytes (`CountFacts`), for each number the shifted bits sum up to an expression
(`ValueFacts`), and that exceeds the limit against overlong forms, and not the greatest code point,
just where the table of the Unicode standard has a row (`AcceptsTwo` to `AcceptsFour`); so the
decoder accepts at a position exactly if a character stands there, goes on behind it, and
gives the sum as its code point (`DecodeFacts`). The reference: `Starts` is a recursive
function, and that it has a value at all is shown by a walk from the end (`WalkExists`,
`WalkTyped`). The loop: the characters seen and those from the position it goes on from are
together all the characters (`CodesInv`); the test for a continuation behind a character
raises an error just where the next step would (`NoneAtContinuation`). The invariant of
`FunctionsAgreed` adds that each pair the loop gave has the code point at its position
(`CodePoints`).

The other functions are recursive functions of their own, and each is compared with `Starts`
once. The scan of `len` and `codepoint` finds, from each position, the characters from there
(`ScannedStep`, `ScanFacts`). `offset` moves a number of times in one direction, which is a
function of that number (`MoveFacts`); the characters of a well-formed string lie one behind
the other and begin with their only byte that is no continuation (`PlaceFacts`,
`PlaceBytes`), so each move over them is one character (`MoveOverPlaces`). The encoder leaves
less with each byte, so its bytes are a function of the code point (`EscapeFacts`); for two, three
and four bytes they are those the decoder took it from (`TwoBack` to `FourBack`), and the bytes
of all characters together are the string (`CharFacts`). That is induction over data, for
which the theorems of the library cannot be instantiated: `Induction` states it for a set in
place of a predicate and is derived from the well-foundedness of the numbers, and
`PrimitiveRecursion` that repeating a step is a function of how often, with a function in
place of an operator.

Every invariant and every action property of a passing run is stated by a theorem. Only
model-checked: liveness (`EverybodyReturns`), which takes fairness and ENABLED.

## 6. Abstractions, and what is not modelled

- Locking a `std::mutex` that the thread holds is undefined behaviour; it is taken as waiting
  for ever, which is what the usual implementations do. Reading through a dead pointer
  yields a distinguished value.
- librime: a maintenance with a full check always starts; opening fills `ptr` only on success;
  closing clears it.
- Line editor: the Windows branch, the arithmetic of drawing (columns, wrapped rows) and
  characters of more than one byte. `screen` records what is drawn, not where.
- Schema tester: the table it prints, and the text of patches (a patch line is its key).
- API calls: one representative of each signature; the members of the structs that are only
  read, the results, and levers iterators.
- Glue: calling Lua from C++ (`Lua::call`, `resume`, `Result`) and the conversions of plain
  numbers and optionals, which keep nothing between calls.
- `Set` of `src/lua.cc` is registered by the class `Lua`, of which the module makes no object: not
  modelled. `WRAP` and `LuaObj` have no user in the module either, nor has a conversion to a
  reference, and the utf8 library is compiled for Lua 5.2 and before, while the module asks for
  5.4 (`main.cpp:2397-2406`). These are modelled as the libraries they are.
- `LuaTypes` has the classes with the generic conversions. `RimeStringSlice` (`main.cpp:68-114`),
  pushed together with its owner, which the generic conversion to a reference would misread, and
  `RimeSession` (`main.cpp:255`), whose metatable has a string for its type, are not among them.
- Result structs: programs are taken to free what they free themselves with the function of the
  side that allocated it, as `scripts/levers_api_test.lua:105` does.
- `Interrupt` of `LineEditor` is the byte of Ctrl-C, as the code tests for it. The editor leaves
  ISIG on (`line_editor.cc:68`), so a terminal normally sends SIGINT instead, which ends the
  program; the model has these behaviours and more.
- `FinalizeBridge` of `NotiBridge` does not unload the library (`FREE_RIME`); no property is
  about that.
- The rest of the compatibility code (`lua-compat.h`, `lauxlib-compat.c`) renames or restates
  functions of Lua.
- REPL, readline bindings, console and deployer: their state is the text of Lua programs, one
  static editor (modelled), or a straight line of API calls; what was met in them is in
  section 4.
- LuaJIT configurations and structs: rules like those of the native ones, with sets in Lua.
- Two Lua states on two threads: the module is written for one (two of its sets are
  changed without their mutexes).
- Build files, data, tests and annotations.

## 7. Plan

1. Done: notifications with channel, bridge, configurations, settings and their composition,
   result structs, API calls, engine lifecycle, type glue, wrapped functions, utf8,
   line editor, tester; proofs of all safety properties of the runs.
2. Next, in this order: the LuaJIT variants of configurations and lists as a second
   implementation of `ConfigOwnership`; the REPL with the readline bindings, composed with the
   editor's history; the console's reload on top of `EngineLifecycle`; the drawing arithmetic
   of the editor and the tester's display width as functions against a reference
   definition.
3. Proofs: the invariants of what comes next.
4. The runs stay few: a new component joins a run by composition.
