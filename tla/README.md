# TLA+ models of go-chrome's socket layer

This directory holds TLA+ models of the Chrome DevTools client in `src/`, together with the TLC configurations that check them.
The part of the client worth model checking is the websocket `Socket`. Several goroutines share it:

- a caller goroutine per `SendCommand`;
- the `Listen` read loop;
- one goroutine per event handler invocation;
- whoever calls `Stop` or `Disconnect`.

The domain wrappers (`chrome.*.go`) are a thin layer above a socket. The type packages hold only data.

## Inventory of the source

| Part | Source | What it does | State it changes |
|---|---|---|---|
| Construction | `tot/socket/socket.socketer.go` `New` 16-71 | builds the socket, empty command and handler maps, starts `go socket.Listen()` | everything, once |
| Command path | `SendCommand` 403-431, `NextCommandID` 352-358, `handleResponse` 172-204 | id under a mutex; goroutine: `WriteJSON`, on error `Respond` and return, else `commands.Set`; the loop answers and deletes | `commandID`, command map, command responses |
| Read loop | `Listen` 285-345, `Stop` 439-441, `handleUnknown` 238-277 | `Connect`, `defer Disconnect`, `stopListening=false`, then read → dispatch by id / method / unknown → stop check | `stopListening`, the connection |
| Connection | `socket/socket.conner.go` `Connect` 12-33 (under `mux`), `Disconnect` 45-53 (no lock), `ReadJSON` 58-64, `WriteJSON` 69-75 (both `Connect` first) | dial, close, read, write | `conn`, `connected` |
| Event registry | `AddEventHandler` 150-154, `RemoveEventHandler` 365-387, `handleEvent` 210-233 | per-event slice of handlers; removal by `append(h[:i], h[i+1:]...)` under the map lock; dispatch ranges the slice without the lock and starts `go event.Handle` per handler | handler slices |
| Domain wrappers | `chrome.dom.go`, `chrome.overlay.go`, `chrome.storage.go`, `chrome.database.go`, `chrome.log.go`, `chrome.service_worker.go` | command: build `Command`, `SendCommand`, wait, unmarshal; `On*`: register a closure that unmarshals and calls back | none of their own |
| Protocol types | `application_cache`, `animation`, `dom_debugger` | structs and enum `String` methods | none |

`protocol.Command`, `CommandMap`, `EventHandlerMap` and the gorilla websocket are not in `src/`. Where the models need them, they are written from the spec and marked `spec_modelled` in `PROJECT.json`.

## Modules

**`Socket.tla`** covers the command path, the read loop and the connection.

Variables:
- `pc` is the program counter of each caller goroutine, of the loop (`Loop`) and of the user (`User`).
- `commandID`, `cid` and `commands` model `NextCommandID` and the command map. `commands` is a partial function from id to caller.
- `outcome`, `resolved` and `answer` record what each command's response channel received.
- `connected` and `conn` are the Conner fields. `conn = Nil` means nil.
- `trans` holds the transports dialled so far: their state, the frames the browser has queued, and the ids written to them.
- `lconn` is the transport the loop's current read uses.
- `stopListening` is the stop flag.
- `crashed` records a nil-pointer panic.
- `env` counts the environment's moves.

Actions, one per step between points where another goroutine can interleave:
- `NextCommandID`, then `WriteConnect` and `WritePayload` (the `Connect` inside `WriteJSON`, then `conn.WriteJSON`), then `Register` (`commands.Set`).
- `ListenConnect`, `ListenReset`, `ReadConnect`, `ReadConn`, and `ReceiveFrame` or `ReceiveError`. A frame with an id goes to `HandleResponse`. An event frame goes to `HandleEvent`, which starts the listeners' goroutines (modelled in `EventHandlers`) and leaves the command state alone. A read error calls `Stop` and goes to `HandleUnknown`.
- `Disconnect` in four steps: `DisconnectCheck`, `DisconnectClose`, `DisconnectNil` and `DisconnectClear`. The loop's `defer` runs it, and so does `UserDisconnect`.
- `Stop`.
- The browser's `BrowserRespond`, `BrowserDuplicate`, `BrowserEvent` and `BrowserClose`. Responses come in any order, and events are interleaved with them on the same connection.

`Connect` is one atomic step because it holds `mux`. `Disconnect` is split into steps because it takes no lock.

**`EventHandlers.tla`** models the handler slice for one event name the way Go represents it:
- a slice header `[base, len]` over backing arrays in `heap`;
- `append` writes in place while `len < cap`, and otherwise copies into a new array of twice the capacity;
- `RemoveEventHandler` shifts elements inside the shared array (`ShiftOut`) and shortens `len`.

`EventHandlerMap` is not in `src/`, but its lock discipline follows from `RemoveEventHandler`. That function calls `handlers.Get` and `Set` while it holds `handlers.Lock()`. Since a `sync.Mutex` is not reentrant, `Get` and `Set` take no lock of their own. `AddEventHandler` and `RemoveEventHandler` hold the lock from their start until their store into the Go map returns: `storing` is that store, and `StoreDone` ends it. `mapRace` records a `Get` of `handleEvent` made during a store.

`HandleEvent` reads the slice header without the lock. `RangeHandlers` then indexes the array one element at a time, which is Go's `range` over a slice: the length is fixed when the loop starts, and the elements are read live. Each step starts a goroutine, and `Handle` runs that goroutine's closure. The closure is the one every `On*` wrapper builds: it unmarshals the payload and calls the callback, or logs on failure.

**`HandlerRegistry.tla`** is the abstract registry that the spec promises: an ordered list where `Add` appends and `Remove` deletes the first equal entry. `EventHandlers` instantiates it with `registered <- Registered`, which maps the slice to the sequence it denotes. The run `handlers_registry` checks `Abstract!Spec` as a property.

**`DomainCommands.tla`** models the 78 command wrappers of `chrome.*.go`.
- Each wrapper is a record: its wire method, split into a domain prefix and a name, and which of the two bodies it has.
- The "err" body (`ErrCall`) is `SendCommand(command); return command.Err`.
- The "result" body (`ResultCall`) checks `command.Err`, then `command.Result`, then the `json.Unmarshal` into the result type.
- The tables `DOMWrappers`, `LogWrappers` and the rest list the methods each file sends.

The `SendCommand` that these wrappers call belongs to the `chrome` package's `Socket`, which is not in `src/`. Following the spec, it is taken to return once the command is resolved. This module is therefore not composed with `Socket.tla`, whose `tot/socket` API is a different one.

The `On*` event wrappers are the tables `DatabaseEvents`, `DOMEvents` and the rest, one record per event name a file registers. The action `On(e)` is the `AddEventHandler` call of such a wrapper, and `registered` records the name it registered under. The closure that each wrapper registers is `Handle` in `EventHandlers.tla`.

The browser (`Answers`) answers a method of a domain it implements with a result (which may fail to decode) or a protocol error. It answers any other method with "method not found". The transport may fail instead.

**`CommandFuture.tla`** is the abstract promise of the command path (spec sections 2 and 3). Each caller's command is a future that is `idle`, `pending`, then `ok` or `err`. `ResolveOk` records the resolution and whose request it answered. `Socket` instantiates it as `Future` under this mapping:
- `future[c]` is `idle` while the caller has not started, `pending` until its channel receives, and then the outcome received;
- `deliveries` is `resolved`;
- `origin` is `answer`.

The run `socket_safety` checks `Future!Spec` as the property `CommandFutureRefinement`. The single property replaces two invariants of the first version ("resolved only by its own response" and "at most once"). A second delivery, or a delivery of another caller's response, is a step that `CommandFuture` does not allow.

`MC_Socket.tla`, `MC_EventHandlers.tla` and `MC_DomainCommands.tla` supply the model values. The last one supplies the protocol's domain names.

## Runs

| Run | Expect | What it shows |
|---|---|---|
| `socket_safety` | pass | Two callers, failing dials, a browser close, a duplicate response, user Stop and Disconnect. The command path refines `CommandFuture`: every command is resolved at most once, by its own response or by an error (`CommandFutureRefinement`). |
| `socket_connloss` | pass | If the browser closes the transport that the loop reads, the loop ends, or the process has crashed (`ConnectionLossEndsLoop`). A command that is registered while the answer to its request is still ahead of the loop is resolved, unless the loop stops, fails or crashes first (`RegisteredCommandsResolved`). |
| `socket_nilconn` | violation | The loop's deferred `Disconnect` after a browser close sets `conn = nil` while a caller sits between `Connect` and `conn.WriteJSON`, so `WriteJSON` panics (`NoNilConnUse`). |
| `socket_stop` | violation | A `Stop()` that arrives before `Listen` reaches line 294 is overwritten (`StopNotLost`). |
| `socket_resolve` | violation | The answer is read before `commands.Set` and dropped, so the caller never gets a response (`CommandsEventuallyResolved`). |
| `socket_leak` | violation | Two `Disconnect`s without a lock: the user's `Disconnect` closes transport 1 and pauses before `socket.conn = nil`. The loop's own `Disconnect` then completes, and a caller's `Connect` dials transport 2. The user's `Disconnect` then clears `conn`, which leaves transport 2 open and held by nobody (`NoLeakedTransport`). |
| `domain_surface` | pass | Every wrapper, for every possible answer, returns that answer's error (or a decoding error) and otherwise the decoded result (`SurfacesOwnResponse`), which is what spec section 7 requires. Every `On*` wrapper registers under a name of a protocol domain (`EventNamesInProtocol`). |
| `domain_methods` | violation | The Storage wrappers send `storage.*`; the protocol's domain, which the same file uses for its events, is `Storage`. Every Storage command gets "method not found" (`MethodsFound`). |
| `handlers_registry` | pass | The slice implementation refines `HandlerRegistry` (`RegistryRefinement`). |
| `handlers_adds` | pass | With only additions racing an event, through both reallocation and an in-place append, the event starts exactly the handlers of one registry state that it observed (`FanOutLinearizable`). |
| `handlers_fanout` | violation | A removal during dispatch shifts the shared array, so one handler starts twice and another never starts. |
| `handlers_maprace` | violation | A single `AddEventHandler` and a single event are enough: `handleEvent`'s unlocked `Get` reads the handler map while the add's store into it is in progress, a concurrent map read and write that the Go runtime aborts on (`NoMapReadDuringWrite`). |

`PROJECT.json` lists the findings, the hazards and, for every property of a passing run, the mutant that breaks it.

## Bounds

Socket:
- Two callers are enough for one command's answer to be misdelivered to the other.
- `MaxConns = 2` lets a second dial happen after a close.
- At most one browser close, one duplicate, one `Stop` and one user `Disconnect` are allowed. Each race above needs only one of each. `socket_leak` turns off every fault except the single user `Disconnect`: the leak needs only that `Disconnect`, the loop's read failing on the closed transport, and one caller's redial.
- The passing runs allow one event frame (`MaxEvents = 1`), so an event can sit in front of a response. The violation runs send none, because their traces need none.

EventHandlers:
- With adds only, the first three adds each reallocate (capacity 0→1→2→4) and the fourth appends in place. `handlers_adds` therefore allows four adds, so that an event's range meets both. One event suffices, because the event's range is what races the adds.
- The registry run combines three adds with two removals, which shift elements inside a shared array. `handlers_fanout` uses two events.

Larger bounds grow the state space past what TLC explores in minutes and add no new interleaving pattern.

Deadlock checking is off because every goroutine eventually stops: callers return, the loop breaks, and the user and browser run out of moves.

## Fairness

`FairSpec` assumes weak fairness for:
- each caller's `SendCommand` step, the loop and the `Disconnect` steps, because the Go scheduler runs every runnable goroutine eventually;
- `BrowserRespond`, because Chrome answers every command it receives.

The user and the browser's closes and duplicates get no fairness: they may happen, but nothing obliges them.

The `EventHandlers` runs check only safety, so that module has no fairness.

## Not modelled

- Event frames pass through `Socket`'s read loop, but the fan-out that `handleEvent` performs is modelled only in `EventHandlers`. The registry does not touch the command state, and the product of the two state spaces is out of TLC's reach in minutes.
- `handleEvent` starts every listener with `go event.Handle(response)`, so their callbacks run in any order, while spec sections 4.3 and 8 say registration order. This follows from the `go` statement itself. `Handle(j)` lets the goroutines run in any order, but no run is spent on the divergence; it is listed as a hazard.
- `handleUnknown` answers command 0 and never deletes it. `NextCommandID` increments before it returns, so ids start at 1 and no command 0 is ever registered: in the model `HandleUnknown` never resolves anything.
- A callback that panics is not modelled. Neither the closures of `chrome.*.go` nor `handleEvent` recover, so such a panic ends the process, while spec section 4.3 asks for each invocation to be isolated. This needs no interleaving to show, and the model's `Handle` covers only the decoding failure that the closures do handle.
- The response channel is assumed never to block.
- `RemoveEventHandler` returns nil when the handler is not in an existing list (line 386), while spec section 4.3 says it should report NotFound. The model records the returned value in `lastRemove`. No run is spent on this: it is one return statement, and a unit test reaches it directly.
- `Database.GetDatabaseTableNames` is an "err" wrapper, so it discards the result that its command returns.
- The type packages `animation` and `application_cache` are plain structs with JSON tags. They have no operation and no state, so there is nothing to explore.
- `dom_debugger.DOMBreakpointType` has a `String` method but no `MarshalJSON`. `SetDOMBreakpointParams` and `RemoveDOMBreakpointParams` therefore encode their `Type` as 0, 1 or 2 rather than the protocol's `"subtree-modified"` and the other names, and `String` panics on any other value. No wrapper in `src/` sends these params, and a single `json.Marshal` test shows the problem, so no run is spent on it.
- Logging, the JSON text and URLs are not modelled.
- After a user `Disconnect`, the loop's next `ReadJSON` calls `Connect` and dials again, so the loop goes on reading. This is the per-call "ensure connected" that spec sections 4.1 and 4.5 prescribe, so it is not a finding. `ConnectionLossEndsLoop` is therefore stated only for a close by the browser.
- Commands still registered when the loop stops (by `Stop` or a failed read) are never answered. `RegisteredCommandsResolved` excuses a stopped loop, so no property covers this; it is listed as a hazard.
