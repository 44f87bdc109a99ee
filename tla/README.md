# VIIPER in TLA+

VIIPER emulates USB devices (game controllers, keyboard, mouse) in user space
and exports them over USB/IP. Clients manage buses and devices through a small
API and feed each device over a stream; a USB/IP host imports a device and
exchanges URBs (USB request blocks) with it.

This directory holds TLA+ models of the concurrent core of the program, TLC
configurations that check them on small instances, and TLAPS proofs for every
value of the constants. Paths below are relative to the repository (`src/` in
`PROJECT.json`).

## Inventory

| Part | State | Operations | What makes it hard |
|---|---|---|---|
| Virtual bus (`virtualbus/`) | registrations, addresses, per-registration fence, closed flag, empty context | add, publish, acquire and release an operation, three removals, close, close-if-empty | removers, closers and lease holders wait for one another without the bus lock; addresses and device pointers are reused |
| USB/IP stream (`internal/server/usb/urb_stream.go`, `endpoint_scheduler.go`, `response_writer.go`) | per endpoint: job slots, ring, job in flight, generation, wake token; send lock; connection | submit, unlink, lifecycle control transfer, serve, write, tear down | reader and workers race for every URB; resets and unlinks arrive while a response is half done |
| Report scheduler (`internal/inputpresentation/`) | latest state, journal of transitions, retry, one claim, producer epoch, generation | publish, resynchronise, claim, admit, resolve, retire | claims outlive the state they were taken from; deferral, overflow, age limits and reset interleave |
| Server bus management (`internal/server/usb/server.go`, API handlers) | topology, removals in progress, number pool, cleanup timers | create, remove, add and remove devices, delayed cleanup, close | three locks, multi-step removals, numbers reused while an old removal runs |
| Server connections and imports (`server.go`) | tracked connections, import leases, shutdown deadline | register, hand over, finish, import, close | shutdown racing classification and hand-over |
| Configuration and alternate settings (`server.go`) | per-device tables | standard control requests | seen by endpoint workers while they change |
| Retained imports and submissions (`retained_*.go`, `internal/retainedusb/`) | admissions, owner tombstones, session state, three bounded lanes | admit, submit, unlink, reset, retire, close | exactly-once retirement after partial failure |
| Device stream ownership (`internal/server/api/device_stream_ownership.go`) | current stream, generation, two timers | claim, wait, finish, abandon, schedule cleanup | a late timer against a reconnect; chains of replacements |
| Controller feedback (`controllerfeedback/`) | ordering watermark, claim cursor; origin slots, writer lease, Stop obligation | publish, claim, admit, complete, retire | expiry and replacement between claim and completion |
| Microphone buffer (`device/internal/microphonebuffer/`) | ring, priming, occupancy servo | queue, read, reset | wrap-around, overflow and underrun boundaries |
| DualSense, DualShock 4, NS2 Pro, Xbox 360, keyboard, mouse (`device/`) | input and output state, queues | update, endpoint transfer, reset | hand-over between stream handler and endpoint |
| Xbox One (`device/xboxone/`) | lifecycle, persona engine, coordinator, executors, broker | claim, admit, resolve, restart | multi-action transitions with failures and resets between actions |
| API server, authentication, clients, proxy, C library, encodings, command line, tray, generator | mostly requests and conversions | | |

`PROJECT.json` lists every part with its status, and the hazards at the lines
where they bite.

## Modules

| Module | Contents |
|---|---|
| `VirtualBus` | one bus, every critical section of `vb.mtx` a step |
| `RegistrationRegistry` | what a bus promises, without locks; `VirtualBus` implements it |
| `VirtualBusInv`, `VirtualBusFence`, `VirtualBusProofs` | its inductive invariant, lemmas and theorems |
| `UrbStream` | one imported connection: command reader, endpoint workers, response writer |
| `FixedReportScheduler` | one report scheduler, every call under its mutex a step |
| `FixedReportProofs` | its inductive invariant, lemmas and theorems |
| `ServerBuses` | buses of the server by number, on top of what a bus promises |
| `MC…` | model values, symmetry sets and relations for TLC |

Definitions keep the names of the source. A definition introduced by "Variant"
or "Mutant" is a wrong version of the definition after it; no specification
uses it, and each shows that a property can fail (`mutants` in `PROJECT.json`).

### VirtualBus

A registration is named by its token (the code's `registrationLifecycle`
object). `devices` is the list; `active`, `removing`, `removalDone`,
`published` and `cancelled` are sets of tokens. `readers` and `writer` are the
read-write fence of a registration. A goroutine between two critical sections
has a label in `pc`; `todo` holds the removals it has marked and must finish.
`emptySince` and `closedBy` are history. `MaxToken` and `MaxDeviceID` stand for
the largest 64-bit token and 32-bit address, where the code refuses to go on;
`MaxEmpty` bounds the empty periods explored.

`RegistrationRegistry` says that an operation is granted only on a live
registration, that a registration ends once and without an operation on it, and
that closing ends them all. `ImplementsRegistry` is its specification under
the refinement mapping.

### UrbStream

Each endpoint worker has its slots, ring, generation and one-place wake
channel as in the code, and a program counter for the points where it holds no
lock. Time is abstracted: a wait may end at any moment, so every order the
clock could produce is explored, and service-window arithmetic is left out.
The report source is modelled as the stream uses it (claims and generations);
its inside is `FixedReportScheduler`. A write that fails ends the connection.
The branch for a prepared source is left out: no device implements it. `log`
records what the host and the device saw of a URB.

The imported device is one of `Devices`: the kind of each endpoint, the
endpoint its presentation source owns (`None` without a source), and whether it
is an `isoOutGenerationDevice` (`tokens`). `processIsoOut` has both branches of
the code. A device with tokens (DualSense) refuses media whose generation is
not the current one; any other (DualShock 4) gets the payload through
`HandleTransfer`, whatever happened since `beginSideEffect`. The event "media"
is that hand-over. DualShock 4 discards the payload when its speaker interface
is inactive; `CLEAR_FEATURE(HALT)` leaves it active, and the model's reset
stands for that request as well. `ResetIsABarrier` therefore promises less for
a device without tokens: at most one late hand-over per reset, of the URB whose
side effect had begun; see Findings for the comments that promise none. Free
slots are interchangeable, so `enqueue` takes a fixed one of them instead of
the top of a stack.

### FixedReportScheduler

States are model values; `Transitions` tells which pairs of states are edges
that must not be merged (buttons) rather than continuous changes (sticks). The
bytes of a report are the state they encode; the encoders keep to the report
size that `newFixedReportScheduler` verifies. Whether the age limit has passed
is a free choice at each claim, admission and resolution. Counters and the age
histogram are left out.

### ServerBuses

Each critical section of `busesMu` or of the pool's `globalMtx` is a step.
A bus is a count of registrations, a closed flag and a named empty period. The
constant `Payloads` says which creations occur: with a number (`id`), with
number 0 (`zero`), without payload (`none`). Cleanup timers fire at any time.
`BusCleanupTimeout` is positive, as `internal/cmd/server.go` sets it.
`MaxBus` and `MaxRemovals` bound the calls that start, never one under way; an
addition beyond `MaxAdds` is refused, as a full bus refuses it. A device removal
that names a registration already being removed, by another caller or by the
closer of the bus, waits for it and succeeds: the step in which a registration
leaves takes along any of the callers waiting for it. The retained-import
bookkeeping of a removal is left out.

### How they fit together

`ServerBuses` uses buses at the level of their promises, which `VirtualBus`
checks in detail: closing fences additions, drains, then frees the number; a
cleanup of an old empty period does nothing. `UrbStream` uses a report source
with one claim at a time and generations, which `FixedReportScheduler` models
from the inside. These links are read off the two modules; no module yet
composes two components, so nothing checks the links themselves.

## Runs

| Run | Instance | Shows |
|---|---|---|
| `bus_safety` | 3 goroutines, 2 devices, 2 tokens, 1 alias, ceilings 1 and 2 | addresses, devices and aliases are unique and agree with the list, operations exclude removals, one goroutine finishes each removal, signals and the number follow the drain, old cleanups do nothing; the registry is implemented |
| `bus_returns` | 3 goroutines, 1 device | every call returns |
| `urb_endpoints` | 1 endpoint of each kind, ISO-OUT without tokens; 2 slots, 2 URBs, 1 unlink, 1 reset, 2 revoked claims | slots and claims are conserved, responses in order, a reset separates old from new as far as the device lets it, no wake-up is lost, retained URBs are answered, the connection winds down |
| `urb_streams` | interrupt-IN and ISO-OUT of a device with tokens, 2 slots each, 2 URBs, 1 unlink, 1 reset | unlink reports are exact, a reset separates old from new |
| `report_scheduler` | 3 states, journal of 2, 6 publications, 5 claims, 2 generations | claims resolvable, epochs separate, bytes right, encoded once, transitions kept in order |
| `server_buses` | 2 callers, 2 numbers, 2 buses, 2 additions, 2 removals | no undrained bus is forgotten, no closed bus stays, numbers held, used buses spared |
| `server_returns` | 2 callers, 1 number, unnumbered creation | every call returns, empty buses go |
| `urb_unlink_order`, `urb_media_reset`, `report_base`, `server_number`, `server_remove` | the smallest with the race | violations, see Findings |

The bounds are the smallest in which each race has all its parties: a remover,
a closer and a lease holder; two URBs of one endpoint around an unlink and a
reset; a journal that fills with promotion; a removal, a cleanup and a
successor with the same number. Larger instances were checked once and agree:
the bus with 3 tokens (11.0 million states) and, for the addresses, with 3
devices and 3 tokens (408,679), the interrupt endpoint with 3 URBs
(471,548, liveness included) and, for safety, with 4 URBs and 3 revoked claims
(2,670,078), the ISO-OUT endpoint of either device with 3 URBs and 2 resets, for
safety (2,923,132), two workers with a revoked claim (3,246,833), an ISO-IN and
a generic worker with one slot each and their liveness (80,009), and three
buses in the server (4,198,789).

Deadlock is checked for the bus, where some call is always possible. The other
models stop when their bounds are used up or the connection has ended, so
their configurations turn the check off; `EveryRequestReturns`, `UrbsAnswered`
and `StreamEnds` say what may not hang.

### Fairness

Weak fairness per goroutine, which Go's preemptive scheduler and its
non-starving mutexes justify, and only for steps inside a call: nobody is
obliged to call. In the bus this includes the release of a lease (operations
end). In the stream it covers each worker, the reader's own steps, the end of a
read on a closed socket, and the close of a failed connection; a host need not
send anything, and a device on a generic endpoint need not answer while its
context lives. In the server it covers callers inside a call and the timers.

## Proofs

TLAPS checks these for all values of the constants; both are by an inductive
invariant `IInv` with one lemma per conjunct or per action.

**Virtual bus** (`VirtualBusProofs`): `TypeCorrect`, `AddressesCorrect`,
`LeaseSafety`, `OneRemover`, `SignalSound`, `CloseSound` and `CleanupSound`,
from `BusConstants` alone. The properties are not inductive by themselves.
`IInv` adds that list, flags and contexts tell one story (`ListInv`), that the
marked removals are partitioned among goroutines that are finishing them
(`TodoInv`), that the read holders are the goroutines inside the fence
(`FenceInv`), that after close whatever is listed is the closer's work or
awaited by it (`CloseInv`), and that an armed empty period dates from after the
last addition (`EmptyInv`). The heart is `FenceStep`: a remover passes the
write fence only without readers, and the second check of
`AcquireRegistrationOperation` turns away a reader that came too late.

**Report scheduler** (`FixedReportProofs`): `SchedulerTypeCorrect`,
`SourceNeverWedged`, `EpochsSeparated` and `ClaimBytesSound`, for every
capacity, transition relation and policy. `IInv` adds the shape of a live claim
(`ClaimInv`), the link between an owed neutral report and the claims and work
that may exist beside it (`EpochInv`), and which bytes may be repeated when
idle (`BytesInv`). `SelectionSound` covers the five sources a claim is taken
from and is shared by the proofs of the claim actions.

Only model-checked: the refinement of `RegistrationRegistry`; `EncodedOnce` and
`TransitionsKept` of the report scheduler; all of `UrbStream` and
`ServerBuses`; every liveness property, since liveness under fairness is beyond
the prover.

## Findings

1. `urb_unlink_order`: for an ISO-OUT URB in its completion window
   `RET_UNLINK` with status 0 leaves before the URB's `RET_SUBMIT`, against the
   comment on `writeIf`.
2. `urb_media_reset`: a device without media generations is handed a URB's
   media after the reset of its endpoint. `HandleTransfer` compares no
   generation, so when `CLEAR_FEATURE(HALT)` is handled between
   `beginSideEffect` and the callback, DualShock 4 first drains its speaker
   queue and then queues PCM from before the reset. The reader's comment on the
   order of the two resets and the comment in `DualShock4.HandleTransfer` both
   rule this out; DualSense, which compares the token, is not affected.
3. `report_base`: a continuous report deferred once is not marked as the base
   of a transition accepted meanwhile; a second deferral drops it, and the
   transition is presented without the state it starts from.
4. `server_number`: a bus created after the drain of its predecessor and before
   the deletion of its entry is refused and dropped unclosed, which leaks its
   number; `NextFreeBusID` then keeps choosing a number that cannot be had, until
   a creation without a number, which does not look at the pool, registers a bus
   under it.
5. `server_remove`: a removal joins the unfinished removal of an earlier bus
   with the same number and reports success while its own bus stays.

Two smaller observations have no run. A reset in the completion window drops an
ISO-OUT URB whose callback has run, so the `RET_SUBMIT` that the comment on
`beginSideEffect` calls due never leaves. Two concurrent `bus/create` without a
number get two buses with one number, of which one is refused and dropped; the
comment on `virtualbus.New` calls the number unique. For this reason
`RegisteredHoldsNumber` is stated for numbered creations; of unnumbered ones
`server_returns` shows only that calls return and that empty buses go.

The quoted comments and the lines are in `PROJECT.json`.

## Plan

In this order; each step ends with its runs, and proofs where they apply.

1. **Stream ownership and API device handlers**: claim, displacement, grace and
   cleanup timers; one handler at a time, no late finalisation; composed with
   `ServerBuses` for exact removal. Proof: at most one running handler.
2. **Server connections and imports**: tracking against `Close`, legacy
   hand-over, import leases, the join deadline. Configuration and alternate
   settings with the standard requests.
3. **Controller feedback**: mailbox and runtime, with an abstract "apply, then
   stop once" specification that the runtime implements. Proof: the Stop
   obligation.
4. **Stream details**: service-window arithmetic as functions against a
   reference definition, the transactional control and interrupt-OUT paths.
5. **Retained imports and submissions**: arbiter, session and registration
   close. Proof: slot conservation and single retirement.
6. **Xbox One lifecycle**, then the persona engine, coordinator and executors
   that drive it.
7. **Devices**: DualSense scheduler and output writer, microphone buffer ring,
   NS2 Pro, DualShock 4, Xbox 360, keyboard and mouse hand-over.
8. **Composition**: `UrbStream` over `FixedReportScheduler` through the claim
   interface.
9. **More proofs**: refinement of `RegistrationRegistry`; `SlotsConserved`,
   `ClaimsSettled` and `UnlinkIsExact` of `UrbStream`; `EncodedOnce` and
   `TransitionsKept`; the invariants of `ServerBuses`.

## Not modelled, and why

Authentication is cryptography; encodings, descriptors and validators have no
state; the command line, configuration, logging, tray, installers, code
generator, generated clients, examples, proxy and client library are I/O or
offline text. Telemetry counters are left out everywhere.
