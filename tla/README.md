# drover-runner: a TLA+ model of the daemon

drover-runner is a daemon that starts tenants' programs as micro-VMs. A REST
server accepts `POST /v1/instances` and `DELETE /v1/instances/{id}`; a driver
(Firecracker, or QEMU by way of Unikraft's `kraft`) builds the VM: a host
bridge with isolation rules, a TAP device, an overlay disk, a VMM process; on
deletion it stops the process, overwrites the disk with zeroes, registers a
destruction audit and releases the TAP device.

This directory models the parts of that program in which the order of events
matters: requests that overlap, a client that goes away, commands that fail
midway, a VMM that does not obey, a shutdown while all this goes on, a daemon
that dies and is started again over what it left. TLC checks
the modules on small instances; TLAPS proves the theorems for all of them.

    tlc -workers 2 -config FdInstance.cfg MCFirecrackerDaemon.tla
    tlapm FirecrackerDaemonProofs.tla

## 1. The system's parts

| part | source | state | operations |
|---|---|---|---|
| REST server | `pkg/daemon/server.go` | `vms` (a sync.Map of handles), `vmSeq` under a mutex | create, get, delete, logs; `StopAll` |
| Firecracker driver | `pkg/daemon/driver.go` | none; the `Stop` closure it returns holds the process, the overlay's path and the id | `LaunchVM`, `Stop`, `copyFile` |
| Firecracker orchestrator | `pkg/firecracker/orchestrator.go` | the API socket, the VMM process | `StartProcess`, `Configure`, `ConfigureNetwork`, `StartVM`, `Stop` |
| host network | `pkg/network/network.go` | none; bridge, TAP devices and iptables rules on the host | `SetupBridge`, `AllocateTAP`, `ReleaseTAP` |
| sanitization | `pkg/storage/purge.go` | none; the overlay file | `ShredFile` |
| destruction audit | `pkg/storage/audit.go` | none; prints a JSON record | `RegisterAudit` |
| QEMU driver | `pkg/daemon/driver.go` | as Firecracker's, with a kraft slice for a process | `LaunchVM`, `Stop` |
| kraft launcher | `pkg/kraft/launcher.go` | process, process group, `exited` channel, `waitErr` | `LaunchSlice`, `Stop`, `Wait` |
| kraft commands | `pkg/kraft/exec.go` | none | `Build`, `Run` |
| Kraftfile parser | `pkg/kraft/kraftfile.go` | none | decoding, target lookup |
| sandbox client | `pkg/runner/sandbox.go` | base URL, token | create, get, delete, logs |
| telemetry | `pkg/daemon/telemetry.go` | a ticker | collect until cancelled |
| configuration | `pkg/daemon/config.go` | a record of settings | defaults |
| the `dvr` command | not among the sources; `docs/diataxis/reference/cli.md` describes it | none | wires the parts, calls `StopAll` on a signal, then shuts the HTTP server down |

How they interact. Each HTTP request runs in a goroutine of its own. A POST
takes a number from `vmSeq` under the mutex and then, without a lock, calls the
driver, which calls the network manager and the orchestrator *under the
request's context*; only a POST that succeeded stores a handle. A DELETE loads
the handle, runs its `Stop` closure without a lock and without claiming the
handle, and deletes the entry if `Stop` returned nil. `StopAll` ranges over the
same map and deletes each entry whatever `Stop` returned. So three kinds of
goroutine meet at the map, at the host's namespaces (device names, paths) and
at the VMM process; net/http cancels a request's context when the client leaves
and when the handler returns, and os/exec kills a process that was started
under a context that is cancelled.

What is hard in it, and what makes it correct:

- **Overlapping stops.** Two DELETEs, or a DELETE and `StopAll`, run one `Stop`
  closure at once. At most one destruction may be registered and answered 204,
  and no interleaving may leave a handle that can never be stopped again.
- **Failed launches.** Ten steps, each of which may fail or be cut short, must
  be undone: nothing of the instance stays on the host.
- **Order of withdrawal.** No disk is zeroed and no device deleted under a
  running guest; no disk block goes back to the host with tenant data in it.
- **Shutdown.** `StopAll` tears down what was registered, with requests running.
- **Progress.** Every request is answered although processes die, hang or do
  not obey signals.
- **Zeroing.** Sizes that are not a multiple of the block, write-back delayed by
  the kernel, two calls on one file, failures between blocks.
- **Process groups.** Stopping kraft must stop the QEMU it started, also when
  kraft died first.
- **The bridge.** One call configures it while others find it half configured.
- **Restart.** The registry and `vmSeq` are memory; devices, disks, sockets and VMMs
  are not. After a restart ids count from zero again, over what is still there.
- **A Kraftfile that is edited while it is read**, and targets that are written in
  four ways and looked up in one.

## 2. The modules

| module | models |
|---|---|
| `TapNaming` | the truncation of an instance's interface name to 15 characters |
| `DaemonState` | the variables of the daemon and its host, `orchestrator.Stop`, `deleteLink`, the environment |
| `LaunchVM` | `handleCreateInstance` and `FirecrackerDriver.LaunchVM`: 14 actions and their error paths |
| `StopVM` | `handleDeleteInstance`, `StopAll` and the `Stop` closure: 12 actions |
| `FirecrackerDaemon` | their composition, fairness and properties, and the mapping to `InstanceLife` |
| `DaemonRestart` | `FirecrackerDaemon` whose daemon dies and is started again |
| `InstanceLife` | abstract: what the daemon promises of an instance, whichever driver runs it |
| `MCFirecrackerDaemon` | the symmetry of DELETE goroutines |
| `ShredFile` | `storage.ShredFile`, byte by byte, with page cache and disk apart |
| `KraftSlice` | `kraft.LaunchSlice` and `SliceInstance.Stop` |
| `QemuDriver` | `QemuDriver.LaunchVM`, its `Stop` closure and the handlers around them, over `KraftSlice` |
| `RestApi` | the sandbox client's calls, `ServeHTTP`, the handlers and their status codes |
| `MCRestApi` | the symmetry of calls, and the ids that are given |
| `Bridge` | `SetupBridge`, command by command |
| `Kraftfile` | `ParseKraftfile`, the decoding of targets, `ListTargetStrings`, `HasTarget` |
| `MCKraftfile` | the Kraftfiles that are looked at |
| `FirecrackerDaemonProofs`, `FirecrackerLifeProofs`, `LeftoversProofs`, `ShredFileProofs`, `QemuDriverProofs` (and of `KraftSlice`), `RestApiProofs`, `BridgeProofs`, `KraftfileProofs` | theorems |

### FirecrackerDaemon

An instance is the number `n` in its id `inst-n`. `lpc[n]` is where its POST
is, `spc[s]` and `tgt[s]` where a stopper (a DELETE goroutine, used again for
one request after another, or the one that runs `StopAll`) is and whose `Stop`
it runs. An action is one command, system call or API request that the
goroutine waits for, with everything the code does up to the next one; so
every point at which another goroutine, a signal or a cancellation can come in
between is a point between two actions.

`taps`, `overlay`, `sock` and `vmm` are the host: a device per *truncated*
name, the overlay's contents as far as they matter (absent, partly copied, the
base image, tenant data, zeroes), the API socket file, the process
(`new` until it opens its socket, `api` until it boots the guest, `guest`,
`gone`). `sig` is the strongest signal sent to it; a process that was sent a
signal may still do something before it is gone. `residue` holds the instances
whose overlay was unlinked with tenant data in its blocks, or was written to
after that.

A command under a cancelled context fails without effect; a command during
which the client leaves may have had its effect and still be reported as failed
(`CutShort`). `orchestrator.Stop` waits one second after SIGTERM: it returns
when the process is reaped or, if the process is `slow`, sends SIGKILL and
returns at once. Deleting a device that does not exist fails, and `Stop`
reports that: this decides which of two overlapping DELETEs answers 204.
`Range` calls `StopAll`'s callback for no key twice: `visited` holds the keys it was
called for, `due` those that were there when it began. Undoing a launch drops the error
of `os.Remove`: with the fault `shred` the overlay stays.

Not in it: the VMM's configuration (the PUTs before InstanceStart are one
step), the bridge (module `Bridge`), how a block is written (module
`ShredFile`), requests that are refused before they change anything (401, 404,
405: module `RestApi`; undecodable JSON) and the GET handlers.

`faults`, chosen once per behaviour from the constant `Environments`, says
what the environment may do wrong: `disconnect`, `host`, `copy`, `api`,
`slow`, `exit`, `shred`, `unlink` (see `DaemonState`). A property that needs a
good environment names the faults it excludes, and a run contains environments
on both sides, so that no property is checked only where it is easy.

### DaemonRestart

`Crash` may come between any two steps. It resets what the daemon has in memory,
`vmSeq` included, and keeps `taps`, `overlay`, `sock` and `residue`. Which of the VMMs
survive is open: each leads a process group of its own (`Setpgid`), so a signal to
the daemon's group misses it, but a supervisor may kill them all. What survives is
an *orphan*: the new daemon has no handle to it and no context that would kill it.
`audits` and `deletes` count from zero again, since they count the records of one
instance and the id now names another. The rest is `FirecrackerDaemon`, unchanged:
nothing in the code looks for leftovers.

### InstanceLife

The contract of `HypervisorDriver` that `server.go` relies on, as a small state
machine per instance: `life` (unasked, launching, registered, failed, gone), `power`
(off, on, dead), `disk` and `audits`. A guest is started once, on a disk that was made
for it; a disk is destroyed and an instance dropped only when its guest is dead;
a failed launch leaves no guest; one destruction is recorded, after the disk is gone.
Both drivers implement it (`ImplementsLife`):

| | `FirecrackerDaemon` | `QemuDriver` |
|---|---|---|
| `life` | registered while in `vms`; else by where the POST is: before, in, failed out of, or past `LaunchVM` | the same, by the POST and the handle |
| `power` | off before `cmd.Start`; dead when the VMM is gone or was sent SIGKILL | off before the slice; dead when kraft and QEMU are gone |
| `disk` | an overlay exists, in part or whole | the file with the secrets exists |
| `audits` | itself | itself |

With QEMU, "dead" means gone, with Firecracker gone or sent SIGKILL: that is how much
weaker the one-second `Stop` of the orchestrator is.

### Kraftfile

One call of `ParseKraftfile` on a directory: a `Stat` for each of the three names,
then the read, between any two of which someone may create, replace or remove one of
the files, and then `UnmarshalYAML`, one step for each item of `targets`. A text is the
sequence of its words between slashes, so that "qemu/x86", "qemu/" and "" are
different, and `"plat/arch"` meets the same text made of two keys. What a file may
hold is a constant, any set of sequences of items; an item is a text, a map with any
of the five keys, or something else, and `MCKraftfile` enumerates them.

### ShredFile

A file of `size` bytes in two copies, what readers see (`cache`) and what the
storage holds (`disk`), which write-back brings together one offset at a time
and `Sync` all at once. Several calls work on it, each with its own
descriptor, count and context. `Advance` and `Block` are the arithmetic of the
last, shorter block; a failing `Write` may have covered part of its block. In
an environment with a `writer`, a process that was not stopped writes to the
file meanwhile: then nothing is promised of its contents, only that one call
succeeds.
In `StopVM` the same function is three steps, open, zero, unlink, that may
fail at each: what `ShredFile` promises there (success only after zeroes, one
success per file) is what is checked and proved here.

### KraftSlice

kraft leads a process group of its own, QEMU is the member. Both hold the
output pipe, so `cmd.Wait` returns only when both are gone, and `exited` is
closed after that. `Getpgid` finds a zombie but not a reaped leader.

The module says nothing of why a process exits or a context ends; who uses it
restricts that.

### QemuDriver

One instance, from its POST to its destruction. The POST writes secrets to the
overlay, launches the slice under `r.Context()`, stores the handle and returns,
whereupon net/http ends the context. The stoppers run the closure: the steps of
`KraftSlice` in `"stop"`, then the three steps of `ShredFile`, the audit and
`vms.Delete`. Because `SliceInstance.Stop` returns nil always and the error of
`ShredFile` is printed, the closure never fails; so a DELETE and the callback of
`StopAll` do the same, and two overlapping DELETEs are both answered 204, unlike
with Firecracker. QEMU does not use the overlay (the code calls it a mock), so
nothing but the POST writes to it. Every step of `QemuDriver` is one of
`KraftSlice` or leaves the slice alone (theorem `DriverImplementsSlice`).

### RestApi

A request `r` is one call of the adapter, with its id argument, with or without
the token. The adapter formats the id into the URL as it is, and the server routes
by the decoded path; so what is asked for need not be what was meant. An id is a
text: segments, which may be spelled with percent signs (`Escaped`), and the
separators `/`, `%2F`, `?` and `#` between them. `Url` is what the adapter makes of it,
`Received` what reaches the router: cut at the first `?` or `#`, decoded, and split at
every slash. An id that `url.Parse` refuses (a percent sign that escapes nothing) is
never sent. `Route` is `ServeHTTP`'s, `Expected` the codes the adapter takes for
success. A caller may give up while the server works on. `gone` and `there` remember
what callers had been told when `r` was called. A launch and a `Stop` are one step that
succeeds or fails. `StopAll` takes from the registry, one at a time and at any moment,
any instance that is there (`Swept`): which ones `Range` visits is `StopVM`'s matter.
Undecodable bodies, which the adapter never sends, are left out.

### Bridge

Every command of `SetupBridge` is an action; the four iptables rules are each
deleted and appended. A call that finds the link returns nil at once.

## 3. The runs

| run | question | bounds |
|---|---|---|
| `FdInstance` | safety of one instance's whole life under overlapping stops and `StopAll`, and `InstanceLife` | 1 instance, 2 DELETE goroutines + `StopAll`, four environments |
| `Restart` | what a new daemon does to the leftovers of the last, and that every request is answered | 1 instance, 1 DELETE goroutine + `StopAll`, 2 lives, two environments |
| `Shred` | zeroing | sizes 0..5, block 2, sample 1, two calls; I/O errors and cancellation, or a writer |
| `Qemu` | a QEMU instance's whole life, stopping its process group, and `InstanceLife` | 1 instance, 3 stoppers; disconnects, failing starts, crashes of kraft, a disk that works or not |
| `Rest` | what callers are told, and by what the registry changes | 3 calls and `StopAll`, 2 instances, four ids: an instance's, an empty one, one that goes on after an escaped slash, one spelled with a percent sign that goes on after a fragment |
| `Bridge` | one configurator | 3 calls, any left-over rules, failures and disconnects |
| `Kraftfile` | which file is found while they are edited, and which targets | 2 edits; one target of any shape, or two of the common ones |
| `FdRunning`, `FdDangling`, `FdSanitized`, `QemuHangs`, `BridgeIsolation` | what the documentation says and the code does not do | the smallest instance that shows it |

Why the bounds are enough. Instances share nothing but the registry, `vmSeq`
and, through truncation, device names; a stopper works on one instance at a
time and what it does depends on that instance alone. So overlaps show with one
instance and several stoppers (`FdInstance`, where three may work on it at
once); that `StopAll` tears down what was registered is checked for one instance
and proved for any number (`ShutdownTearsDown`).
Names do not collide while `MaxSeq < Base ^ Room`; beyond that
they do (section 6). In `Shred`, sizes 0 to 5 with blocks of 2 have no block,
one short, one full, and several with a short and a full last one. In `Qemu`,
the third Stop is the one that comes after a Stop that found the group and one
that did not. In `Rest`, three calls are a change, another that overlaps with it,
and one that comes after either; its ids make each of the ways in which the path
differs from the id: cut, decoded, split once more. What they are is a constant of the
module, and its theorems hold for any texts. In `Bridge`, two callers may wait on a third. In
`Restart`, the second life is the one that finds leftovers, and what it finds of an
instance is whatever any earlier life could have left of it; its two environments
are one with the faults that `NoResidueAfterRestart` allows and one with the others.
Its safety properties are proved for any number of lives, instances and stoppers.
In `Kraftfile`, two edits can move a file from one name to another, which is the least
that a search can miss; two targets are enough for one to shadow another. Its
properties are proved for any number of either.

`QemuDriver`, `RestApi`, `Bridge` and `FirecrackerDaemon` have an explicit step for "no
one is at work", so that TLC's deadlock check stays on: a goroutine that is at
work and cannot go on is reported. Only `Kraftfile` is checked without it:
`ParseKraftfile` returns, and nothing follows.

### Fairness

`FairSpec` (`QemuFairSpec`) assumes that the Go scheduler runs goroutines that are not blocked
(each handler, net/http's cancellation, exec's watcher), that timers fire, that
a started VMM opens its socket and a signalled one goes away in the end. It is
weak fairness throughout: each of these, once possible, stays possible until it
happens. Nothing is assumed about clients, about how fast a VMM obeys, or about
kraft and QEMU obeying SIGINT (`QemuDriver` has no fairness for them: only
SIGKILL ends them for certain). `RestartFairSpec` assumes the same of each life of the
daemon, except that exec's watcher does not wait for an orphan; that the daemon dies
is never assumed, nor that it does not. A live VMM is assumed to answer a PUT: the
client of the Unix socket has no timeout, and one that never answers holds its
POST until the client leaves.

## 4. What the runs show

Every property of a passing run is broken by at least one plausible change of
the code, which stands beside the definition it changes as a "mutant".

- `NeverWedged`, `OneSuccessfulDelete`, `DestructionAudited`: the unlocked `Stop`
  closure is safe to run twice at a time, because `os.Remove` and `ip link
  delete` succeed for one stopper only and the others' errors are told apart.
  What decides between two DELETEs is the device, what decides between two
  audits is the overlay; the two may be won by different goroutines.
- `WithdrawnFromStopped`: a disk is zeroed or unlinked, and a device deleted,
  only after the VMM has exited or was sent SIGKILL. Not: only after it is gone.
- `NoResidue`: no blocks go back to the host with tenant data, on any path by
  which an overlay is removed, if no client leaves during `InstanceStart`, the
  answer to it is not lost, and VMMs go within the second. Without these there
  is residue (section 6).
- `FailedLaunchReleasedIfAttended`: the error paths release everything, if
  clients wait, images can be copied, VMMs are in time, and overlays and devices
  can be removed. Each of the exceptions leaves something: a device, a partial
  overlay, a VMM that is still going down, an overlay, a device.
- `StopAllTearsDown`: what was registered when `StopAll` began is torn down when
  it returns; what was not is another matter (section 6).
- `PostAnswered`, `DeleteAnswered`, `StopAllReturns`: nothing waits for ever, in the
  daemon's first life and over the leftovers of it in the second.
- `OrphansUndisturbed`: the guest of a dead daemon is safe from the next one, though
  its id is given out again. Nothing in the code is there for that: what shields
  it is that the launch creates the device first, fails if there is one, and then
  deletes nothing; and that a `Stop` deletes it last.
- `NoResidueAfterRestart`: wherever the daemon dies, no later one frees or truncates
  blocks with tenant data, by the same shield, and what was answered 204 has no overlay
  in any later life. The one exception is a shred that failed: its device is released
  all the same (section 6). `SoundOverLeftovers`: what `NeverWedged`,
  `OneSuccessfulDelete`, `DestructionAudited` and `StopAllTearsDown` say of a daemon on
  a clean host holds of one that starts over the leftovers of others.
- `ImplementsLife`: what the two drivers promise alike, see `InstanceLife`.
- `ZeroedBeforeUnlink`, `OneRecord`, `ShredReturns`: see `ShredFile`.
- `StoppedIsGone`, `GroupStopReturns`: a `Stop` that returns leaves no process;
  one that found the process group does return.
- `WithdrawnIsGone`, `DestroyedOnce`: of a QEMU instance nothing is shredded,
  recorded or forgotten while kraft or QEMU lives, although the context kills
  kraft alone and stoppers overlap; what decides between two audits is again
  the overlay. `NothingLeft`: a launch that fails leaves no file and no process,
  and no other path gives secrets back to the disk. `AnsweredOnceGone`: a DELETE
  waits for nothing but QEMU.
- `Linear`, `CreatorKnows`, `ServedAsMeant`, `ChangesAsAsked`: a caller who was told
  that an instance is created or destroyed can rely on it, because the handlers
  store before they answer 201 and delete before they answer 204; an error
  answer to a create means no instance. The registry changes only by an authorized
  create, by an authorized delete whose path is the instance's, or by `StopAll`; an id
  whose path has no segment, or two, changes nothing. Of an id that goes on after a
  separator no more can be said than that (section 6).
- `FirstCandidateWins`: no file is passed over that was there throughout, and "no
  Kraftfile found" is said only if none was; what was found is parsed unless it was
  edited meanwhile, is not a Kraftfile or is a directory. `HasTargetExact`: a platform
  and an architecture are found exactly if some target declares them, in whichever
  of the four ways, or is named "p/a" and has not both, or has a platform "p/a" and
  nothing else.
- `OneConfigures`, `RulesOnce`, `WorkKept`: `ip link add` elects one call, whose
  rules are appended once each and undone by nobody. If `iptables -D` may fail,
  a rule is there twice at most (`TypeOK`).

Where the code departs from what the repository says of it, a run with one
property shows it:

| run | the documentation | the code |
|---|---|---|
| `FdRunning` | a 201 means "created and running" | the VMM runs under the request's context and is killed when the handler returns |
| `FdDangling` | a failed launch leaves no dangling TAP device | the undo path runs under the context whose end was the failure |
| `FdSanitized` | a 204 means "terminated and sanitized" | a failed shred is printed and answered 204 |
| `QemuHangs` | `Stop` falls back to a hard kill | once kraft has been reaped, nothing signals QEMU, and `Stop` waits for it |
| `BridgeIsolation` | tenants cannot communicate | a call that finds the link attaches guests before the DROP rule exists |

## 5. What is proved

The theorems hold for every number of instances, DELETE goroutines, callers, restarts,
edits and targets, for every file size and block length, and for every set of faults.

Some of those about Firecracker assume `NamesFit`, that ids are below `Base ^ Room`
(10000 in the code), so that no two devices have one name. These are the ones about
what the device decides: which DELETE answers 204, whether a handle can be stopped,
whose device a `Stop` deletes, and what shields an orphan. Beyond that bound they are
false (section 6). Types, audits (`AuditedOnce`) and what overlays leave behind
(`NothingResidual`) do not depend on the names, and are proved without it.

**`FirecrackerDaemonProofs`** (`TypeCorrect`, `HandlesStoppable`, `DeletedOnce`,
`AuditedOnce`, `NothingWithdrawnFromRunning`, `ShutdownTearsDown`). None of the
properties is inductive; `Inv` adds what they rest on:

- `PrivateInv`: until `vms.Store` nobody but its POST knows an instance. This
  separates the launches from the stoppers.
- `VmmInv`: a launch that has its device and has not come to `cmd.Start` has no
  process, and whoever withdraws resources, on the error path or in `Stop`, has
  stopped the VMM.
- `TapInv`: a launch owns its device from `tuntap add` to the end; a registered
  instance has it, or the stopper that deleted it; and a VMM that was not stopped has
  it, also if nobody's launch has come to it (`Shielded`).
- `DeleteInv`: a DELETE on its way to 204 has deleted the device, so there is
  one such DELETE at most.
- `AuditInv`: a stopper on its way to the audit has unlinked the overlay, so
  there is one such stopper at most.
- `ShutInv`: what is no longer registered is torn down, and `due`, once out of
  the registry, stays out.

The step is proved in three parts (launches, stoppers, the rest), each from a
frame lemma that says what its steps leave alone; so most conjuncts need one
line for the instances a step is not about. `CoreInv` is the part of `Inv` that holds
whatever the devices are called: `PrivateInv`, `VmmInv`, `AuditInv`. Both are stated so
that they are preserved on a host with leftovers too (an overlay, a device or a VMM
without a launch), since restarts are proved from the same lemmas; that a first daemon
has none of these is an invariant of its own, `FreshInv`.

**`FirecrackerLifeProofs`** (`FirecrackerImplementsLife`): the initial states are those of
`InstanceLife`, and every step is one of its steps or a stutter. `Inv` and `FreshInv` say
nearly all that is needed; `SpawnInv` adds that a VMM is not signalled before it is started, an
overlay not there before the copy, and nothing stored that was not started.

**`LeftoversProofs`** (`NothingResidual`, `FailedLaunchUndone`; of restarts
`OrphansShielded`, `NoDataFreed`, `SoundInEveryLife`, `NothingWithdrawnInAnyLife`): what
stays on the host. The strengthenings hold of a good environment and say nothing of
others, so each step starts from the faults it has not.

- `CleanInv`: of what a daemon itself launched, a guest runs, and an overlay
  has tenant data, only once the launch is on its way to success; a stopper that
  withdraws does so after the VMM has gone, so nothing is written after the zeroes. A
  launch must not come past its device over the data of another; `Fresh` and `Covered`
  are the two reasons for which it does not: there are no such data, or they have
  the device.
- `UndoneInv`: where in a launch a device, an overlay, a socket or a VMM can be, if
  contexts end only after the handler.
- `OrphanInv`: no launch is past the device of an orphan, none has stored a handle to
  it, and nobody has sent it SIGKILL.
- `KeptInv`, while shreds succeed (`Sealed`): a device outlives the tenant data of its
  disk, and who is past the shred has removed the disk. This is `Covered` for the next life.
- `RestartInv` is these but `UndoneInv`, with `Inv` and `ShutInv`. A step of a life preserves it
  by the lemmas about one life; `Crash` preserves it because a VMM that survives was not
  stopped, and by `TapInv` its device is there.

**`RestApiProofs`** (`RestTypeCorrect`, `RestLinear`, `RestCreatorKnows`, `RestServedAsMeant`,
`RestChangesAsAsked`), for any number of calls. `FlowInv` says what a handler that is at
a place works on, from the path it was routed by; `UniqueInv` that a number is given
out once; `MadeInv` that what is registered, or was deleted, was made by a create, and
that what was deleted stays away; `KnownInv` that what a caller had been told is still
so; `FoundInv` that a reader who knew of an instance finds it unless somebody asked that
it go. Where a path differs from its id is a matter of texts alone (`UrlShape`,
`PlainPath`, `RouteMeans`).

**`ShredFileProofs`** (`ShredTypeCorrect`, `UnlinkedIsZeroed`, `OneCallSucceeds`).
What a call has written stays zero in the cache, since all calls write zeroes
(`PrefixZeroed`); what was synced stays zero on the disk, since write-back
copies zeroes (`DiskZeroed`); unlinking and success are one step (`OneUnlinks`).

**`QemuDriverProofs`**, first of a slice by itself (`SliceTypeCorrect`,
`StopLeavesNothing`): `exited` is closed only after the leader was reaped and QEMU was
gone, and a reaped leader starts no other. Then of the driver (`DriverImplementsSlice`,
`QemuTypeCorrect`, `WithdrawnFromGone`, `DestructionRecordedOnce`, `OnlyFailedLaunchLeaks`,
`QemuImplementsLife`): every step is a step of `KraftSlice` or none of the slice's, so
`SliceInv` holds here too. `QemuInv` adds
that no stopper is there before `vms.Store` (`PostInv`), that whoever is past
`Stop` has returned from it and whatever is withdrawn was withdrawn by one who
has (`StopInv`, `WithdrawnInv`), that who unlinks finds zeroes (`ZeroInv`), and that
who is on the way to the audit unlinked the overlay, which one can (`AuditInv`).

**`BridgeProofs`** (`BridgeTypeCorrect`, `OneIsElected`, `ElectedWorkKept`, `NoRuleTwice`).
A call that is, or was, configuring is the one that made the link (`ElectedInv`);
between its delete and its append a rule is absent (`OnceInv`); until it appends a
rule nobody has, so that there are two at most whatever fails (`CopiesInv`).
`NoRuleTwice` assumes that `iptables -D` deletes a rule that is there.

**`KraftfileProofs`** (`SearchIsExact`, `TargetsAreExact`), for any
Kraftfile, whatever its texts, and any number of edits. `SearchInv`: a candidate the
search is past was absent at some time of the call. `TargetsInv` relates the targets to
the items visited so far, as `HasTarget` sees them; a step adds one item to both. What
one item prints as is a matter of texts alone (`PrintsAs`), where the
lemma that matters is that two texts joined by a slash are "p/a" exactly if they are
"p" and "a" (`TwoWords`).

The assumptions are those the modules state of their constants
(`NamingAssumption`, `DaemonAssumption`, `RestartAssumption`, `ShredAssumption`,
`QemuAssumption`, `RestAssumption`, `BridgeAssumption`, `KraftfileAssumption`) and, where a theorem says so, `NamesFit` or the absence of a
fault.

Every safety property that a passing run checks is proved. Only model-checked are the
liveness properties (`PostAnswered`, `DeleteAnswered`, `StopAllReturns`, `ShredReturns`,
`GroupStopReturns`, `AnsweredOnceGone`), since fairness is out of the prover's reach, and
of course the runs that show a violation.

## 6. What is not modelled, and what was met on the way

Not modelled, and why (`PROJECT.json` has it by component):

- The kraft command lines (`pkg/kraft/exec.go`): options become the arguments of one
  process that is waited for. No state is kept, nothing overlaps, nothing in `src/`
  calls it.
- The telemetry loop: it reads the registry and prints random numbers until its
  context ends. It changes nothing, and nothing depends on what it prints.
- The configuration record and its defaults; terminal output; the log buffer of a
  QEMU instance, and the GET handlers beyond their status codes.
- Of the Kraftfile parser, the component shorthand, the `spec` alias and a target's
  kconfig: they are decoded, and nothing looks them up.
- The daemon that dies is modelled with the Firecracker driver only. With QEMU, what
  there is to say follows from one call (below).

Seen in the code, in the model or beside it, and without a run of its own:

- `pkg/daemon/driver.go:164`: when `copyFile` fails midway, the partial overlay is
  not removed (the exception `copy` of `FailedLaunchReleasedIfAttended`).
- `pkg/daemon/driver.go:202`: the error path after `InstanceStart` removes the overlay
  with `os.Remove`; if the guest did start, its data stays in the blocks
  (the exceptions of `NoResidue`), against `docs/drun-006-secure-purge-design.md:17`.
- `pkg/firecracker/orchestrator.go:155`: `Stop` returns after SIGKILL without waiting;
  the overlay is shredded while the VMM may still write (the exception `slow`).
- `pkg/network/network.go:141`: `inst-1000` and `inst-10000` have one device name
  between them; the second launch fails while the first runs, and a DELETE of the
  first that is slower than another could delete the device of the second.
  `NamesFit` is there because of it.
- `pkg/storage/purge.go:86`: the sample hash is compared with nothing, although the
  comment at line 21 speaks of verification; and it covers fewer bytes for a
  file below 1 KB, whose hash then differs from that of all other zeroed files.
- `pkg/daemon/driver.go:74`: a QEMU launch that fails removes the overlay, which has
  secrets in it, without shredding it (`NothingLeft` says that this is the only
  such path), against `docs/drun-006-secure-purge-design.md:17`.
- `pkg/daemon/driver.go:72`: the slice runs under the context of the POST too, so that
  a QEMU instance loses its kraft as soon as it was answered 201 (`QemuHangs`).
- `pkg/runner/sandbox.go:119`: a caller whose DELETE was carried out but whose answer
  was lost gets an error when it tries again (404), and one whose POST was lost
  cannot learn the id of what it created.
- `pkg/runner/sandbox.go:82`, `:110` and `:133`: the id is not escaped. Ids that the
  daemon gives out have nothing to escape; with others, `DeleteInstance("inst-1?x")`
  deletes `inst-1`, `GetInstanceLogs("inst-1?")` is served by the handler of
  `GetInstance` and succeeds with empty logs, and `GetInstance("inst-1%2Flogs")` is
  served by that of the logs (the exception of `ServedAsMeant`).
- `pkg/daemon/server.go:183`: `StopAll` ranges over what is registered. A launch under
  way is stored after `StopAll` has returned and its guest is not stopped by it,
  against `docs/diataxis/reference/cli.md:293`.
- `pkg/daemon/server.go:106`: after a restart `vmSeq` is zero again. The device of an
  orphan, or one that could not be deleted, shields what it belongs to, but it also
  burns its id: every POST that is given it fails, and no request can get rid of it.
- `pkg/daemon/driver.go:258` and `:216`: an instance whose shred failed has its device released,
  so that after a restart `os.Create` truncates its overlay with the data in it
  (the exception `shred` of `NoResidueAfterRestart`).
- `pkg/daemon/driver.go:54`: a QEMU instance has no device, so that after a restart
  `os.WriteFile` truncates the overlay of an earlier one, secrets and all.
- `pkg/kraft/kraftfile.go:128`: a target with an architecture only prints as an empty
  string, so that `HasTarget("")` is true of its file, although line 127 promises
  `plat/arch` or a name and line 199 a target that is declared; one with a platform, an architecture and a name is not found by the name;
  a directory called `Kraftfile` hides a `kraft.yaml` beside it.

## 7. Plan

In this order:

1. An atomic purge (a file is there with its data, or gone with none) implemented by
   `ShredFile`, so that the three steps of it in `StopVM` and `QemuDriver` need no more
   than that.
2. The QEMU driver under restarts, once it has something that outlives the daemon
   besides the file.
