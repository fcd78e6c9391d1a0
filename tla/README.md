# EasyCL in TLA+

EasyCL wraps OpenCL for C++ programs: it picks a device, keeps arrays in step
between host and device, passes parameters to kernels, runs them, reads results
back, and renders kernels from templates. This directory holds TLA+ models of
that code, the TLC configurations that check them on small instances, and
proofs for the TLA+ proof system.

    tlc -workers 2 -config runtime_pipeline.cfg MCRuntime     # a run
    tlapm Runtime_proofs.tla                                  # the proofs of one module

All paths below are relative to the root of the repository.

## 1. Inventory

| Component | State | Operations | Talks to | What makes it correct |
|---|---|---|---|---|
| `CLWrapper` (`src/CLWrapper.cpp`) | `onDevice`, `deviceDirty`, `devicearray` | `createOnDevice`, `copyToDevice`, `copyToHost`, `deleteFromDevice`, `copyTo`, `markDeviceDirty`, destructor | the default queue; kernels name its buffer and mark it dirty | a clean wrapper's host array is up to date; each buffer has one owner |
| `CLKernel` (`src/CLKernel.cpp`) | `nextArg`, temporary `buffers`, outputs, `wrappersToDirty`; the parameters OpenCL keeps | `input`, `output`, `inout` of values, wrappers, arrays; `run` | any queue, wrappers, arrays | results delivered when `run` returns, written wrappers dirty, buffers released, nothing left in flight |
| `CLArray` (`src/CLArray*.h`) | `onHost`, `onDevice`, `devicearray` | `operator[]`, copy and move both ways, `createOn...`, `deleteFrom...` | the default queue; kernels take it from the host | an assignment is not lost, an element read is not stale |
| `EasyCL` context (`src/EasyCL.cpp`) | `queue`, `default_queue`, `profilingOn`, kept events | constructors, `newQueue`, `setProfiling`, `dumpProfiling`, `gpu`, destructor | all of the above hold its queue | no queue used after release, leaked or released twice; times measured |
| Kernel store (`src/EasyCL.cpp`) | `kernelByName`, `kernelOwnedByName` | `storeKernel`, `getKernel`, `kernelExists` | `TemplatedKernel` uses it as a cache | a name is final; each kernel is deleted once |
| `TemplatedKernel` (`src/templates`) | parameters | `set`, `buildKernel`, `getRenderedKernel` | kernel store, `LuaTemplater` | the kernel returned was rendered with the parameters set |
| `LuaTemplater` (`src/templates`) | a Lua state: its globals and its stack | `set`, `render` | Lua | a render ends, with the text the parameters make of the template, whatever was rendered before |
| Device selection (`src/DevicesInfo.cpp`, `src/EasyCL.cpp`) | none; `CL_GPUOFFSET` | `createFor...`, `getNum...`, `get...Info`, `gpu` | OpenCL platforms | all agree which device an index means |
| `StatefulTimer` (`src/util`) | time per state, `last`, `prefix`, `enabled` | `timeCheck`, `setPrefix`, `setEnabled`, `dump` | clock | all time is charged once |
| Numeric helpers (`src/EasyCL.cpp`) | none | `roundUp`, `getNextPower2`, `getPower2Upperbound` | | agree with their definition, and end |
| String helpers (`src/util`) | none | `split`, `replace`, `replaceGlobal`, `trim`, `toLower`, `strcpy_safe` | the tests | agree with their definition, and end |
| Kernel building (`src/EasyCL.cpp`) | program and kernel objects | `buildKernelFromString`, `buildKernel` | `TemplatedKernel` | a build that fails leaves the store as it was |

What is hard here is that the host never sees the device work. Commands are
enqueued and executed later; some calls wait (`CL_TRUE` transfers, `finish`),
others do not (launches, `copyTo`, `fast_read`), each waits for one queue only,
and OpenCL hands out released handles again while parameters still name them.
The flags that say where an array is are kept by hand, in code that can throw
between the call to OpenCL and the assignment. `PROJECT.json` lists these
hazards one by one, with the line and the properties that are about each.

### Not modelled

- Device and platform information (`DeviceInfo.cpp`, `deviceinfo_helper.cpp`,
  `platforminfo_helper.cpp`, `gpuinfo.cpp`): queries whose answers are formatted
  and printed, with no state between two of them.
- `trim`, `toLower` and `strcpy_safe` (`easycl_stringhelper.cpp`): one letter
  after the other, with nothing to go wrong that depends on the order of steps.
- Program objects and build logs (`EasyCL.cpp:380-445`): a build succeeds or
  throws, and either way the store is left as `ImplementsStore` says. A build
  that fails leaks its program (`EasyCL.cpp:423`), of which nothing keeps a
  handle.
- What kernels compute, and on how many work items: a launch computes some value
  from its inputs. Kernels belong to the client.
- What OpenCL makes of a platform or device handle nothing has filled, and what `CLKernel`
  writes to a file when a launch is refused.
- Lua as a language: code between `{%` and `%}` is an assignment or a mistake.
- Build files and tests; `thirdparty/` (Lua, googletest, cog), which is most of
  the lines of the repository and not its own code.

## 2. Modules

| Module | Models | Uses |
|---|---|---|
| `ClDevice` | OpenCL buffers and in-order queues, as the code uses them (external) | |
| `CLWrapper` | `CLWrapper.cpp` | `ClDevice` |
| `CLKernel` | `CLKernel.cpp`, `CLKernel.h` | `CLWrapper` |
| `EasyCLRuntime` | the composition: one host thread, the device, `finish()`; the properties | `CLKernel`, `EasyCLSync` |
| `EasyCLSync` | abstract: a device that works only while the client is in a call | |
| `CLArray` | `CLArray.h`, `CLArrayFloat.h`, `CLArrayInt.h`, composed with kernels | `CLKernel` |
| `EasyCLContext` | queues and profiling of an `EasyCL` object | |
| `KernelStore` | the kernel store, and `TemplatedKernel` as its user, rendering in one step | |
| `LuaTemplater` | `LuaTemplater.cpp`, `templater.lua` | |
| `TemplatedKernel` | `TemplatedKernel.cpp` over both, rendering step by step; implements `KernelStore` | `KernelStore`, `LuaTemplater` |
| `DeviceIndex` | device selection | |
| `StatefulTimer` | `StatefulTimer.cpp` | |
| `NumericHelpers` | the integer functions of `EasyCL.cpp` | |
| `StringHelpers` | `split`, `replace`, `replaceGlobal` of `easycl_stringhelper.cpp` | |
| `MCRuntime`, `MCArray`, `MCContext`, `MCKernelStore`, `MCTemplatedKernel` | instances for TLC | |
| `MCUtilities` | instance of the four small ones, `DeviceIndex`, `StatefulTimer`, `NumericHelpers`, `StringHelpers`: a behaviour is one of one of them | |
| `Device_proofs` | lemmas on `ClDevice`: what queues do to buffers | |
| `Runtime_proofs`, `Order_proofs` | theorems on `EasyCLRuntime`, the second on top of the first | `Device_proofs` |
| `Array_proofs` | theorems on `CLArray` | `Device_proofs` |
| `Context_proofs` | theorems on `EasyCLContext` | |
| `Induction_proofs` | lemmas: induction over numbers and finite sets; functions defined by recursion, and folds, exist | |
| `Store_proofs` | theorems on `KernelStore` and `TemplatedKernel` | `Induction_proofs` |
| `Utility_proofs` | theorems on the four small modules | `Induction_proofs` |

### Correspondence with the code

*The device.* Host arrays start with anything in them, `Junk` included, which is
what an array that was never written holds. `mem` is what buffers hold, `live`
what was created and not released, `pending[q]` the commands enqueued on queue
`q`. `DeviceStep(q)` executes the oldest, at any time. An array's content is one
abstract value. A launch or copy carries the values its inputs have *in program
order* (the auxiliary `intended`), and produces its result only if it finds
them; otherwise it leaves `Junk`, the value of memory nothing has written. A
released buffer stays with the commands that use it, and its handle is given out
again only after that, as OpenCL does.

*Calls.* The host is a single thread. A call that does not block is one action.
A blocking call is two or more: the one that enqueues its command and sets
`busy`, and the `...Returns` one, enabled when the queue is empty, that does
what the code does after the wait. `run()` is `Run`, then one step for each
output, then `RunReturns`. A read is accepted (`RunReads`: it waits before the
next one, unless `fast_read` lets them all follow at once) or refused
(`RunReadRefused`: nobody looks at what it returned, and `run()` goes on). With
`fast_read` the event of a refused read was never set, so that the wait for all
events at the end may return at once (`AllRead`). `RunReturns`, which releases
the temporary buffers, marks the wrappers and resets the parameter list, in one
step as in the code. An operation that throws before it changes anything is not
an action; one that throws half way is an action named `...Fails`, or `...Throws`
after a wait (`CopyToHostThrows`: the wait for the event of the read ends with an
error, `CLWrapper.cpp:77-81`, and the flag stays as it was):
`CopyToDeviceFails` leaves a buffer that was never written, `OutputWrapperFails`
a wrapper created for a parameter that was refused, `InputArrayFails` a buffer
nobody owns. `OutputArray` does not look at what `clSetKernelArg` returned, and
neither does its model. `InoutBuffer` passes the `cl_mem` of a wrapper by
itself: the kernel writes the buffer and nobody marks the wrapper, unless the
client does (`ClientMarksDirty`). `DestroyKernel` does not release the temporary
buffers, and neither does the destructor.

*The client* is the environment: it calls anything in any order. `Rules` names
what a client must do for a property to hold; a `.cfg` says which rules its
client keeps to. They are preconditions the library does not enforce;
`fastAccepted` is about OpenCL, not the client:

| Rule | The client | Without it |
|---|---|---|
| `freshArgs` | passes all parameters before each run | a second run writes wrappers and leaves them clean, because `run()` clears `wrappersToDirty` (`CLKernel.cpp:406`) and OpenCL keeps the parameters |
| `withinArity` | passes no more parameters than the kernel has | a refused plain array leaks its buffer (`CLKernel.cpp:257`) |
| `keepBound` | leaves a wrapper it has passed on the device until the run | the kernel runs on a released buffer |
| `defaultQueue` | uses wrappers on the default queue only | run `second_queue` |
| `wholeWrapper` | passes wrappers, not the `cl_mem` of one (`CLKernel.cpp:78`) | the kernel writes the buffer and the wrapper stays clean |
| `markOnDevice` | calls `markDeviceDirty()` only while the wrapper is on the device | the flag is set of a wrapper with no device copy, since `markDeviceDirty()` (`CLWrapper.cpp:110-112`, public) does not look |
| `fastAccepted` | (OpenCL refuses no read of a `fast_read`) | `run()` may return with the other reads still to come (`CLKernel.cpp:368`) |
| `runPassed` | runs a kernel before deleting it | temporary buffers leak |
| `knownNames` | calls `getKernel` for stored names | `std::map::operator[]` inserts a null kernel under the name (`EasyCL.cpp:618`), though `EasyCL.h:143` says it throws |
| `namePerParams` | gives `buildKernel` another name for other parameters | run `stale_cache` |
| `oneOwner` | hands a kernel to the store once and does not delete it after | it is deleted twice |

`EasyCLContext` records instead what the client has done (`did`), and each
property names the habits it does not survive: constructing by index leaves
`default_queue` and `profilingOn` uninitialised; `gpu()` makes a queue without
profiling and leaves `profilingOn` set (`EasyCL.cpp:494`); queues of
`newQueue` never measure (`EasyCL.cpp:35`), so their events are reported with
times nothing measured. `misused` is set by whatever uses or releases a queue
that was released before, `gpu()` included, which releases the one it finds. In
`CLArray` the arrays in `Managed` are those the client does not move by hand.

*Objects* are deleted and constructed again under the same name, so that any
number of them comes and goes.

*Templates.* A text is a sequence of pieces, told apart by what `templater.lua`
does with them: text, `{{name}}`, `{% name = value %}`, code that raises an
error, text `loadstring` does not accept, a brace that is not closed. `Compile`
is `M._compile`; `CompileStep` one round of the loop in `M.compile`, which ends
when a round changes nothing. What does not load is answered with the error
message as if it were the text (`templater.lua:147`), and the kernel then fails
to build. What raises an error throws, and leaves the message on the Lua stack
where the next `render` looks for the templater (`LuaTemplater.cpp:77`): from
then on every render of that object throws, whatever is set, until the object is
made again (`Usable`, `Remake`). `lua[t]` are the globals that parameters and
templates share. Parameters are not named like the templater's own globals
(`compiled`, `res`, `i`, ...), which would be lost. `Expansion(p)` is the
template with every `{{name}}` replaced by what the name comes to in the end
when `p` is set, `Whole[p]`; code pieces leave nothing.

*Device selection* is pure: `platforms` and `gpuOffset` are arbitrary, the offset
negative too (`atoi` takes it), and `chosen` is the call made and the device it
chose. `Passed` is the running count of the loops over platforms, a recursive
function, and `Ending` what such a loop comes to at the platform where it stops:
the first that offers the device (`Skipping`), or fails (`GetDeviceIds`). OpenCL
reports how many platforms and devices there are, not how many it returned. The
array of platforms has room for `Capacity` entries, ten in the code, and a loop
that goes further finds `Undefined`. Of the arrays of devices there are two
kinds: `device_ids[100]` of the `createFor...` functions and of
`getIdForIndexedPlatformDevice`, whose entries from `DeviceRoom` on are
`Undefined` (`Fixed`), and those `getDeviceIds` and `init` make to measure after
asking for the number (`Measured`). A negative index passes every test for the
last device and finds `Undefined` too, except in `getIdForIndexedPlatformDevice`,
which tests for it. Three differences between functions that do nearly the same
are in the model as they are in the code: `getDeviceIds` throws at a platform
without a GPU where the other loops go on (so a GPU behind it is counted and
opened but `getGpuInfo` throws, against `test/testDeviceInfo.cpp:17-19`);
`EasyCL(gpu)` and `gpu()` ask the first platform only, and do not look at
`CL_GPUOFFSET` (against README.md:100).

*The timer.* The clock is external and may be set back (`Tick`). `timeCheck`
charges the time since `last`; `last` stands still while the timer is disabled,
so that the first state after `setEnabled(true)` is charged with all of it.
`dump` prints the readings above zero and forgets all of them, and with them the
negative ones a clock set back leaves behind. `born` and `back` say what the
readings should add up to.

*Integers* have `Width` bits and wrap around (`Wrap`), which is what the
compilers at hand make of signed overflow; `TwoTo[n]` are the powers of two.
`roundUp` is one step; `getPower2Upperbound` is a call, a step for each round of
its loop, and a return, since the loop need not end: above `2^30` the bound
becomes negative, then zero, and stays there.

*Strings* are sequences of letters. `split` and `replaceGlobal` are a call, a
step for each occurrence found, and a return; what they gather has to fit in
`Memory`, and throws when it does not (`MemoryExhausted`). An empty pattern is
found at every position, so that the loop finds it again where it stands.
`Pieces(text, pattern, start)` says by recursion into what a text is cut.

## 3. Runs

| Run | Question | States |
|---|---|---|
| `runtime_pipeline` | With two wrappers, whole and partial copies, flags set by the client and a kernel, and a device up to two commands behind: is a clean wrapper up to date (`CleanMeansSeen`), does every buffer end with its content in program order (`ProgramOrder`), does the client see `EasyCLSync` (`SyncSpec`)? | 670 000 |
| `runtime_wrappers` | With two parameters, bare buffers, partial copies and a refused third parameter: are written wrappers marked dirty (`WrittenMeansDirty`), is a wrapper off the device never dirty unless the client marked it there (`DirtyOnDevice`), do parameters name live buffers (`ArgsAlive`)? | 153 000 |
| `runtime_arrays` | Plain arrays on two queues, with and without `fast_read`, reads refused or not: is every output whose read was accepted there when `run` returns (`OutputsDelivered`), and nothing still to come (`NoLateTransfer`)? | 1 330 000 |
| `runtime_sync` | A wrapper, marked by the client wherever it is, a plain array and a kernel compete for two handles: is every buffer owned once (`OneOwner`), does a client see `EasyCLSync` (`SyncSpec`), does every call return (`CallsReturn`)? | 250 000 |
| `arrays` | A managed `CLArrayFloat` next to a `CLArrayInt` moved by hand: no assignment lost, no stale element (`ElementsCurrent`, `DeviceCurrent`), no buffer leaked or shared (`ArraysOwnBuffers`)? | 370 000 |
| `kernel_store` | With renders that take several rounds, fail and are tried again: are names final (`NamesAreFinal`, `ExistsMeansStored`), kernels deleted once (`DeletedOnce`), cached kernels alive and rendered with the right parameters (`CacheAlive`, `CacheFits`)? Is all that one step of `KernelStore` (`ImplementsStore`), does every render end (`RenderEnds`)? | 94 000 |
| `context` | Are queues owned once (`QueuesOwned`), never used after release (`NeverMisused`), events measured (`EventsMeasured`)? | 3 800 |
| `utilities` | Does an index mean one device to all who take one (`IndexedIsListed`, `IndexMeansOneDevice`, `FirstGpuOtherwiseCpu`), a count what can be opened (`CountedIsOpened`), and who meets an entry nothing has filled (`KnownDevicesReached`)? Do the readings of the timer add up (`ReadingsAddUp`)? Are the integer functions right on every argument (`RoundUpIsLeast`, `Power2IsLeast`), and do they end (`Power2Ends`)? Do `split` and the replacing functions cut a text in the same places (`SplitIsLeftmost`, `ReplacedWhereSplit`), and end (`HelpersEnd`)? | 1 140 000 |

Four runs state what the repository says of the program and show that the code
does not do it:

| Run | What is said | What happens |
|---|---|---|
| `second_queue` | README.md:253: `isDeviceDirty()` tells whether `copyToHost()` is needed | a kernel on a second queue has not run yet when `copyToHost` reads on the default queue and clears the flag: host array stale, flag clean |
| `int_array` | README.md:216, 228: assign through `operator[]` | `CLArrayInt::operator[]` keeps the device copy; the next `input` finds the array on the device and deletes the host array with the assignment |
| `stale_cache` | TemplatedKernel.h:23-25: built again "for new parameters" | the key is the name alone: the old kernel is returned |
| `default_queue` | EasyCL.h:70: "contains the queue in `queue`" | `setProfiling` releases that queue and makes another |

### Bounds

Two buffers are enough for a handle to be reused while something else holds
another and while a stale parameter names it; two wrappers and two parameters
for every pair of roles, the same wrapper twice included; two values to tell an
array from its stale copy, or one and `Junk` where that is enough. `MaxPending`
bounds the commands waiting in a queue: 2 lets a launch or copy lag behind a
transfer, 3 (`runtime_arrays`) adds both reads of a `fast_read`. `MaxArgs` is
the kernel's arity, or one more where parameters are refused. Wrappers have one
element, or two where partial copies matter (`runtime_wrappers`,
`runtime_pipeline`). No run has a
wrapper over a const array, whose `copyToHost` throws; the theorems cover it.
Three queue handles are the queue, one of the client's and a replacement. In
`kernel_store`, three names are the two a careful client uses for its two
parameter values and one more, two kernels are one for each, and the values are
one that is there after one round and one whose own names take two rounds more.
One `TemplatedKernel` is enough there, since the store cannot tell two apart
from one whose parameters changed; `stale_cache` has two. `MaxErrors` bounds the
failed renders of one object.

In `utilities` every machine of up to three platforms with up to three devices is
looked at; room for two of each stands for the code's ten and a hundred, so that
the third is one too many, on the first platform, the second or both. Indexes go
from -1 to 3, across and beyond a platform and an array, and into the next
platform; `CL_GPUOFFSET` is -1, 0 or 1. There a behaviour makes one call, since no answer depends on
an earlier one; the theorems are about any number. The clock of the timer ticks three times and is set back at
most twice; two states under two prefixes make three keys, one of which two
pairs share. Integers have five bits instead of 32: nothing in the functions
depends on the width but where they overflow, and all pairs of arguments are
tried. Texts have up to five letters of two kinds and patterns up to two, so
that occurrences touch and overlap; `Memory` is the longest result a pattern
that is not empty can lead to.

`VIEW` leaves out of the runtime's state what no later step can read: the
content of buffers neither live nor in flight, the handle kept by a wrapper that
is off the device, parameters from before the last run if `freshArgs` makes the
client set them all again first, and whether the client edited a wrapper that is
dirty or has nothing meaningful on the device: `CleanMeansSeen`, the only one to
ask, asks of clean wrappers with content, and to become one `edited` is cleared
as well. Two states with one view can take the same steps, to states with one
view again, so that nothing is lost for liveness either. Permuted buffers, values, kernels,
wrappers and plain arrays are alike in the specification and in the properties,
which is what `SYMMETRY` needs; `runtime_sync`, which checks liveness, uses
`VIEW` alone.

`CHECK_DEADLOCK FALSE` is in `context` and `default_queue` only: after the
object is deleted, with no queue left, nothing can happen.

### Fairness

`FairSpec` assumes that the device executes what is enqueued (`WF` on
`DeviceStep(q)` for each queue: an OpenCL implementation runs a flushed in-order
queue, and a blocking call flushes it) and that a blocking call returns once
what it waits for is done (`WF` on `Returns`: the host thread goes on).
`TemplatedSpec` assumes that a render goes on until it returns (the calling
thread runs on), and so does `MCUtilities` of the loops of
`getPower2Upperbound`, `split` and `replaceGlobal`. Nothing is assumed of the
client. `RenderEnds` needs parameters that do not contain themselves: with `x =
"a{{x}}"` the loop never ends. `Power2Ends` needs a value up to `2^(Width - 2)`,
which is `2^30`; `HelpersEnd` needs a pattern that is not empty. `CallsReturn`
says that under `FairSpec` every call returns. There is no call the library could block in
for ever on its own account, as long as it waits for the queue it used; the
mutant that keeps reading the same output shows what would break it.

## 4. Refinement

`EasyCLSync` is the promise of README.md, "CLWrapper objects": a wrapper has a
host content, a device content and a dirty flag, and the device works only while
the client is in a call. It is strict about what may change when:

- A host array changes between two calls only by the client's own hand (`Edit`),
  and during a call only as that call says: `copyToHost` puts there what the
  device holds (`Download`), `run` its result (`Deliver`).
- An upload, and a copy of a whole wrapper onto a whole wrapper, makes the target
  equal to the source. After a partial copy the target is meaningful if what was
  copied and what stays are, and `Junk` otherwise (`Copied`).
- A launch computes something meaningful if all it was given is, and `Junk` if
  not (`Computes`). What it was given is what the wrappers hold when it is
  launched and what the plain arrays held when they were passed (`takes`, `fed`).
- `run` returns when every array it is to fill has its result (`due`), but for
  those whose read OpenCL refused (`Refuse`), and its wrappers are dirty from
  then on (`makes`). `copyToHost` clears the flag when the copy has been made, or
  throws and leaves it (`CopyThrows`).
- A wrapper does not leave the device while a kernel it was passed to has yet to
  run.

`EasyCLRuntime!SyncSpec` instantiates it: `dev[w]` is the content of `w`'s buffer
in program order (`Content`), `takes`, `fed` and `due` are read off the parameters
OpenCL and the kernel keep (`Takes`, `Fed`, `Due`), `call` is `busy` with the
moment a download has arrived (`Call`). If a transfer were still to come when the
client is in no call, `Call` would be `transferring`, which `EasyCLSync` does not
know. Where the two could differ is where the device lags: `Download` puts
`dev[w]` into the host array, the detailed step whatever the device holds when it
gets to the read; `Run` computes at once from what it is given, the detailed
launch from what the device finds later in the buffers; and temporary buffers,
stale parameters, handles given out again and reads not waited for are nowhere in
`EasyCLSync`. `runtime_sync` and `runtime_pipeline` check it as a property, and
`Order_proofs` proves it for every instance.

`KernelStore` is what `TemplatedKernel` promises about the store: `buildKernel`
is one step that returns the kernel stored under the name or makes one from the
parameters that are set. `TemplatedKernel!ImplementsStore` says that the rounds
of a render, failures and the build are one such step and otherwise invisible.
`built` is where it could fail: it is computed from the text that came out of
the rounds, by looking which parameters have that expansion (`Origin`), while
the expansion is stated without rounds. `kernel_store` checks it, with a `Whole`
computed by a recursive definition (`Expand` in `MCTemplatedKernel`);
`RendersImplementStore` proves it for every template and all parameters that
meet the assumptions below. So the theorems on `KernelStore` hold of a client
that renders (`RendersKeepPromises`).

## 5. Proofs

The assumptions are those stated with the constants; the client rules a theorem
needs are its hypotheses, and it holds for every set of rules that contains
them. Sets, arities, sizes and bounds are arbitrary. Most of the assumptions say
that bounds are numbers and that a value standing for none is no value
(`DeviceAssumption`, `WrapperAssumption`, `KernelAssumption`, `ArrayAssumption`,
`ContextAssumption`, `StoreAssumption`, `IndexAssumption`, `StringAssumption`),
that an integer has at least two bits (`WidthAssumption`) and that there are
finitely many names to charge time to (`TimerAssumption`). Three say what
templates are looked at:

| Assumption | It says | Otherwise |
|---|---|---|
| `TemplatedAssumption` | parameters have other names than the globals the template assigns to; the template shows each parameter (parameters it does not show are none here) | a template that assigns to a parameter's name changes what the next render sees, which `set` alone cannot undo; two parameter values with one text are one kernel, and nothing tells which it was rendered with |
| `TextAssumption` | a template assigns to a global one value, before it inserts it; the templates with a mistake are the faulty ones | what is inserted depends on which template ran before |
| `ValueAssumption` | values are texts with insertions but no code, and none comes to contain itself (`rank` falls from a value to those it names) | with `x = "a{{x}}"` a render never ends |

| Module | Theorem | Property | Rules |
|---|---|---|---|
| `Runtime_proofs` | `TypeCorrect` | `TypeOK` | none |
| | `OwnersKeep` | `Ownership` | none |
| | `OneOwnerEach` | `OneOwner` | `withinArity`, `runPassed` |
| | `DirtyIsOnDevice` | `DirtyOnDevice` | `keepBound`, `markOnDevice` |
| | `ArgsStayAlive` | `ArgsAlive` | `keepBound` |
| | `WrittenAreDirty` | `WrittenMeansDirty` | `keepBound`, `freshArgs` |
| `Order_proofs` | `ComputedInOrder` | `ProgramOrder` | `keepBound`, `freshArgs`, `defaultQueue` |
| | `TransfersAwaited` | `NoLateTransfer` | `fastAccepted` |
| | `OutputsAreDelivered` | `OutputsDelivered` | `keepBound`, `freshArgs`, `defaultQueue`, `fastAccepted` |
| | `CleanIsSeen` | `CleanMeansSeen` | `keepBound`, `freshArgs`, `defaultQueue`, `wholeWrapper` |
| | `ClientSeesSynchronous` | `SyncSpec` | these, `withinArity`, `fastAccepted` |
| `Array_proofs` | `ArraysWellFormed` | `TypeOK` | none |
| | `ArraysKeepBuffers` | `ArraysOwnBuffers` | none |
| | `ManagedElementsCurrent` | `ElementsCurrent` | no managed array is a `CLArrayInt`; one queue |
| | `ManagedReachDevice` | `DeviceCurrent` | the same |
| `Context_proofs` | `ContextTypeCorrect` | `TypeOK` | none |
| | `NoQueueLeaks` | `QueuesOwned` | none |
| | `NoQueueMisused` | `NeverMisused` | none (`default_queue` unused) |
| | `ProfilesAreMeasured` | `EventsMeasured` | none (no habits) |
| `Store_proofs` | `StoreTypeCorrect` | `TypeOK` | none |
| | `NamesStay` | `NamesAreFinal` | none |
| | `KernelsDeletedOnce` | `DeletedOnce` | `oneOwner` |
| | `ExistsIsStored` | `ExistsMeansStored` | `knownNames` |
| | `CachedKernelFits` | `CacheFits` | all, and `NameFor` injective |
| | `CachedKernelAlive` | `CacheAlive` | all, and `NameFor` injective |
| | `RendersImplementStore` | `ImplementsStore` | none |
| | `RendersKeepPromises` | the six above, of `TemplatedSpec` | all, and `NameFor` injective |
| `Utility_proofs` | `TimeIsAccounted` | `ReadingsAddUp` | |
| | `IndexIsListed` | `IndexedIsListed` | |
| | `KnownAreReached` | `KnownDevicesReached` | |
| | `CountIsOpened` | `CountedIsOpened` | |
| | `OneDevicePerIndex` | `IndexMeansOneDevice` | |
| | `GpuElseCpu` | `FirstGpuOtherwiseCpu` | |
| | `RoundUpLeast` | `RoundUpIsLeast` | |
| | `Power2Least` | `Power2IsLeast` | |
| | `SplitLeftmost` | `SplitIsLeftmost` | |
| | `ReplacedIsSplit` | `ReplacedWhereSplit` | |

*Well-formedness.* `TypeOK` of the runtime is inductive as it stands because it
carries one fact that is more than typing: a wrapper that says it is on the
device has a buffer (`onDevice[w] => devicearray[w] \in Buffers`). Without it
`Uses`, `Enqueue` and `SetArg` could put a buffer that is none into a queue or
a parameter. The lemmas are one per operation (`CopyToDeviceType`, `RunType`,
...), on top of one per helper (`EnqueueType`, `ExecuteType`, `AttachType`,
`SetArgType`, `OutputsType`).

*Ownership.* `OneOwner` is split into `Ownership` (what is owned is live and
owned once), which no client can break, and `NoLeak` (what is live is owned),
which needs two rules: a refused `input(N, data)` forgets the buffer it made,
and so does the destructor of a kernel. Every action changes ownership in one
of six ways, and there is a lemma for each (`AttachOwns`, `TemporaryOwns`,
`DetachOwns`, `ReleaseOwns`, `ForgetOwns`, `SameOwns`).

*What was passed.* `ArgsAlive` and `DirtyOnDevice` are not inductive: a
parameter stays alive because somebody holds its buffer (`PassedHeld`), and
the run that ends a call may set a flag only because the wrappers to be marked
are still on the device (`MarkedOnDevice`). Flags the client sets need `markOnDevice`, all others only `keepBound`. A new buffer or a new owner
(`OwnersGrow`) disturbs neither, and `keepBound` keeps `DetachBinds` true. For
`WrittenMeansDirty` the invariant also says that whoever is passed to be
written is to be marked (`PassedMarked`), which holds because no buffer has two
owners, and that all parameters of a running kernel were passed.

*Order.* `ProgramOrder` is not inductive: it speaks of the end of the queues.
`Ordered` (`Device_proofs`) speaks of every place in them. `Finds(q, i, b, v)`:
when the `i`-th command of queue `q` is reached, buffer `b` holds `v`, because
the last command before it that writes `b` leaves `v` there, or none writes it
and it is there already. `Ordered` says that every command finds its inputs
(`InOrder`), that behind the last one every buffer holds what is intended
(`Settled`), and that no two queues share a buffer (`Separate`). It is kept by
any command added to a queue (`EnqueueOrdered`), by the device
(`ExecuteOrdered`) and by whatever happens to buffers no queue uses
(`QuietOrdered`); these lemmas know nothing of EasyCL, and `Order_proofs` and
`Array_proofs` both use them. What EasyCL has to contribute is `Use`: the
buffers of plain arrays are used by the run under way, those of wrappers on the
default queue, and an array being uploaded is not touched. That is where the
three rules come in.

*Transfers.* `OnlyTransferring` says on which queue there may be transfers at
all: the default queue during a blocking read or write, and the kernel's own
queue during a run with outputs, which are the queues these calls wait for.
After a refused read `run()` does not wait, but then what it would have waited
for is not there (`RefusedTried`, `NoneToAwait`). `Delivery` follows each output
on its way: it is computed as intended, and then its read is refused, still in
the queue, or done.

*Flags.* A wrapper that is clean and not edited is up to date, or a call in
progress is about to make it so: a transfer of that wrapper, or a run that will
mark it (`CleanSeen`). A transfer that only has to return has made both sides
equal (`Uploading`, `Downloading`).

*The refinement* adds three facts: no kernel was passed too much
(`WithinArity`), what is to be marked was passed to be written (`MarkedWritten`), and a blocking transfer is the last of its
queue (`LastTransfer`), so that `Call` changes in the step that delivers it. Each
action of `EasyCLSync` has a lemma that says what a step must do to the mapped
state to be that action (`SyncUpload`, `SyncRun`, ...), and each action of the
code one that shows it does. Parameters are followed by what is passed
(`KeepTakes`, `KeepFed`, `KeepDue`: a step that leaves the parameters and their
buffers alone changes none of the three). For `run` two facts meet: the buffers
it reads are those of `Takes` and the temporary ones of `Fed`, so its result is
one of `Computes`; and its outputs arrive by `Delivery`, one `Deliver` each.

*Arrays.* `Kept` is about single states (an array being fetched is in both
places, its buffer is its own); `InSequence` is `Ordered` and what the default
queue is used for; `Current` says that a managed array is in one place, or being
moved, and that the place it is in holds what the client put there or the kernel
left there. For a `CLArrayInt` that is false, as run `int_array` shows, and with
two queues `operator[]` does not wait for the kernel.

*Queues.* An `EasyCL` object that has a queue owns it, so it is live and no
`CLQueue` can take it away; with profiling on it was created with profiling.

*Store.* A kernel that is owned under one name only is counted once by
`~EasyCL` (`OwnedCountOnce`); the name of a parameter value is that of an owned
kernel rendered with it (`NamedForParams`), which is what lets the cache answer
without looking.

*Renders.* `Fitting` is about the globals between the rounds: those the
parameters set hold what was set, those the templates assign hold that or
nothing yet, the others nothing (`Fits`). `Rendering` follows the text of the
render under way (`Progress`): filled with `Whole`, it is the expansion of the
parameters set, or there was a mistake, and then the text is the message or will
be an exception. A round does not change what a text comes to, since what a value
comes to is what its own text comes to (`FilledTwice`, from `ValueAssumption`);
and a text that a round leaves unchanged has no insertion left, since ranks fall
from an insertion to whatever replaces it (`UnchangedIsPlain`). So the text a
render ends with either has the message in it and does not build, or is the
expansion of the parameters that are set, which are then its `Origin`.

*Recursion and folds.* The provers here have no use for theorems about an
operator. Induction is therefore had from the fact that a set of numbers that is
not empty has a least one (`LeastNatural`, from the well-foundedness of `<`), and
stated for sets of numbers (`Induction`); that a recursive definition defines a
function, and that a fold is one, are lemmas (`RecursionExists`, `FoldExists`),
after which the definition can be unfolded where it stands.

*The timer.* `Surplus` is what the readings and what was printed have too much,
`Lost` the negative readings that a `dump` forgets, `Behind` how far the clock is
behind the last check. None is bounded alone: a clock set back is first behind,
then a reading too small, then, printed without it, a surplus. `Accounted` says
that there is no deficit and that together they are no more than the clock was
set back.

*Devices.* Answers depend on the platforms alone (`DeviceInv`). What the loops
find is proved once for arrays of any content and the lengths OpenCL reports
(`SearchIsListed`): `Passed` never falls, so there is one platform at most that
has a given number (the first that offers it), and its place there is its place
in the list of all entries, which `FlattenSeq` makes; `GetDeviceIds` stops there
too unless it failed before (`ThrowingIsSearch`). An entry of an array to measure
is a device, and one of a fixed array that device or undefined
(`FixedOrUndefined`), which it is not where there is room for all (`RoomyFixed`).
A place in a platform is the place in the list that the platforms before it
leave (`PlatformPlaces`).

*Integers.* The bound of `getPower2Upperbound` is a power of two whose half was
too small, or has wrapped around for a value above the last one (`Reached`); then
the loop never returns. `RoundUp` stays in range before the last addition, and
that does not wrap when the least multiple fits.

*Strings.* In the middle of a loop, what was cut off and what is still to be cut
are the `Pieces` of the whole text (`Splitting`, `Replacing`); `Pieces` joined
with the pattern are the text, and each ends at the first occurrence
(`CutLeftmost`).

Only model-checked: `CallsReturn`, `RenderEnds`, `Power2Ends` and `HelpersEnd`,
which say that something eventually happens, since the prover has no support for
fairness. Every other property that a run checks and finds true is a theorem. The
four runs that find a property violated need no proof.

## 6. Plan

Every component that keeps state between calls is modelled, and every safety
property, action property and refinement is proved. What could still be added:

- two `TemplatedKernel` objects whose templates assign to globals across renders
  (one object renders again and again in `kernel_store`; two share nothing but
  the store, which `stale_cache` has);
- templates that give one global several values, as in a loop;
- program objects, if `EasyCL` came to keep them.
