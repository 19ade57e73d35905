# Verification of cli-toolkit

TLA+ models of [cli-toolkit](../src), a Go library with an environment, a file
system view, loggers and clocks that a program finds in its `context.Context`,
and a sandbox that replaces each of them in tests. The models are checked with
TLC on small instances; what matters most is also proved with TLAPS for every
value of the constants. `PROJECT.json` lists the components, the runs, the
source lines each definition stands for, the known disagreements between code
and documentation, and the hazards the properties were written for.

    tlc -config ProcessStreams.cfg MCProcess.tla     # a run: its cfg, its module
    tlapm ProcessProofs.tla                          # the proofs of a module

## 1. The system

| Part | Source | State it keeps | Operations |
|---|---|---|---|
| Process | `sandbox/process.go` | reader and writers, capture buffers, three `io.Pipe`s, under a mutex | `SetStdin/out/err`, `StdoutPipe`, `StderrPipe`, `CaptureStdout/err`, `Write`, `Close`, `Run`, `RunWithIO` |
| Pipeline | `sandbox/pipeline.go` | stages, the buffers of the last one | `CaptureStdout/err`, `Run`, `RunWithTimeout` |
| TestEnv | `toolkit/env_testenv.go` | jail, home, user, a map of variables | getters and setters, `Environ`, `Clone`, `ResolvePath`, the file calls |
| Jail paths | `toolkit/filepath_jail.go` | none | `RemoveJailPrefix`, `IsInJail`, `EnsureInJail` |
| Environment in the context | `toolkit/env.go` | a value in a context | `EnvFromContext`, `DumpEnv`, `GetDefault`, `ExpandEnv` |
| File functions | `toolkit/filesystem.go` | none: the `Env` in the context | `AbsPath`, `ReadFile`, `WriteFile`, `AtomicWriteFile`, `Mkdir`, `Remove`, `Rename`, `Stat`, `ReadDir`, `Symlink`, `RelativePath` |
| User directories | `toolkit/user.go` | none | `ExpandPath`, `UserConfigPath` and its like, `Edit` |
| Atomic writes | `AtomicWriteFile` of `env_os.go`, `env_testenv.go` | the files | one operation of seven system calls |
| OsEnv | `toolkit/env_os.go` | the process's variables and its directory | the interface `Env`, by delegation |
| Log capture | `mylog/logger_testutils.go` | entries under a mutex, attributes | `Handle`, `WithAttrs`, `WithGroup`, `FindEntries`, `RequireEntry` |
| Loggers | `mylog/logger.go`, `toolkit/log.go` | none | constructors, `ParseLevel`, `SlogWriter.Write` |
| TestClock | `clock/clock.go` | one time under a mutex | `Now`, `Advance`, `Set` |
| Sandbox | `sandbox/sandbox.go` | the parts above in one context | construction, options, fixtures, file calls |
| AppContext | `appctx/` | five directories | construction, `FindGitRoot` |
| Streams, terminals, hashes | `toolkit/stdio.go`, `tty.go`, `hash.go` | values in a context | lookups |

How they interact: a `Sandbox` puts a `TestEnv`, a logger, a clock and a hasher
into a context; the functions of `toolkit` find the environment there and call
its methods, which turn the caller's path into the host's (the jail joined to
the resolved path). A `Pipeline` makes a `Process` for each stage, or takes the
caller's, gives the reader of stage *i*'s stdout pipe to stage *i+1*, runs each in a
goroutine and waits. A `Process` calls the caller's `Runner` with no lock held.

What is hard in it:

- **Process**: five kinds of calls, from any goroutine and at any time, meet a
  `Run` that reads the configuration once. `Write` sends on a pipe after it
  released the mutex. A pipe is a rendezvous: who stops reading stops the
  writer. Correct means that nothing written is lost, duplicated or cut short
  by an early close, that the result is complete, and that blocked calls end.
- **Pipeline**: *n* goroutines, a channel with room for *n* errors, a deadline
  that only the runners can see, and a second `Run` on processes that may be
  old. Correct means that `Run` is a fork and a join: every stage ends once,
  the answer has all errors and the last output, and it comes.
- **The environments**: no concurrency but long sequences of calls over names: `~`,
  relative directories, `..`, a home that is stored with the jail or without
  it, and a copy. Correct means that file calls stay in the jail, that a file
  is read back under the name it was written with, that a copy is a copy, and that
  a variable is the same by whichever call it is read.
- **What is derived from an environment**: the user's directories, the roots of an
  application and the search for a repository read home, variables, directory and files
  that any call may have changed since, and the git program is asked before the tree. Correct means that
  they follow, that the search finds the nearest repository in the jail's own tree, and that git's answer is one too.
- **Sandbox**: it resolves names that the environment resolves again, and copies fixtures
  past the environment. Correct means that both end where the environment looks.
- **Atomic writes**: failures of every system call, crashes, concurrent writers
  and readers. Correct means all or nothing, at one instant.
- **Log capture**: goroutines append to, search and copy the entries of handlers that
  are derived from each other, and one waits for an entry with a deadline. Correct means that
  an entry is recorded once, in order, with its own attributes, and that a wait ends and
  fails only over what came late.

## 2. Modules

| Module | Models | Uses |
|---|---|---|
| `Process` | Process, with `io.Pipe` (external) | |
| `Pipeline` | Pipeline over the actions of Process | extends `Process`, instantiates `ForkJoin` |
| `ForkJoin` | abstract: what `Pipeline.Run` promises | |
| `Stream` | abstract: what the link of two stages promises | |
| `Paths` | the jail's arithmetic over `path/filepath` (external) | |
| `HostFs` | the host's files (external) | extends `Paths` |
| `TestEnv` | TestEnv, OsEnv and the file functions | extends `HostFs` |
| `AppContext` | the user directories, `FindGitRoot`, the roots of an AppContext | extends `TestEnv` |
| `Sandbox` | the sandbox's own calls over its environment | extends `AppContext` |
| `AtomicWrite` | `AtomicWriteFile`, call by call of the system | instantiates `AtomicFile` |
| `AtomicFile` | abstract: a file replaced as a whole | |
| `TestLog` | the test handlers, those who log and `RequireEntry` | instantiates `EventLog` |
| `EventLog` | abstract: what a captured log promises | |
| `ProcessProofs`, `AtomicWriteProofs`, `TestLogProofs` | theorems | extend their module and TLAPS |
| `PipelineProofs`, `PipeDataProofs`, `StreamProofs` | theorems: control, data and links of a Pipeline | extend `Pipeline` and each the one before |
| `PathProofs` | lemmas about `Paths`, and the jail arithmetic | extends `Paths` |
| `TestEnvProofs` | theorems about TestEnv, AppContext and Sandbox | extends `Sandbox` and `PathProofs` |
| `MCProcess`, `MCPipeline`, `MCTestEnv` | instances for TLC | |

In each module a definition with a name like `Closes_OnSuccess` is a form that
`Closes` might have with a bug in it. No action uses it; it shows that a property
would notice.

### Process

A variable is a map from processes, or from their streams (`Ends`, `Pipes`), to
a field or a local of `Run`:

- `in` is `p.in`; `custom` says that `p.out`/`p.err` is set; `hasBuf` and `buf` are the
  capture buffers; `pipe` and `pend` an `io.Pipe`, its state and the part of a
  blocked `Write` not yet read.
- `src` and `dst` are the locals `in`, `out` and `errOut` that `Run` copied;
  `pc` and `wpc` say where the goroutines in `Run` and `Write` are.
- `captured`, `err`: the `ProcessResult`. `wrote`, `recv`, `refused`, `runs`:
  history, for the properties only (`runs` also bounds).

An action is one lock section, or one step between two of them. The end of
`Run` is three: `RunnerReturn`, `RunClose` (the writers are closed, in one step:
nothing that happens between two of these closings depends on the order) and
`RunCapture`. The runner is the caller's code: it reads, writes and returns in any
order but does one thing at a time. A `Drainer` is a runner that returns only at the end of its
input. Bytes are `Data`, and each `Write` has a chunk of at most `MaxChunk`.

Left out: `SetArgs` and the TTY flag, which nothing here looks at; two
goroutines in `Run`, or in `Write`, of one process at once; a reader that its
user closes, which the repository never does.

### Pipeline

Stage *i* is process *i*. `main` is where `Pipeline.Run` is: `Create` makes the
processes (a new `Process` is a reset of its variables), `Link` wires one pair,
`GiveBuffers` sets the last buffers, the actions named `Stage...` are the goroutines over
`Process`'s actions, `StageSend` is `errCh <- res.Err`, which
blocks while the channel is full, and `Collect` is what follows
`wg.Wait`. A `Wrapped` stage is a process of the caller, who may go on calling
it. `Pipeline.CaptureStdout` and `CaptureStderr` make the same buffer that `Run` would
make and are not actions.

`ForkJoin` has the team of tasks, the finished, the failed and the verdict; `Pipeline`
maps `sent` to the finished and the emptiness of `resErr` to the verdict. `Stream` is an
unbuffered stream, which `MCPipeline` instantiates for two links.

### Paths, HostFs, TestEnv

A path is a list of elements and a flag for the root, with `filepath.Clean`,
`Join`, `Rel` and `Dir` by what they compute. `strings.HasPrefix(rel, "..")` also holds of
names such as `..data`: they are the constant `DotDotNames`. The host is a tree
from lists of elements to files and directories, without links or permissions.

`env` holds the fields of each environment, `data` the maps. A nil map and the map
a clone shares or does not share are visible because an environment only
*points* to its map. `Get`, `Has`, `Environ` and `DumpEnv` are the four ways to read a
variable. A file call is one action: expand, resolve, join, check
the jail, call the host (`Host` is the common part, `Os` the place in the tree the host then
works on). A call that fails changes nothing and is
no step, but for the directories that `WriteFile` and `AtomicWriteFile` make before they fail.
The temporary file of `AtomicWriteFile`, which is in the host's directory for these, comes and goes within the call and is not seen;
module `AtomicWrite` has it.
`AbsPath` and `ResolvePath` are both modelled because `WriteFile` goes through both
and `ReadFile` through one.

The environment `"os"` is OsEnv: no fields, its map the process's variables, its directory
`cwd`. It hands names to the host as they are, except where it resolves or expands them itself
(`ResolvePath`, `Stat`, `AtomicWriteFile`). A behaviour has either TestEnvs or `"os"`, as
`EnvFromContext` answers.

Left out: `Symlink` and followed links, permissions, the Windows branches, `GetTempDir`, `ReadDir`
and `RelativePath`. Bound: the process's directory is neither removed nor moved (`HoldsCwd`).

### AppContext, Sandbox

`AppContext` has no variables: `UserPath` (for the four kinds of directories), `FindGitRoot`
and `NewGitAppContext` are operators over an environment's state. `FindGitRoot` has the answer of the git
program, which is asked first, as an argument: `GitAnswers` are the roots of the work trees around the place that git
takes the start for, and no answer, for git may be missing or may refuse a `.git` that is there.
Without an answer it is `Walk`, towards the root by `Dir`, looking with the environment's `Stat`.

`Sandbox` adds two actions. `SandboxSetwd` is `Setwd` and `WithWd`: resolve, drop the error, let the
environment resolve again. `WithFixture` copies the entries of a fixture in order (`Copied`) to the
jail joined with the resolved path; the first that fails ends it, and what is there stays. All other
options and methods are calls of `TestEnv`.

### TestLog

`made` are the handlers that exist, with `attrs` and `entries` of each: `th` and `lg` are the two that
`NewTestLogger` makes. `Handle` is three steps of a logging goroutine: `HandleBegin` builds the entry (the
handler's attributes never change, so when it does is not visible), `HandleAppend` is the lock section, `HandleReturn`
the echo. `RequireEntry` is a loop of `Search` (a lock section), `CheckDeadline` and `Wake`, and
`DeadlinePasses` at any time. `asked` and `woke` are history: what the makers of a handler asked for, and how
many entries there were when the loop last woke.

`EventLog` records a call in one instant between its begin and its return, and answers a look with the first match
of one instant; `HandleAppend` and `Search` map to these.

Left out: levels, times, sources, and the name of a group, which the code drops too.

### AtomicWrite

A writer's `pc` is the system call it is about to make; each can fail, a write
after some of its `Parts`. `Crash` kills the caller at any of them; a
new caller takes its place. A reader opens what is at the path and reads it to its
end, holding the file even when it is replaced. `AtomicFile` has one instant
(`TakeEffect`) for a write and one for a read; `Rename` and `Open` map to them.
A success may be reported only after the instant, an error only without it.

Left out: a loss of power (the code does not sync), and where the temporary
directory is (on another device each rename fails, which is `RenameFails`).

## 3. Runs

| Run | Asks | Instance |
|---|---|---|
| `ProcessStreams` | is output lost, duplicated, missing from the result, or cut off by an early close? | two processes that may read each other, all configuration calls at any time, two Runs each |
| `ProcessStdin` | the same of stdin, and does a blocked `Write` end? | one process fed by `Write`, `Close`, `SetStdin`, `RunWithIO`; one without a runner; fair |
| `ProcessLateWrite` | is a `Write` during `Run` read by the runner? (violated) | one process, one Run |
| `PipeStream` | are links streams, and the answer complete? | up to three stages that return when they like, the third without a runner, a deadline |
| `PipeRerun` | is `Run` a fork and join, does it return, and again? | up to three draining stages, two Runs; fair |
| `PipeFed` | does a caller who feeds a stage get out? | two stages, the first the caller's, two Runs; fair |
| `PipeStuck` | does the deadline end `RunWithTimeout`? (violated) | two stages, the second may stop reading; fair |
| `TestEnvCalls` | do file calls stay in the jail, names round-trip, copies stay apart, derived places follow? | three calls on a sandbox, with a clone, without a jail, from the zero value, or on the process |
| `TestEnvClone` | does a copy keep the jail? (violated) | the same, without the sandbox's calls |
| `AtomicWrite` | is it an atomic write? | two writers of two calls, a reader, data in two parts |
| `TestLog` | are entries kept, in order, with their attributes; does `RequireEntry` end, and fail only over late ones? | two logging goroutines, two calls, one handler derived, one `RequireEntry` at a time; fair |
| `TestLogReturned` | does the handler of `NewTestLogger` hear its logger? (violated) | one goroutine, one call |

**Bounds and why they are enough.**
Two processes are the writer and the reader of a pipe, three stages the shortest pipeline with a stage
in the middle. `MaxChunk` 2 gives partial reads, `MaxUnits` 2 a second chunk; one value
of `Data` in the larger runs suffices because lengths tell loss and
duplication, and order is that of one sequence that both sides extend at its end. Two Runs are needed for
everything that goes wrong on a second Run; a third finds the state the second
did. Three calls on an environment are two to bring it into an odd state (set the home,
unset the directory, clone, make a repository) and one to use it; the names are the empty one, a relative one,
two that climb out, one of them to `jail2` beside the jail, one below home, and an absolute one that repeats the jail and goes on with
`..data`, which the prefix test must not take for a way out of it. Two of them end in `.git`, so that repositories come to be above and below the working directory; the fixture has a directory and a file
in it, which a file of the same name can block. `XDG_CONFIG_HOME` stands for the variables that are set by name.
Two calls that log, by two goroutines through three handlers, give every order of two appends and a search between them;
two messages and two values tell the wanted from the unwanted and a replaced attribute from a kept one.
Two writes of two writers give every overlap of two calls and a crash followed by a retry.
The theorems of section 4 hold without these bounds.

**Deadlock** is not checked: in every run the bounds stop the callers at last, and a client
that makes no more calls is an ordinary end. That nobody waits for ever is stated instead
as `WriterReleased`, `FedStageReleases` and `RunReturns`.

**Fairness.** `ProcFairness` and `PipeFairness` are weak fairness of the steps that
a goroutine takes by itself: Go's scheduler runs a goroutine that can go on. For the runner
it says that one that can read its input does, and one that can return at last
does; that is an assumption on the caller's code. There is none for what a runner
writes, for calls of the client or for the deadline. `PipeRerun`'s stages all drain their
input, without which `RunReturns` is false: that is what `PipeStuck` shows. `TestLog` has weak
fairness of the steps of `Handle` and of `RequireEntry`'s loop, and of `DeadlinePasses`, because
the clock goes on; none for who begins to log.

**What the violated runs show.** Each checks one sentence of the documentation:

1. `process.go:154`, `Write` works while the process runs: not when the first `Write` comes after
   `Run` has copied `p.in` (line 196); it blocks until the pipe is closed. The
   package's own test starts both in that race.
2. `pipeline.go:176`, a deadline cancels: not while a stage is blocked in a pipe
   that the next stage has stopped reading (line 149 waits for it).
3. `env_testenv.go:490` and 14, a clone is a copy and hermetic: `Clone` drops the jail (line 504), and the
   clone's file calls work on the host.
4. `logger_testutils.go:127`, a logger "and the handler itself for assertions": `With` (line 133) gives the logger
   a handler of its own, and the one returned, which a `Sandbox` keeps too, never has an entry of the logger.

## 4. Proofs

All are for arbitrary constants that satisfy the assumptions named in the modules. Those say what the
code's types or its callers give: streams and sentinels are distinct (`ProcAssumption`, `PipeAssumption`,
`LogAssumption`, `WriteAssumption`), jails are absolute or absent, `Cwd` is clean, the marks for
"no path" and "a directory" are no file's content, fixtures have entries of their type (`EnvAssumption`,
`FixtureAssumption`). `PathAssumption` and `EnvAssumption` also say that the names the code spells out
are strings, and none of them begins with two dots, which a reader sees and the prover does not.
Where a theorem needs more of its callers than that, it says so in its own `ASSUME`, and the paragraphs below give
the example that makes it necessary. The instances of the runs satisfy all of these but for `NamesSpelled`, which leaves out the name
`/jail/..data` of `TestEnvCalls`: what is proved under it is checked there with that name too.

**ProcessProofs.** `TypeCorrect` by one lemma for each group of actions. The
safety properties are not inductive: nothing in them says when a `Write` can be blocked, or
what a closed pipe means. `ProcessInv` adds `WriteInv`, a runner's `Write` is blocked only
while it runs and its pipe is open, and a stream goes only to a buffer or writer that
exists; `EofInv`, who saw the end of another process's output saw its pipe closed; `BufferInv`, a stream with
neither pipe nor writer has in its buffer all that was written, and in the result when
`Run` is done; `RunInv`, an output pipe is closed only by a `Run` that ended. From it
`Conservation`, `EofMeansAll`, `CaptureMeansAll` and `FirstRunHeard`.

**PipelineProofs.** A stage's step is a step of `Process` (`StepKinds`), so the types of
`Process` carry over; wiring has a lemma of its own. `CtlInv` ties `main` to the
stages that ended and `ErrInv` says that the channel holds one error for each of those, the
right one. From them `PipelineTypeCorrect`, `RoomForAll` (the sent errors are those of other stages, so there is room for
one more, and no send blocks), `ErrorsJoined`, and
`ImplementsForkJoin`: every step is one of `ForkJoin`'s or a stutter.

**PipeDataProofs.** The data of a pipeline, with any of its stages wrapped and any number of Runs. `PipeInv` is
`ProcessInv` with three parts: `FreshInv`, a process that `Run` made is used by `Run` alone and once;
`WireInv`, a link has its pipe before any stage runs, and it is closed once its writer's `Run` is past the
closing; `LastInv`, the last stage writes to the pipeline's buffer from the first Run on, the buffer has all of it,
and so has the answer. The last is what has to be carried from one Run to the next, because a new process takes the buffers over.
From it `LastOutputInAnswer`, `DoneClosesLink`, `FreshHeard` and, since the wiring keeps `ProcessInv`,
`LinksConserve` and `StageEofMeansAll`.

**StreamProofs.** `LinksInv` says which streams the two ends of a link use, and that they use no other; it holds when the
caller wrapped no stage, for a caller's own calls rewire it. With `PipeInv` every step is one of `Stream`'s, or a
stutter, at *every* link (`EachLinkIsStream`); `ImplementsStreams` is the statement of the runs about the first two.

**AtomicWriteProofs.** `Inv` has the types; `Progress`, what a call has done by the
step it is at (the file is whole from `close` on and has its mode at `rename`); and that a file at the path,
or open in a reader, is `Settled`: whole, and of a call that is past its rename. The last
is what makes the property inductive, for it says that no later step of any writer touches that file.
From it `NothingPartial` and `ImplementsAtomicFile`. `Places`, over `Inv`, says of every
temporary file that it is of an earlier call, of one between its creation and its return, or of one
whose caller died; from both `TypeCorrect` and `NothingLeft`.

**TestLogProofs.** `TypeCorrect` by actions. `Attribution` is about entries that are recorded, so it needs
`Attributes`, a handler has what was asked for, and `CallAttribution`, an entry that waits for the lock was built
with it. For `FailuresAreLate`, `Seen` says that the entries there at the last waking are still there, in place, and hold
no match once a search has gone past them: entries are only appended. `FoundStaysFirst` needs the same of an answer (`Found`),
and that the first element of what `FindEntries` collects is the first match (`Wanting` is a recursive function; see below). `ImplementsEventLog` maps every step to one of
`EventLog`'s or a stutter, with `FirstMatchIsFirst` for the answer.

**PathProofs.** What `Clean`, `Join`, `Dir`, `Rel` and the jail's functions return for every path. `Clean` is a recursion over the
elements. That it has a solution, and what the solution keeps, is proved with `Inherited`: if a set of numbers has 0 and with each its
successor, it has all, because a least one outside (`LeastNat`) cannot be. The main lemmas: an absolute path is cleaned to one without `.` and
`..` (`CleanAbs`); plain names after a path stay after it (`SimplifiedAppend`); a relative path that is cleaned by itself is some `..` and then
names, and read after a directory that many elements of it are cut off (`Reading`), so that a relative path may be cleaned before it is joined or not (`JoinClean`);
and the `Rel` that the jail's test uses does not go up exactly if the one path begins the other (`RelInside`). `EnsureConfines` is what `EnsureInJail` does: it confines,
but by another path than its comments say (section 5).

**TestEnvProofs.** `Inv` is inductive over all calls of a sandbox and of its environments (`InvCorrect`):

- `EnvInv`: types; each environment has a map of its own or none, and its fields are what its map says. The properties are about
  what a call answers; that no two maps are one is why `ClonesAreIndependent`, and that fields and map agree is why `ViewsCorrect`.
- `CwdInv`, `DiskInv`: the process's directory is a clean absolute path and exists, and the host's files are a tree. A tree is what
  keeps a file call local: `RemoveAll` and `Rename` take the nodes below one place and no orphan is left elsewhere.

From it `TypeCorrect`, `ViewsCorrect`, `ClonesAreIndependent`, `WdCorrect`, and `JailHolds`: each call's places lie under the jail (`HostInJail`, from the lemmas
about `Rel`), or are directories above it, and each operation of the host changes nothing that is not under its place.

What a name resolves to needs more about where directories come to lie:

- `WdNeat`, an absolute working directory is clean. It needs `CleanHomes`, an absolute home is given clean: with the home `/a/../b`,
  `.` resolves to `/a/../b` and that, asked again, to `/b`. From it `SetwdLands`, `HomeCorrect`, `FixtureConfined`, and
  `ReadsCorrect`: a path that resolves to an absolute one is joined to the jail as it is (`JailPlace`), and refused only if its first name begins with two dots.
- `Fit(P)`, every path an environment keeps is in `P`, for any `P` that has the arguments of `NewTestEnv` and what `Join` makes (`StepFits`).
  With `P` the paths without names such as `..data` (`Spelled`, from `NamesSpelled`), the jail's test refuses nothing that was joined to the jail (`HostOf`), and
  `LocalRootCorrect` follows: without an answer of git the walk climbs in the jail as it would in the tree itself, and what it finds first is the longest (`NearestFound`);
  with one, where there is no jail, the answer is a clean path above the working directory and is kept as it is (`AnswerFound`).
- With `P` the paths without `~` (`Untilded`, from `TildesFirst`: `~` is at most the first element of a caller's path), nothing is expanded
  twice, and `ReadsBack` follows. `HomesStay` excludes names such as `~/..`: to `ResolvePath` they are the working directory, to `WriteFile` the
  directory above home.
- With both, `FixtureReadsBack`: the path of an entry, joined to the fixture's, resolves to what the fixture's does with the entry's names after it (`EntryResolved`),
  which is where it was copied to (`EntryPlace`), and no later entry replaces it (`CopiedHolds`). `FixturesNamed` says of a fixture what `embed.FS` gives it, elements other than `.` and `..` and
  no entry twice, and that no element is `~` or begins with two dots; `TildesPlain`, that a path that begins with `~` is otherwise clean.

**Only model-checked**: liveness under fairness (`WriterReleased`, `FedStageReleases`, `RunReturns`, `WaitEnds`), for the prover
has no `ENABLED`. Every invariant, action property and refinement that a passing run checks is a theorem.

## 5. Not modelled, and why

- Terminals, streams and hashing, `GetUser`, `GetTempDir`, `ReadDir`, `Edit`: they ask the
  system or the library and keep nothing between two calls.
- Loggers (`mylog/logger.go`) and `TestClock`: constructors, and one atomic step each: nothing to interleave.
- Symbolic links, a loss of power, devices, permissions: below the files as modelled here.
- Concurrent use of one `TestEnv`: it has no lock and promises nothing.

Oddities met on the way that no property states:

- A stream that is captured and piped goes to the buffer alone, and the reader of `StdoutPipe` gets only the end of file
  (`process.go:204`), though line 84 says it can be read there; after a first `Run`, which makes a buffer where nothing is configured, this
  holds of every `StdoutPipe` opened later. `PipeConservation` covers it from the other side: nothing that was written to the pipe is lost.
- `SetHome` stores jail and path although the field's comment (`env_testenv.go:22`) says it does not include the
  jail, so that `Set("HOME", Get("HOME"))` doubles it.
- `GetTempDir` says that its path "will be adjusted to reside inside the configured jail" (`env_testenv.go:258`). It is not:
  `TMPDIR` is a path of the host, to which a file call would put the jail again, and the last resort is `/tmp`.
- The comment of `OsEnv.Setwd` says it attempts to update `PWD`; the line that would is commented out (`env_os.go:107`).
- `toolkit.WriteFile` and `OsEnv.AtomicWriteFile` expand `~`, `OsEnv`'s other file calls take it for a name
  (`env_os.go:137`); `ReadDir`'s comment (`filesystem.go:336`) says that names are expanded.
- `~/..` is the working directory to `ResolvePath`, which cleans before it expands (`env_testenv.go:460`), and the directory above home to
  `WriteFile`, which expands first: what is written there is read elsewhere. No caller in the repository uses such a name.
- A relative `Home` makes a relative `PWD`: `WriteFile` then puts the process's directory in front (`AbsPath`), `ReadFile` does
  not, and a fixture is joined to the jail unchecked (`sandbox.go:160`). `ReadYourWrites`, `FixtureLands` and `LocalRootIsRepo` ask for an absolute directory.
- `LoggerFromContext` and `EnvFromContext` promise an answer for a nil context (`logger.go:116`, `env.go:168`), on which both panic; and the
  former says `slog.Default()` where it answers a logger that discards.
- `WithEnvMap` sets in the order of a Go map: with both `HOME` and a `PWD` below `~`, the result varies.
- `EnsureInJail` promises "its base name appended to the jail" (`filepath_jail.go:57`, and 81 again) for a path outside, and appends the
  whole path: the code and its comments disagree. `EnsureConfines` states what the code does. For a path such as `/..data` the answer
  is one that `IsInJail` refuses. Its branch for relative paths cannot be reached. Only tests call it, by itself or through `EnsureInJailFor`.
- `IsInJail` takes a name such as `..data` directly in the jail for a way up (line 52), so that no file call reaches it. `ReadsItsJail`
  leaves these names out by `GoesUp`.
- `FindGitRoot` asks git about the jail's path as if it were the host's (`git.go:30`): with a jail, an answer is a path of the host that is
  then read as one of the jail. `LocalRootIsRepo` says nothing of this case.
- The default user name goes into the home but not into the field `user`.
- A process without a runner leaves its pipes open (`process.go:187`), though line 178 says that `Run` closes them when complete. In a
  pipeline, a stage after it that reads to the end of its input, or one before it that writes, waits for ever, and `Run` with it: `DoneMeansClosed` and
  `RunReturns` are about stages with runners.

## 6. Plan

Done, in this order: Process and its proofs; Pipeline over it with `ForkJoin` and `Stream`;
TestEnv with its paths and files; AtomicWrite with `AtomicFile`; TestLog with `EventLog` and their proofs;
OsEnv, the user directories, AppContext and the Sandbox over TestEnv.

Then the proofs: the data of a pipeline and its links as streams for any number of stages; the paths; the environments over them; and
what is read back, found and copied.

Next, the model: links in `HostFs`, for `Symlink` and the calls that follow links, with `StaysInJail` as what they may break;
`Pipeline.CaptureStdout` beside a `Run`, two goroutines on one buffer.
