# A verification development for pimc-toolkit

pimc-toolkit has two programs. `pimc` pretends to be a multicast router: from a
YAML file it builds PIM-SM Join/Prune updates, sends them periodically to an
upstream router together with Hellos, and takes everything back when it is
stopped. `mclst` sends and receives multicast test traffic. Paths below are
relative to the repository.

## Inventory

| Component | State | Operations | Interacts with | What makes it correct |
|---|---|---|---|---|
| Update packing, `apps/pimc/pimsm/Pack.hpp`, `UBCursor.hpp` | queue of updates under construction, `start_`, the update reserved for the RPT part | `fitGroup`, `findRptUb`, cursor `++`, `add`, `updateStart`, `build` | called by the configuration loader | no update overflows, nothing lost or doubled, RP and rpt prunes together, dense packing, termination |
| Inverse packing, `InversePack.hpp` | the same, and whether the RP is still to be pruned | `fitGroup`, `build` | called by the loader | everything joined is pruned exactly once |
| Verification, `PackSanityCheck.hpp`, `InversePackSanityCheck.hpp` | sets per group | `verifyUpdates`, `verifyInverseUpdates` | called by the loader on the result of the packers; a failure is a `logic_error` | accepts exactly the right packings |
| Event loop, `apps/pimc/scheduler`, `lib/pimc/events` | timer reading, next event times, position in a round, stop flag | `runOnce`, `ready`, `fire`, `send` of the goodbyes | wall clock, signal handler, PIM interface, through it the neighbor | the neighbor's state never expires while pimc runs and is gone afterwards |
| PIM interface, `apps/pimc/net`, `CapState.hpp` | raw socket, raised capabilities | `create`, `send`, destructor | event loop | no leak on any failure path |
| PIM packets, `apps/pimc/packets` | none | encode a Hello, an update | event loop | sizes and counts fit their fields |
| Configuration, `apps/pimc/config`, `lib/pimc/yaml` | groups and sources seen, errors | load, chkSrc, build | packers, event loop | accepts exactly the well-formed files, whatever the order of their fields; hands on what they say |
| Start of both programs, `Main.cpp`, `Config.cpp` | stage reached, what is open | parse, load, pack, verify, open the log, create the interface | everything above | ends in the one way the input calls for, with nothing left open |
| mclst receiver, `apps/mclst` | timer, limit, statistics | `receiveLoop`, `receive` | `select`, socket, wall clock, signal | every packet counted once, the limit exact, silence reported in time, a signal ends it |
| mclst sender | sequence number | `sendLoop` | socket, signal | the limit exact, what is reported was sent, a signal ends it |
| Command line, `GetOptLong.cpp` | registered options, position, values | `addOption`, `args` | both programs | every argument consumed once and given to the option it belongs to |
| Optional, Result, `lib/pimc/core` | which member of a union is alive | construct, assign, move, swap, map, compare | everywhere | never uses a dead member, destroys each once, behaves as a sum type |
| Formatters, parsers, logging | none or a buffer | pure functions | everywhere | text |

The hard behaviours: the packers are sequential, but their state (a cursor, a
skip pointer and a reservation into one growing queue) makes long sequences of
legal calls interact. The event loop is where concurrency, time and failure
meet: a signal at any point, a lossy link, a wall clock that is stepped, passes
of the loop that take time, a send that fails half way through a round.
Start-up is sequential too, but almost every step of it can fail, and what is
open or raised at that point differs. `Result` and `Optional` are a union and a
flag that every operation must keep in step, while the constructors of the user
may throw between the two.
`PROJECT.json` lists every hazard with its line.

## Modules

* `UpdateBuilders` -- the bookkeeping both packers share: an update that counts
  its bytes, the queue, the cursor. An entry is abstracted to the index of its
  group, the interval of source indices, whether the RP is in it and how many
  rpt prunes. Sizes are constants, subtraction wraps as `size_t` does.
* `Pack` -- `pack()`. One action per branch of `fitGroup()` and one per step of
  the search of `findRptUb()`; `build()` is an action.
* `InversePack` -- `inversePack()` the same way, with the branch that `continue`s.
* `SanityCheck` -- `verifyUpdates()` and `verifyInverseUpdates()`: they read the
  updates back into a configuration, entry by entry, and compare. The two nested
  loops of the code are folds, over the entries of an update within one over the
  updates. `MCPack` and `MCInversePack` run them on what the packers return.
* `SumType` -- the abstract specification of `Result` and `Optional`: slots that
  hold a value or the other alternative; a throw may break one.
* `Result` -- `Result<T,E>`, `Result<void,E>` and `Failure<E>`: the union (which
  member is alive), the discriminator, one action per member function, with a
  throw at each construction. Overloads that differ in qualifiers only are one
  action with the reading, or the moving, of the source as a choice. `Optional`
  is the same for `Optional<T>`. `ub` and `threw` are observations: a dead
  member was used, an exception left the call.
* `Texts` -- what the start-up reads: texts and the address, number or interface
  they stand for, as constants.
* `GetOptLong` -- the option table and the loop over `getopt_long(3)`, which is
  external and permutes words to the end as glibc does.
* `Structured` -- YAML nodes, required and optional fields, extraneous fields.
  `IsYaml` says what yaml-cpp hands over: a set of nodes of the four types that
  has with every node what the node holds.
* `ConfigLoader` -- the loaders of the three sections as functions from a node
  to a value and a set of errors, in the order of evaluation of the code.
  `ConfigSchema` is the yardstick: what a configuration is and means, stated
  without an order.
* `IPv4PIMIntf` -- `create()` and `CapState`: every call that can fail, the
  effective capabilities, the socket, the deferred close.
* `PimcMain`, `MclstMain` -- `main()` of the two programs up to their loop.
  `PimcMain` composes `GetOptLong`, `ConfigLoader` and `IPv4PIMIntf`. Packing and
  verification appear in it by their outcome, which the packers' runs establish:
  a group with nothing to join fails the verification, and one with an RP and
  joins may (see `inverse_pack_lost_rp`).
* `IPv4Exec` -- the running program with its environment. `pc` walks through the
  loop; a packet sent is one step, so that a signal, a tick or a step of the
  clock may fall between any two of them. The clock read by `timer.update()` is
  `now + skew`; at most `MaxLoop` ticks pass between two readings. The neighbor
  is external: it remembers Hellos and joins for the hold times pimc announced.
* `NeighborSession` -- the abstract specification: what may be seen on the link.
  `IPv4Exec` implements it by the mapping `phase`, `sentPackets`.
* `MclstReceiver` -- mclst's receive loop. `select()` waits by real time, the
  `Timer` reads the wall clock `now - back`; a packet is its flow, `"noshow"` or
  `"filtered"`, the outcomes of `processPacket()`. The test of the flag and
  `select()` are two steps, for the signal may fall between them: only the
  timeout ends that wait. The variables called history in the module are not
  in the code; the properties use them.
* `MclstSender` -- mclst's send loop: limit, flag, sequence number, what is
  reported. The pause is one step; a signal does not cut `sleep_for()` short.
* `MCPack`, `MCInversePack`, `MCResult`, `MCStartup`, `MCIPv4Exec`,
  `MCMclstReceiver`, `MCMclstSender` -- constants for TLC. `MCResult` and
  `MCStartup` also put the components together.
* `UpdateBuildersLemmas`, `PackProofs`, `InversePackProofs`, `IPv4ExecProofs`,
  `MclstReceiverProofs`, `MclstSenderProofs`, `ResultProofs`, `StartupProofs` -- the
  proofs.

Definitions whose comment begins "A ... that" (`GrownLate`, `RetryUpdate` and
so on) are plausible bugs. No specification uses them; each is paired with a
property in `PROJECT.json` ("mutants") that notices it.

## Runs

| Run | What it asks | Bounds |
|---|---|---|
| `pack` | `pack()` over all configurations of up to three groups | 14 bytes an update, 3 a header, 2 a source: five sources fill an update but for one byte, as 181 do in 1466. Up to 6 joins, 4 prunes a group: groups split, stop before the reserved update, fill it exactly and share it |
| `inverse_pack` | `inversePack()` over three or four groups | the same sizes, up to 11 joins, so that a group spans three updates and every remainder occurs |
| `inverse_pack_lost_rp` | is every configured RP pruned? No | the sizes of the code, one configuration |
| `ipv4exec` | the program, the link, the neighbor | hold times 12 against periods 2 and 3, one loss, one tick of clock error each way, loop passes of up to 2 ticks; with hold times of 11 `NeighborKeepsState` fails, so the bound is tight |
| `mclst_receiver` | the receive loop, the socket, the signal, both clocks | three packets, room for two, no limit and a limit of two; timeout, lag and clock step of one tick each, so that a timeout is missed, wraps, and is late. `SilenceReported` fails with a patience of one tick less |
| `mclst_receiver_timeout` | is a timeout reported whenever no traffic of the group comes? No | a timeout of two ticks, no lag, clocks in step, up to three packets |
| `mclst_sender` | the send loop and the signal | no limit and limits up to 5; without one the model stops sending after five packets |
| `mclst_sender_report` | does it report what it sent? No | the same |
| `result` | all sequences of calls on results and optionals | two values, two errors, two objects of each class, at most two alive at a time: no operation involves more than two, a temporary of the code included in its action |
| `result_throws` | does a result always hold a value or an error? No | the same |
| `startup` | both programs up to their loop | all command lines of pimc of up to three elements, mclst's with a group, an interface and up to two other options in several orders; files that vary a good one section by section, with every kind of node in every place, sources in two roles and in two spellings, and one rpt prune as the limit |
| `command_line_help` | is the usage shown whenever `--help` is given? No | the same |

`CHECK_DEADLOCK FALSE` where the system may stop: packers end, and programs
exit. `result` checks deadlock: there is always a call to make.

Fairness. The packers are deterministic loops: `WF_vars(Next)`. In `IPv4Exec`
the program takes its next step (`WF_vars(Program)`; no step of it waits for
another party, `sleep_for()` waits for time) and time passes
(`WF_vars(Tick)`). In `MclstReceiver` and `MclstSender` it is the same;
`Program` leaves out `Fail` there, so that a failure never counts as progress.
`result` and `startup` state no liveness and need none.
Nothing is assumed of signals, packets, losses or the clock.

### What the runs show

* The packers end, never raise, never overflow, and pack densely.
* `pack()` is lossless, and `verifyUpdates()` accepts a packing exactly when
  every group has something to join and it is all there; it finds what is lost.
  `verifyInverseUpdates()` complains in exactly the case below.
* `inversePack()` loses the prune of an RP when it reaches a group that has
  joins at an update with room for exactly one source
  (`InversePack.hpp:131`): then `PIMCConfigLoader::build()` throws and pimc does
  not start. `RPLostOnlyInOneSlot` shows there is no other such case.
* No sequence of operations on `Result`, `Result<void>`, `Failure` or
  `Optional` uses a member that is not alive as long as no constructor throws,
  the operators of comparison agree with one order, and both classes implement
  `SumType`. A throw in an assignment leaves a `Result` with a discriminator that
  says "error" and no error (`Result.hpp:672`); `Optional` survives it, because
  the flag it clears says just what is left: nothing.
* `--help` is taken for the end of the options (`GetOptLong.cpp:258`): the
  program goes on as if the command line ended there. `-h` works. All other
  command lines are honoured.
* The loader accepts exactly the configurations of `ConfigSchema` and keeps the
  order of the file (`LoadedConfigExact`). `JPConfig::groups()` is therefore not
  sorted where the file is not, against its comment (`JPConfig.hpp:101-102`); the
  sources of a group are, as lines 30 and 78 promise, in a `std::set`. The packers
  and their verification need no order of the groups; it decides which share an
  update. The run `startup` has files whose groups do not ascend.
* The loader accepts a group with an empty `Join` list, which the verification
  then refuses, so that pimc ends in an uncaught `logic_error`
  (`MulticastConfigLoader.hpp:76`); `StartupOutcome` shows that an empty group
  and an RP beside joins are the only causes of such an end.
* A start that fails leaves a capability raised only where dropping it fails or
  `raise()` returns early (`CapState.hpp:104`), and a socket open only where
  `allowReuse()` fails (`IPv4PIMIntf.cpp:31`).
* pimc's neighbor keeps every state pimc has joined as long as pimc runs,
  provided a hold time covers a period for each loss, the longest passes of the
  loop and the clock's steps; after an orderly stop without loss it has none.
* mclst's receiver counts every packet it can show once for its flow, takes
  exactly as many as `--count` asks, and at most one after a signal. While
  nothing at all arrives it reports timeouts in time, even when the wall clock
  is set back; a packet that is filtered puts the report off
  (`ReceiverBase.hpp:279`), against what `Timer.hpp` and the manual say.
* mclst's sender sends exactly what `--count` asks, and reports one packet more
  (`Sender.hpp:15`), even when it is stopped before the first one.

## Proofs

All for every value of the constants that satisfies the assumptions. Every
invariant and every action property that a passing run checks is a theorem, and
so are both refinements.

* `PackProofs` proves `IInv` inductive. `QueueOK` is its part about the queue:
  every update is within its capacity and of size 0 when it has no entries
  (`Sized`), only the last can be empty (`LastAloneEmpty`), groups ascend in
  each (`AscendingGroups`), joins spill from full updates (`SpillsFromFull`) and
  no source or RP occurs twice among the entries that would be returned
  (`NothingTwice`). The other parts say that the cursor and `start` are inside
  the queue, that the updates before `start` are full, that the reserved update
  keeps the room it was chosen for, and which groups and sources the queue has
  at each point of the loop. The safety properties of the run `pack` follow.
  No sum over entries is needed: an update carries its size, as the code's
  does, and each step adds at most what it found remaining. `RptFitsAssumption`
  (the prunes the loader admits fit into an update with the RP) is what keeps
  the reservation sound; `UpdateBuildersLemmas` has the facts about `remaining()`,
  `maxSources()` and storing an entry that the steps rest on.
* It also proves `VerifyUpdatesExact`: of what `pack()` returns, `verifyUpdates()`
  reports the groups with nothing to join and nothing else, and it notices each
  single entry taken out or repeated. The packers owe it that no entry is empty
  (`CarriesSomething`, a part of `IInv` needed for nothing else) and that what
  they return is a sound packing (`SoundPacking`). `HasRead` then says what the
  conversion has collected after the first entries of an update, and `n` updates.
* `InversePackProofs` does the same for `inversePack()`, over the same lemmas and
  the same `QueueOK`. What is new is the account of the RPs: at every point of
  the loop an RP of a group already passed is either in the queue or has left its
  trace, an update that the group's first SPT prune fills to the end
  (`RPAccounted`); the step that `continue`s (`RPDropped`) leads to the second, and
  no later step touches a full update. `CapacityRespected`, `WellPacked`, `SptLossless` and
  `RPLostOnlyInOneSlot` follow for all sizes and configurations, and
  `InverseVerifyExact` the way `VerifyUpdatesExact` does: a complaint is about an
  empty group or about an RP that was lost.
* `IPv4ExecProofs` proves the types and that every step of `IPv4Exec` is a step
  of `NeighborSession` or none. The inductive invariant says that as long as no
  Hello has been sent the updates are not due before it (`OrderInv`): both
  events are armed from one reading of the clock and the Hello is asked first.
* It also proves the two real-time properties, `NeighborKeepsState` and
  `LeavesNothingBehind`, from the hypothesis `HoldTimesSuffice`. `HoldInv` is the
  invariant: from what the neighbor remembers it computes the date by which the
  next Hello, or update, is due (`HelloBy`, `JoinBy`), which each loss and each
  step of the clock so far has put off, and says at each point of a pass that
  the events and the last reading of the clock keep that date. The bounds on
  losses and steps then put the date before the end of the hold time.
  The hypothesis is about constants and holds of the code's: Hellos every 30 s
  with a hold time of 105 s, updates every 60 s with 210 s
  (`PIMSMConfigLoader.hpp:22-25`). In ticks of 100 ms and with passes of two
  ticks, two losses leave the Hellos room for the clock to be set back by 142
  ticks, about 14 s. `MCIPv4Exec` makes it an ASSUME
  of the run `ipv4exec`, whose 12 ticks are the shortest times that satisfy it.
* `MclstReceiverProofs` proves the types, `StatsExact`, `LimitExact` and
  `StopsAtOnce` of the receiver for all limits, timeouts, buffers and arrivals.
  The invariant adds that `count` lags behind the packets of interest by the one
  in hand and is below the limit until the loop is left for it (`CountInv`), and
  that a pass begun before the flag was set has taken no packet since
  (`LateInv`). For `SilenceReported` it adds how long the silence can have lasted
  at each point of a pass (`SilenceInv`): the passes that found the timeout not
  reached by a wall clock that was set back (`Withheld`), the wait of `select()`,
  and the lag of the pass.
  `NanosAssumption` says that 64 bits of nanoseconds do not wrap around; without
  it the subtraction in `Timer::timeout()` could.
* `MclstSenderProofs` proves the types, `LimitExact` and `StopsAtOnce` of the
  sender for all limits: the sequence number is what was sent plus the packet
  in flight, and below the limit until the loop is left for it.
* `ResultProofs` proves, for any number of results, failures and optionals and
  all values and errors, `TypeOK`, `DiscriminatorTracksUnion`,
  `OptionalAlwaysSound` and `AllComparisonsAgree` of `MCResult`. `AllInv` says that
  the content of a result always has the type its discriminator names (a union
  whose member is dead included, its content being unspecified), that every
  result is absent or sound unless something threw, and that an optional is only
  ever absent, empty or holding a value. Each way of writing one or two objects
  (construct, assign, move, swap, throw) is a lemma, and every operation an
  instance of one. The comparisons follow from what a live result can hold; no
  step is involved. `ResultAssumption` states what the types of C++ guarantee:
  a conversion of a value is a value and of an error an error.
* `SumTypeTheorem`, in the same module, is the refinement `ImplementsSumType`.
  What a slot of `SumType` shows is computed from one object (`Shown`,
  `OptionalShown`); for each operation, with and without a throw, there is the
  call of `SumType` it maps to. `ValueInv` is what the mapping needs beyond
  `AllInv`: a result that claims a value has one alive, and the value of
  `Result<void, E>` is never moved from.
  `ObjectsAssumption` says that no object is both a result and an optional.
* `StartupProofs` proves its theorems for the start of pimc with any command
  line and any file, for mclst with any command line, and for both programs as
  `MCStartup` starts them.
  * `PrivilegesContained`: `IntfInv` says what `create()` has got at each of its
    steps, the capabilities up to `nextCap`, then the `CapState` that will drop
    them, then the socket.
  * `CommandLineHonoured`: `GolInv` says that the elements before `optind` have
    been given to the options they name (`Parsed`), the words among them being
    set aside in their order (`WordsMoved`). It holds for every table that is one
    (`IsTable`), and the tables of pimc and mclst are, option by option
    (`PimcTable`, `MclstTable`). A command line is any sequence of elements with
    the names a shell can hand over (`IsCommandLine`; `LinesAssumption` says so of
    the command lines of the run).
  * `LoadedConfigExact`: `ConfigFacts` says of any document that it is loaded
    without an error exactly if it is a configuration, and then as what it means.
    It is put together from the same statement about each loader: `ListRead` for
    a list of sources, `RPTFacts`, `GroupFacts`, `MulticastFacts`, `PIMFacts`,
    `LoggingFacts`. In the two loops a builder either has an error, and keeps it,
    or holds what the elements read so far say. The assumptions are that the
    document is YAML (`IsYaml`, and `FilesAssumption` of the run's files), that an
    address has one class and none is the mark for "no address"
    (`TextsAssumption`), and that the limit on prunes is a number.
  * `StartupOutcome`: `StageInv` says of each stage of pimc what it has been let
    past, and of each exit status why; `MclstInv` that the configuration of mclst is
    what the options say (`AsArgued`) and that a `--help` that ended it was a `-h`.
    That the two stay true rests on the invariants above: the parser raises
    nothing fatal, what is loaded is a configuration, and a group with nothing to
    join is one without RP and joins in the file (`EmptyGroupFacts`).

Induction over data. The induction theorems of the library take an operator as a
parameter, which the installed provers cannot instantiate. Where a fold over a
sequence, or a recursive function, has to be followed for every length, the
proof takes the least position at which the claim fails instead, a number that
the well-foundedness of `<` provides (`LeastNat`, `FromZero`); `FoldExists` shows that
there is a function that does what the fold's definition chooses, and `FoldSteps`
that along the prefixes of the sequence it takes one step after the other.

Only model-checked:

* Liveness (`Termination`, `StopEndsRun`, `EventuallyJoined` and their like): the
  prover does not handle fairness.
* The properties of the runs that expect a violation: they do not hold.

## Plan

1. Done: `UpdateBuilders`, `Pack`, `InversePack`, `SanityCheck`, `IPv4Exec`,
   `NeighborSession`, `MclstReceiver`, `MclstSender`, `Result`, `Optional`,
   `SumType`, and the start of both programs; the proofs above.
2. Done: the proofs of all the safety properties and of both refinements.
3. Open: liveness, which stays with TLC ("Only model-checked"), and the parts below.

## Not modelled

* PIM packets and the views and writers of `lib/pimc/packets`: a linear encoding
  of what is already decided, without state or branches of interest. That an
  update fits is `CapacityRespected`, in bytes.
* Formatters, text utilities, `OutputHandler`: layout, character by character.
* The parsers of addresses, prefixes and numbers: pure functions on characters,
  with thorough unit tests; `Texts` has their results.
* yaml-cpp, getopt_long, getifaddrs: external; modelled where the code relies
  on them.
* The level filter of the logger, the interface table: input and output without
  state of their own.
* The notebooks that generate tests are not part of the programs.

Met while reading, and not the subject of a run: mclst's option text says that
the interface may be given by its IPv4 address (`Config.cpp:153`), the code looks
it up by name only (`Config.cpp:223`); the message for a bad timeout says 0 to 600
where 1 to 600 is enforced (`Config.cpp:104`).
