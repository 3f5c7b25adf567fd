# Models of the network probing tools

This directory holds TLA+ models of the programs in this repository, the TLC
configurations that check them on small instances, and proofs of the theorems
that hold for every instance. The programs measure a network path from its ends:
a client sends bursts of UDP datagrams, a server notes which of them arrive and
when, and from the gaps one reads the loss, the capacity of the bottleneck's
queue and its bandwidth.

## 1. The system

| component | state it keeps | operations | interacts by |
|---|---|---|---|
| probe client, version 2 (`hw2/bufferprobe2/client.cpp`, `burst.h`) | position in `main`, burst length and number, retry counter, `SIGINT` flag | BEGIN handshake, bursts, COMPLETE handshake, report | UDP, signals |
| probe server, version 2 (`server.cpp`, `test.h`) | the pointer `testdata`, the `TestData` behind it | one case of a `switch` per message type | UDP, signals |
| messages (`message.h`) | a header in a byte buffer | accessors, `isResponsePair` | shared by both |
| results (`results.h`, `time.h`) | one `BurstResults` per burst | loop over sequence numbers, subtraction of times, serialisation, printing | in the payload of COMPLETE_ACK |
| running statistics (`stats.h`, both versions) | count, minimum, maximum, mean, squares | add a sample, read | called once per burst when a report is printed |
| timed receive (`socket.h`, `signalhandler.h`; `receive_packets` of the C programs) | alarm, `errno`, flag | alarm, `recvfrom`, test of the flag | `SIGALRM`, `SIGINT` |
| timestamping socket and its client (`TimestampingUDPSocket` of `socket.h`, `tsclient.cpp`) | error queue, receive queue, position in `main` | send and wait in `select` for the timestamp; otherwise the client | UDP, error queue of the kernel, `SIGINT` |
| probe, version 1 (`hw1/bufferprobe`; `jittertool` is a copy) | client: loop variables; server: vector of bursts of messages, cached pointer | send; receive and store, analyse, free | UDP, `SIGINT` |
| array of version 1 (`vector.h`) | slots | get, set, resize | called by the server |
| map of version 1 (`map.h`) | linked list, size | clear, put, get, remove, pop | called by nobody |
| constant bit rate tools (`udpcbr`, `sleeptest`) | a counter | send in a loop, print the time of arrival or of a turn | UDP, signals |
| the rest (`hw2/bufferprobe/src`, `udpsend.c`, `machineType.c`, scripts, data) | – | – | – |

`hw2/bufferprobe` and `hw2/bufferprobe2` are the same programs but for includes,
`printf` for `cout` and `emplace` for `insert`; `jittertool` is `hw1/bufferprobe`
with another sleep. Definitions that stand for the whole of a program (`ClientNext`,
`ServerNext`, `SenderNext`) are mapped to the sibling copy, the single actions
to the primary one.

What is hard here, and what makes each part correct:

* **Handshakes over UDP.** Messages and answers are lost, late, duplicated or out
  of order; each side retries or waits. Correct: a run ends; it fails only if the
  network gave it a reason; a retry does not undo what was done; what is printed is
  the real loss.
* **A server with no notion of sessions.** It obeys every message, checks neither
  its pointer nor an index, and may be started again at any time. Correct: what
  the client sends never makes it step outside its data.
* **Signals between system calls.** A flag set by `SIGINT` and an alarm that
  interrupts `recvfrom` cooperate without atomicity. Correct: Ctrl-C ends the loop,
  and the alarm interrupts nothing else.
* **Storing out of order.** Version 1 caches a pointer and grows arrays by doubling.
  Correct: every message is filed under its numbers, and growing loses nothing.
* **Arithmetic of times and counts.** Carries between seconds and microseconds,
  zero as "none yet", first gap against total, division by a time that is zero, a size
  kept beside the list it is the size of, numbers printed without their leading zeros.
  Correct: what is computed step by step is what the definition says, and where it is
  not, it is known when.

`PROJECT.json` lists the components, every hazard at its line with the properties
that watch it, and the source lines every definition stands for.

## 2. The modules

```
Datagram ── UdpChannel ──┬── ProbeClient ──┐
    │                    └── ProbeServer ──┴── BufferProbe ── MCBufferProbe
    └── TestData ────────────┘    ·               └── BufferProbeProofs
            ├── ProbeSession (abstract) · · · · · · ·┘ (INSTANCE)
            ├── TestDataLemmas
            └── ArrivalTimes ─────────────── ArrivalTimesProofs ─┐
                    └── BurstAnalysis ─┬──── BurstAnalysisProofs ┘
RunningStats ───────────────┘          │            └──────────────────────┐
LinkedMap ─────────────────────────────┼── MCParts ─────────── PartsProofs ─┘
    · · KeyedStacks (abstract, INSTANCE)
BitRate ───────────────────────────────┘
TimedReceive ── TimedReceiveProofs
TimestampSocket ── TimestampSocketProofs
SparseVector ── BurstRecorder ─┬── MCBurstRecorder
                               └── BurstRecorderProofs
```

* **Datagram**: the header as a record, message types, `isResponsePair`. Byte order
  and the padding of probes are left out; `run` is a history field.
* **UdpChannel**: two queues; loss, reordering and duplication are actions of the
  environment, switched by constants. External code, modelled from how `socket.h`
  uses it.
* **TestData**: `test.h`, and the counts of `results.h`: per burst the length that
  was announced last and the set of entries of the map.
* **ProbeServer**: one action per case of the `switch`. `recvfrom`, handler and
  reply are one step, for the process has one thread and shares nothing. C++ that is
  undefined in a state (a null or uninitialised `testdata`, an index past
  `_bursts`, more results than fit in the buffer) is recorded in `ub`, and the process
  either dies (`ServerCrash`) or goes on, where going on makes sense.
* **ProbeClient**: one action per piece of `main` between two points where another
  process can be noticed: sending a control message, each outcome of the receive,
  each probe, the ends of the loops. Runs follow each other on the same ports, and
  messages of one run can reach the next.
* **BufferProbe**: the composition, with an `ERROR` message from a third party
  (neither program sends one, but the server obeys it), the fairness, the
  properties.
* **ProbeSession**: what a user is promised, without network or server: probes are
  sent in order, and at the end there is an error, or a report with one line per
  announced burst, each the exact summary of *some* probes that were sent in it.
  `ImplementsSession` is the refinement, with `phase` and `params.num_bursts`
  mapped to the state of the session.
* **TimedReceive**: the receive loop one system call at a time; `version`, fixed
  by the initial state, says whether it is that of the C or of the C++ code. `recvfrom`
  returns a datagram, is interrupted by the alarm, or fails for another reason
  (`RecvfromFails`). How it really ended and how long the datagram really was is kept in
  history variables, so that the properties do not rest on the `errno` and the length the
  code looks at.
* **TimestampSocket**: `tsclient`, call by call, with the receive queue and the error
  queue of its socket. `stamping`, fixed by the initial state, says whether the device
  timestamps. The server and the network are reduced to answers that come once, late
  or not at all.
* **SparseVector**, **BurstRecorder**: version 1. The cached pointer, the vector of
  bursts, the vectors of messages and the doubling are those of the code; `heap`
  holds what `malloc` returned. A message longer than a `short int` can say, which the
  client accepts, is dropped by the receiver (`ReceiveTooLong`).
* **ArrivalTimes**: the constructor of `BurstResults`, one step per iteration, over
  the arrival times of one burst, and `Time::operator-`.
* **RunningStats**: `Stats::addSample` and the mean, minimum, maximum and deviation. A
  double is an exact fraction; one with the denominator zero is an infinity or not a
  number, so that a division by zero seconds does to the mean what it does in the
  program. What the statistics of a sequence should be is defined beside it, over all
  samples at once.
* **BurstAnalysis**: the same datagrams given to both servers. To the loop of
  `ArrivalTimes` it adds the printing of version 2, `analyze_packets` of version 1 with
  its search for the earliest and the latest message, and the statistics both keep
  over the bursts of a test; bursts other than the one followed enter only with what
  was found about them.
* **LinkedMap**, **KeyedStacks**: `map.h`, one action per function, called in any order;
  and what it is for its callers, a stack of values for every key. `ImplementsStacks` is
  the refinement. The abstract specification says nothing of the size, because the
  size is wrong.
* **BitRate**: sender and receiver of `udpcbr` and `sleeptest`. The two `printf` formats
  (`"%d.%d"`, `"%d.%06d"`) are modelled by the decimal number the line shows to whoever
  plots it.
* **MCParts**: `BurstAnalysis`, `LinkedMap` and `BitRate` in one run. They share
  nothing, so a behaviour is of one of them (`part`) while the others rest in their initial
  states; exploring their interleavings would multiply states and show nothing.

Operators such as `MayTry_OneShort` or `Lookup_Stale` stand before the definition
they vary: they are that definition with a plausible mistake, and no specification
uses them. Each property is known to fail when the mistake replaces the original.

## 3. What TLC checks

Every run explores all states of its instance with `CHECK_DEADLOCK FALSE`: the
programs end, and a session in which no user starts another run stops.

| run | question | what it shows |
|---|---|---|
| `fifo` | loss and delay, order kept; two runs, of one burst or of two growing past `IntMax` = 1, 2 tries, up to 2 losses of control messages per handshake | types; the report is the real loss; a BEGIN sent again never wipes probes of its run; only a late answer is rejected |
| `reorder` | any order, one duplicate, one run | `HandshakeInv`, `BurstNumbersInv`; the refinement of `ProbeSession` |
| `restart` | sends that fail, a server stopped, crashed and restarted once, one foreign ERROR, three runs of one try with a shorter or a longer test | a null `testdata` is followed only after a restart or an ERROR; the vector is left only after a stale BEGIN_ACK was taken |
| `timely` | answers within the second, simulated queue on, one foreign ERROR | failure needs a loss for each try; every run ends; with fewer losses it reports, unless the server goes down |
| `long` (violation) | room for one result, two bursts | the reply of a test the client accepts does not fit |
| `receive` | C and C++ receive loop, datagrams of length 0, `SHRT_MAX` and one more; `recvfrom` is entered before the alarm expires and may fail | the alarm stays inside `receive`; a failure is thrown on, a timeout is not; which datagrams are passed over; Ctrl-C ends the loop |
| `late` (violation) | the process loses the processor between `alarm` and `recvfrom` | the wake-up is lost, and with it Ctrl-C |
| `recorder` | version 1: two clients in turn, each with one doubling burst, one burst of 3 or three of 1; any order, losses, a duplicate; queue of 2 | messages filed under their numbers; complete report with the real loss; when the analysis fails, when more is received than sent, when a write leaves an array |
| `recorder_first`, `recorder_bytes` (violations) | first message lost; message of two frames | null pointer in the analysis; overhead of one frame |
| `timestamps` | two bursts of two, 3 tries, answers that come late or not at all | a send takes the timestamp of its own message; it fails only over an answer that was faster; the client ends where the device timestamps |
| `times` | one burst of four probes, in any order, one of them twice, over four ticks, three microseconds to the second, analysed by both servers, with other bursts of the test (up to four); a map of up to five elements under two keys; two datagrams and two lines of each printer | see below |

`times` (module `MCParts`) shows that counts, spans and smallest gap of the loop of
version 2 are those of the definition; no difference is negative while the order is
kept; version 1 divides by the exact span of the messages it counts (`SpanIsExact`);
both versions find the same capacity, but not always the same time for it (`VersionsAgree`:
version 2 has the time between the first arrivals of the first and the last counted
message, version 1 at least that between their last arrivals, and exactly that if none was
overtaken; so they agree without duplicates and reordering, and a duplicate can make either
of them the longer one); both properties speak of the arrivals themselves, kept in a history,
not of what the servers stored; the running statistics are those of the samples; a mean is
lost, infinite or no number, if and only if the counted messages of some burst all came in
the same microsecond (`MeanLostExplained`; only version 1 divides without looking, and one
message alone is enough); the size of the map exceeds its length by the pops, so a
caller who pops until the size is zero follows a null pointer (`SizeCountsPops`); the map is
a stack per key; the count the sender prints is what it handed to the network, whenever
Ctrl-C came; and the lines of the receiver are out of order only behind an arrival in the
first tenth of a second (`RatePrintsExplained`).

The violations are disagreements between what a comment, a message or a check of
the code says and what the code does (`findings` in `PROJECT.json`). Five smaller
ones show in the models without a run of their own: a Ctrl-C between the
installation of the handler and the reset of the flag is forgotten (hence
`pc # "clear"` in `CtrlCEndsLoop`); the C programs drop datagrams longer than
`SHRT_MAX` (`DroppedExplained`), for the length is kept in a `short`; when probes
overtake each other the seconds of a difference are negative, although `time.h`
says "at this point, x >= y in both respects" (`in_order` in `InOrderNotNegative`); the
size of a map is not its length once something was popped; and the times `udpcbr` prints lose
the leading zeros of the microseconds, those of `sleeptest` do not.

**Bounds.** Two bursts are the fewest in which bursts can be told apart, two probes
the fewest with a gap between them, two tries the fewest with a stale answer, two
runs the fewest with a leftover, three the fewest with a leftover of the last but one
(which the vector is left by). Of the vector of version 1, three bursts of which the
first two are lost overrun it, and a second client with a longer burst under the
same number overruns a burst's. `MaxDuplicates`, `MaxInFlight`,
`MaxControlLoss`, `MaxRuns`, `MaxRestarts`, `MaxErrors`, `MaxDatagrams`, `MaxClock` only bound the
environment, and so does the constraint `ErrorsEarly` of `restart`: behaviours with a foreign ERROR
are followed for two runs instead of three. Numbers of the code are scaled: `MaxRetries` (9), `ReplyCapacity` (909),
`IntMax`, `ShortMax`, `MILLION`, `FrameLen` (1472), `DBL_MAX`, `Base` and `Digits` (10 and 6).

Four probes are the fewest with a first run of two, a gap, and something behind it;
over four ticks with three microseconds to the second they meet the carry, equal
times and the turn of a second. The first second of the epoch is left out: a clock that
reads zero does not occur. Four other bursts (`MaxBursts`, of a test whose burst under analysis got nothing) take the
statistics beyond two samples, after which there is a deviation; behind a burst that got
something there is one (`MaxAfter`). What may be found about them covers the
cases that differ: different times, a single message, a gap. Five elements under two keys
give every order of equal and different keys. Two digits of base two behind the first
already show a line that is read too late (`Digits = 3`); ten microseconds cross a second.

**Fairness.** In `FairSpec` a started client takes its enabled steps and a running
server handles what has arrived (the kernel schedules both); a port without a
socket discards. Losing, interrupting, starting and stopping carry no obligation.
`Timely` says that an answer still under way arrives before the second is over;
without it a client may time out every try, and rightly fails. The client's
timeout itself is taken for granted here: `TimedReceive` shows what it rests on,
and the run `late` that it can fail. In `TimedReceive` the process is scheduled
and a running timer expires; in `TimestampSocket` it is scheduled and a message
that gets a timestamp gets it some time.

**Order.** `MeasuredLossIsRealLoss`, `RecordedKept` and `RejectedIsLate` are about networks
that keep the order and a server that is not restarted. With reordering the first two are
false: a COMPLETE overtakes probes, a delayed BEGIN deletes them. What then still holds is
`ImplementsSession`.

**Answers of another run.** The client of a new run binds the port of the last one and
tells its answers only by type, number of bursts, try and burst length. The history `run` in
every message says whose answer it was. Three things follow, each with a property: a report is claimed to be
the real loss only if both acknowledgements were the run's own (`beginRun = run /\ reportRun = run`
in `MeasuredLossIsRealLoss`; without this guard it is false); the server writes past its vector
only after some run took a BEGIN_ACK of an earlier one (`misled` in `IndexExplained`: its own
BEGIN may then be lost, and its probes meet the shorter vector of the earlier test); and a
run ends with "unexpected response" only over an answer of an earlier run, of an earlier try, or, after it was
misled, of its own first handshake (`RejectedIsLate`).

## 4. What is proved

TLAPS checks the following for every value of the constants: any number of runs, retries,
duplicates, losses and restarts, any command lines, bursts of any length, any clock, from the
assumptions named in the modules. `theorems` in `PROJECT.json` lists the results. Each
invariant below is a conjunction of named parts; a lemma per action shows that
the action preserves it.

**BufferProbe** (`BufferProbeProofs`, `TestDataLemmas`)

* `TypeCorrect`: `Spec => []TypeOK`. The lemmas about queues say what stays in flight,
  those of `TestDataLemmas` what the operators yield.
* `HandshakeHolds`, `NullDerefNeedsRestart`. `NullDerefExplained` is not inductive: one
  has to know that no PROBE or COMPLETE is in flight yet. `HandshakeInv` says so: while the
  server has no test, only BEGINs are under way, nothing comes back, and the client has
  not left its first loop.
* `BurstNumbersHold`: in a single run every BEGIN in flight, the vector, every probe in
  flight and the client's loop agree on the number of bursts, on any network.
* `IndexNeedsStaleAck` (`IndexExplained`): where the order is kept, whatever is lost, late or
  duplicated and however often the server starts again. From the moment an
  acknowledgement of the run's BEGIN exists (`OwnAck`), what earlier runs sent is gone and the test the
  server has, if any, is of the run (`OwnTest`); and as long as no run was misled, no probe in
  flight points past the vector, neither as it is nor as a BEGIN ahead of the probe makes
  it (`InBounds`).
* `RunIsSession`: one run against a server that is not started again implements
  `ProbeSession`, on any network. `SessionInv` has two halves: what was sent is what the
  loops have passed, in order (`SentInv`), and whatever is in flight, recorded or answered
  was sent in the burst it names (`RecordedInv`), while no COMPLETE is on its way to a
  server whose pointer was never set. With a restart the theorem would be false: the new
  server's `testdata` may point anywhere, and what is answered from there is no report.
* `LossIsReal`: where the order is kept, nothing comes twice and the server is not
  started again, every run that took its own two acknowledgements prints its real loss, whatever
  is dropped or late (one that took an answer of an earlier run may print that run's). Leftovers of
  earlier runs are the difficulty. `RunsInv` orders what is in flight by run.
  `BeginInv` says that once a BEGIN of this run is acknowledged, what earlier runs left is
  gone, the server has an empty test, and only BEGINs of later tries can still follow;
  the sequence numbers make the client accept only the acknowledgement of its last try, so
  then none follows. `MeasureInv`: from there on the probes in flight are those neither lost nor
  handled, none is behind a COMPLETE, and the server's record is what was
  handled. So the answer to a COMPLETE is computed when every probe is accounted for.
* `RetriesWipeNothing` (`RecordedKept`, an action property): under the same
  assumptions no BEGIN is behind a probe of its own run (`KeptInv`), therefore the
  action that replaces the test replaces nothing of the run.
* `OnlyLateRejected` (`RejectedIsLate`, an action property), under the same assumptions. `LateInv`: the
  run's own requests and answers on their way all belong to the handshake it is in, carry its
  numbers, and those of the first come in the order of the tries; so after its own BEGIN_ACK was accepted
  none of that handshake is left to be taken for an answer to COMPLETE.
* `FailureIsLosses` (`FailureNeedsLosses`): where every answer comes within the second and
  comes once, a run against a server left alone fails over nothing but losses, in
  whatever order datagrams arrive. `TriesInv` accounts for the message the client waits on: the
  request of this try is under way, or its answer is, or one of the two was dropped
  (`OneUnderWay`); of each earlier try of the handshake a datagram was dropped. The client
  takes every answer that does not fit for an error; the invariant says that none can come.
* `SummaryBounds`: contiguous <= received <= sent for any arrivals. It needs that `Min`
  of a set of naturals is a member and a lower bound, from well-foundedness.

**Results and times** (`ArrivalTimesProofs`, `BurstAnalysisProofs`)

* `SubtractionExact`: the two carries of `Time::operator-` are exact for all times of day
  (and the second carry is never taken).
* `NoNegativeTimes`: while no probe overtakes another no difference is negative.
  `OrderInv` keeps the times of the probes in the order of their numbers and no later than
  the clock, and both timestamps of the loop among the probes it has passed.
* `TimesTyped`, `CountsExact`, `SpansExact`, `ShortestExact`: the results of the loop are
  those of the definitions, for a burst of any length in any order. `TimesInv` says what each local
  variable is after `seq_num` iterations: the two timestamps are the ends of what was
  found (`EndsInv`), the time of the first run is fixed at the first gap (`RunInv`), the shortest
  time is the least gap so far, zero meaning "none yet" (`ShortestInv`).
* `AnalysisImplementsTimes`: the part of `BurstAnalysis` that is version 2 takes the
  steps of `ArrivalTimes`; so the theorems above hold of it too.
* `AnalysisTyped`; `SpanExact`, `BothVersionsAgree`. `BothInv`: both servers hold the same numbers, version 2
  with the time of the first arrival and version 1 with that of the last (`StoresInv`); version 2 has the ends of its run
  (`CountingInv`); version 1 has an earliest and a latest of the messages passed, with all others
  between (`LoopInv`). Both stop at the same gap, and in order the earliest is the first.
* `StatisticsExact` (`StatisticsOfSamples`): the count, mean, squared deviations, minimum and
  maximum that are kept sample by sample are those of all samples at once, whatever
  the bursts were. Three steps lead there. What a fraction is worth: `Reduced` yields
  the one pair in lowest terms with a positive denominator, so two fractions of the same worth are
  equal, and `Plus`, `Times`, `Over` do to the pairs what addition, multiplication and division do
  to what they are worth. Sums: finitely many samples can be written with one
  denominator, and their sum and the sum of their squares are then those of integers; the
  update of `addSample` (one factor of the square from the old mean, one from the new) is an identity between
  these sums. Special values: an infinite sample makes the mean infinite if it is the
  last, otherwise no number, and never touches the smallest value. `StatInv` puts them
  together for one name, `StatisticsInv` for all. It rests on `SamplesAreDoubles`: the bytes of a burst, an
  `int` in the code, are at most `DBL_MAX`, for the minimum starts there.
* `MeanExplained` (`MeanLostExplained`): only version 1 loses a mean, and it does so exactly
  when the messages it counted in some burst share their microsecond. `StatisticsInv`
  keeps the samples of all other names finite, and those of the bandwidth as long as
  no such burst was seen.

**Version 1** (`BurstRecorderProofs`): `TypeCorrect`, `StoreCorrect`, `CrashExplained`,
`LinesTrue`, `ExcessOfTwo`, `ReportComplete`, `WildWriteNeedsJump`, all from one invariant. Its
parts are: what the client sends, and that all probes of one burst of one run announce the
same length (`SenderInv`); what the vectors and the heap are made of, and that a vector of
bursts never has one slot (`ServerTypes`); as long as no write has left an array, the
cached pointer is that of the cached burst number, no two bursts share an entry, and the
slots hold what arrived and nothing else (`FiledInv`); and every line printed so far is true of
its burst (`ReportInv`). After a write outside an array nothing is claimed but what the
explanations say; `WildWriteNeedsJump` says when that happens.

**Receiving** (`TimedReceiveProofs`, `TimestampSocketProofs`)

* `TypeCorrect`, `AlarmStaysInside`, `TimeoutIsNoError`, `NothingElseDropped`: where the alarm
  may be running, what `errno` and the length say of how the last `recvfrom` really ended, and the
  flag, at every system call, for datagrams of any length (`ReceiveInv`, with `LengthInv`
  for the widths). So a failure is never taken for a timeout or the other way round but for the empty
  datagram (`ThrowsExplained`), and no usable message is passed over (`DroppedExplained`).
* `SocketTyped`, `StampsInStep`, `OvertakenHolds`: the second by counting what is on its
  way to the error queue (`OwnInv`: nothing between two sends, one timestamp at most
  within); the third by counting answers (`OneAnswer`: as long as BEGIN was sent once
  there is at most one, and none once it was accepted).

**Map, constant bit rate tools** (`PartsProofs`)

* `MapTyped`; `SizeExact`, the length and the pops add up to the size after any sequence of
  calls.
* `MapImplementsStacks` (`ImplementsStacks`): the refinement of `KeyedStacks`. The stack of a
  key is read off the list by the n-th place of the key, the place with n - 1 others before it. The
  lemmas say that the places of a key can be listed so (`Listed`), that putting an element
  first moves every place by one (`PutFirst`), that removing one takes the top of its stack
  and leaves all others (`TakeTop`, `LeaveOthers`); then every call is one of the abstract ones.
* `RateTyped`; `RateExplained` (`RatePrintsExplained`) for numerals of any base with any number of
  digits: among the powers of the base there is exactly one that moves the first digit
  of the microseconds to the front (`UnpaddedShows`), and the line shows the true time if
  it was there already. `SenderInv` ties the count to what was handed over at every call.
* `PartsTyped`: the types side by side, as the run checks them. `PartsAreParts` carries each
  theorem above over to `PartsSpec`.

**Induction.** The library's induction theorems take a predicate as a parameter and cannot be
used. Where a statement is about all numbers it is proved by its least counterexample
instead: a set of naturals of which every member has a smaller one is empty (`NoDescent` in
`TestDataLemmas`, from well-foundedness). Recursion is therefore written as functions on
`Nat` (`SumOf`, `Power`), whose defining equations the library does give
(`NatInductiveDef`).

**Assumptions.** The constants are the numbers they stand for (`Nat`, some of them positive), bursts
have results a burst can have, `SamplesAreDoubles`, and in the theorems about a kind of
network that kind: `LossIsReal`, `RetriesWipeNothing` and `OnlyLateRejected` (order kept, nothing twice, no second start of the
server), `IndexNeedsStaleAck` (order kept), `RunIsSession` (one run, no second start), `FailureIsLosses` (answers in time and once).

Only model-checked are the liveness properties (`RunEnds`, `RunReports`, `CtrlCEndsLoop`),
which like `ENABLED` are out of the prover's reach, and the disagreements, which are
counterexamples. Every invariant and every refinement a passing run checks is also a theorem.

## 5. What is not modelled

* The wording and layout of the output and of the log, and the conversion of command line arguments (`atoi`,
  `atof`); the checks of the parameters that follow it are in `ProbeClient`.
* A clock that is set back: `Tick` only moves `gettimeofday` forward, whereas the real clock may
  step back in the middle of a burst. Every time difference is then what the clock says, and no
  property about times is claimed.
* The overflow of `burst_len * 2` in the client of version 1, after some thirty bursts that double
  (the C++ client's growth to and beyond the limits of `int` is modelled, in `Grow`).
* The rounding of floating point: `Time` is compared through `float` and statistics are
  kept in `double`; both are exact here. The square root in `stddev` is left out.
* The unfinished port (`hw2/bufferprobe/src`): its server is a copy of version 1's and its
  client uses members its classes do not have, so it builds no program to be faithful to.
* `udpsend.c`, a trial of the kernel's timestamps that sends ten fixed packets, is built by no
  Makefile; what it tries is in `TimestampSocket`. `machineType.c` prints the order of bytes.
  Scripts, traces, plots and container files hold no state.
* The limit of a payload: `sendto` refuses what is longer than a datagram can be, and
  the client accepts it. `num_bursts` is 16 bits wide in `TestData` and at most 10000.
* `TimestampSocket` reduces the server and the network to answers; with the order of
  probes and the loss it is the client of version 2, which `BufferProbe` covers.

The programs are taken as built with GCC and glibc on Linux (`signal()` restarts system
calls, an out of range conversion of a float yields `INT_MIN`).

## 6. Plan

1. The payload length and its limit in `BufferProbe`, with the proofs that depend on what
   a send may do.
2. The safety part of the liveness properties: a measure that every step of the client
   decreases between two waits, so that only the waiting itself rests on fairness.
3. Which steps of `BufferProbe` a session may take after a second start of the server: how
   much of `ImplementsSession` survives where the pointer is null and not wild.
