# fira-client in TLA+

A specification of `ssl-Client`, the client that follows a FIRASim simulation: it receives
`Environment` messages from a multicast group, steers the first blue robot towards an objective
and sends wheel speeds back over UDP. The modules are checked with TLC on small instances; the
theorems are checked by TLAPS for every value of the constants.

## The system

| part | source | state | operations |
|---|---|---|---|
| steering law | `main.cpp` 54-133 | `static double lastError` | `to180range`, `smallestAngleDiff`, `PID` |
| main loop | `main.cpp` 148-229 | `packet`, frame copy, loop index | receive, test for a frame, walk over the blue robots, `defineObjective`, `PID` |
| `RoboCupSSLClient` | `net/robocup_ssl_client.*` | member `mc`, address, port, buffer | `open`, `close`, `receive` |
| `Net::UDP` | `net/netraw.*` | `fd`, four counters; behind it a kernel socket | `open`, `addMulticast`, `close`, `send`, `recv`, `wait` |
| `Net::Address` | `net/netraw.*` | a `sockaddr` | `setHost`, `setAny`, `copy` |
| `GrSim_Client` | `net/grSim_client.*` | a socket, a fixed destination | `sendCommand` |
| messages | `net/pb/common.pb.*` (generated) | fields and ownership of sub-messages | `Clear`, merge, copy, swap |
| helpers | `util/util.h`, `util/timer.h` | arrays with a size, timer stamps | numeric, angle and array helpers, timers |
| echo test | `netraw.cpp` 218-300 | one `Net::UDP` each | `EchoServer`, `EchoClient` |
| protobuf runtime | `net/google` (vendored) | of its coded stream: a buffer, four sizes, two limits | read, skip, push and pop limits, back up |

`main` owns one `RoboCupSSLClient` and one `GrSim_Client`. They share nothing but the
descriptor table of the process. The program is a single thread that polls; what is concurrent
is the rest: the simulator steps on, the network loses, duplicates and reorders datagrams, the
kernel queue fills up and drops, other senders use the group and are answered like the simulator. What is hard to test:

- state that survives a call: `lastError` is static, `packet` is reused for every datagram, the
  counters survive `UDP::open`, descriptor numbers are reused by the kernel;
- calls that fail one by one inside `open()`, some tested and some ignored;
- angles at the wrap and at the reversal angle, and the loop closed through the simulator;
- messages out of order, twice, late, or from somebody else;
- messages whose frames are owned through raw pointers, whose sizes are cached, and which are
  parsed within nested limits that the data itself announces;
- arrays whose length lives in a variable of the caller, clocks that are set and counters that wrap.

What makes each part correct:

- *steering law*: the nearer front leads; the error is a true angle, small across the wrap; the
  wheels are bounded, turn the robot towards the objective and push the way the front faces;
- *closed loop*: the front is kept and the robot settles on the objective although frames and
  commands are lost;
- *main loop*: a command answers exactly one frame that was sent, unmixed with others, and turns
  its first robot the right way whichever robot was first before; every queued frame is answered;
- *Net::UDP*: no descriptor leaks, is shared, or is closed under somebody else; what is received
  is what arrived since the last open, once and in order;
- *RoboCupSSLClient*: `open()` answers true only for a bound member of the group;
- *messages*: an object is a value, every frame has one owner, what is written reads back;
- *coded stream*: one position within the nearest limit, however the input is cut up;
- *helpers*: pointer, length and block belong together; a timer tells what passed.

## Modules

| module | models | uses |
|---|---|---|
| `CMath` | `fmod`, `%`, `/` and `rint` of C on integers | |
| `MotorLaw` | the angle helpers, the choice of the front, PD output, saturation, wheel mix: pure operators | `CMath` |
| `MotorControl` | `PID()` as a state machine: `lastError` survives, robot and objective arbitrary | `MotorLaw` |
| `HeadingLoop` | `PID()` closed through the robot's own turning, with lost frames and commands | `MotorControl` |
| `DatagramPort` | abstract: what a socket object promises, a FIFO inbox renewed by open and close | |
| `UdpSocket` | `Net::UDP` objects over the kernel's descriptor table, next to foreign descriptors | |
| `UdpPort` | the refinement of `DatagramPort` by one object of `UdpSocket` | `UdpSocket`, `DatagramPort` |
| `VisionClient` | `RoboCupSSLClient`: `open()` call by call, `close()`, `receive()` | `UdpSocket` |
| `FrameFollower` | abstract: a command is the answer of PID to one frame that was sent | `MotorLaw` |
| `ControlLoop` | senders, network, kernel queue, packet object, loop, PID, command | `MotorLaw`, `FrameFollower` |
| `EchoTest` | `EchoClient` and `EchoServer` of the test program, with timeout and losses | |
| `HelperCalls` | a caller of the pure helpers: three numbers, one call after the other | |
| `AngleUtil`, `NumericUtil`, `BitUtil` | the angle helpers, the numeric ones and the bit tests of `util.h`: pure operators, and what is expected of every call | `CMath`, `HelperCalls` |
| `ArrayUtil` | the array helpers of `util.h` over a heap of blocks | |
| `Timers` | the timers of `timer.h` over a clock that is set and a counter that wraps, of which the compiler reads one word | |
| `MessageValue` | abstract: a generated message is a value | |
| `EnvironmentMessage` | the generated `Environment`, its frame on the heap, the wire | `MessageValue` |
| `LimitedStream` | abstract: a position in the input, a stack of limits, a total limit | |
| `CodedInput` | `CodedInputStream`: buffer, limits, chunks, overflow | `LimitedStream` |
| `SteeringProofs` | theorems about `MotorLaw`, `MotorControl` and `HeadingLoop` | `HeadingLoop` |
| `UdpPortProofs` | theorems about `UdpSocket` and the refinement in `UdpPort` | `UdpPort` |
| `VisionClientProofs`, `ControlLoopProofs` | theorems about the module each is named after | the two above, by `INSTANCE` |
| `EchoTestProofs`, `CodedInputProofs`, `EnvironmentMessageProofs` | theorems about the module each is named after | |
| `UtilProofs` | theorems about the helpers and the timers; induction, remainders and divisors | `AngleUtil`, `NumericUtil`, `ArrayUtil`, `Timers` |

`MC_*` modules hold the values of constants that a `.cfg` cannot express. `MC_Util` and `MC_Messages`
put independent components side by side: the initial state chooses one and the others stand
still, so that the state spaces add up.

### Correspondence with the code

*Angles* are integers in units of pi/H, so H is half a turn; `Fmod` has the sign of the dividend
as C's `fmod` has. *Speeds* are in units of `Kd*pi/H`, which makes `Kp = 20`, `Kd = 2.5` the
integers 8 and 1. Rounding of doubles is abstracted; the comparison with `pi/2 + pi/20` becomes
`20*|error| > 11*H`, which is exact. `BaseSpeed` (30 in the code, 12*H/pi in these units) is a
parameter no property depends on.

*MotorControl*: one action, `Control(orientation, bearing)`, is one call of `PID` with the
`to180range` that `main` applies before it. `pose` is a history variable.

*HeadingLoop*: the state of `MotorControl` joined by the robot's heading. `HandleFrame` is one handled
frame whose command arrives: `Control` of the heading. `LoseCommand` is one whose command does not,
because `sendto` fails or its datagram is lost: `PID` has kept the error all the same. `Move` is a
simulation step in which a robot with unequal wheels turns by 1 to `MaxTurn` units. `MaxGap` bounds the
steps between two commands that arrive.

*UdpSocket*: `table` maps descriptors to open descriptions with an owner. `OpenNoSocket`,
`OpenNoTtl` and `OpenSocket` are the three ways through `UDP::open` (`socket()` fails, the TTL
cannot be set, the end is reached with bind good or bad); the two `setsockopt` calls whose
failure is only printed have no effect on what is modelled. A datagram is its length. The kernel may hand out
any unused number, which includes the lowest. It binds a socket without a port when it first sends
(`PortGiven`); a `sendto` may fail after that. A failing `recv` or `addMulticast` changes nothing and
is a stuttering step.

*VisionClient*: `pc` is the place inside `open()`: `BeginOpen` closes, `OpenAccepted` or
`OpenRefused` is `mc.open`, `Join` or `JoinRefused` is `addMulticast` with the addresses resolved
or not. `Net!Environment` (arrivals, other descriptors) interleaves everywhere.

*ControlLoop*: a message is its place in the order of sending; `emitted` holds the frames. The code asks
for no source address, so `SendMessage` is the simulator or anybody else who sends a well-formed message
to the group, and it is answered. `Deliver` may skip a message (lost, or the queue was full) and,
unless `Ordered`, repeat or reorder. `DeliverJunk` is a datagram
that fails to parse and leaves any frame in the packet. `ReceiveMessage` is `receive()` returning
true with the test `has_frame()` and the copy of the frame; `HandleRobot` is one round of the loop,
`PID` included; `EndFrame` leaves it. A poll that finds nothing changes nothing. Only blue robots
are represented: of the yellow ones the code reads the number and does not use it. The bearing of
the objective is part of the robot's data, since `defineObjective` is a stub.

*EchoTest*: the client's loop is `SendLine` (`fgets` and `send`), `Wait` (the result of `wait(1000)`
is ignored, so it ends alike with a datagram and without) and `Recv` (with the printing);
`EndOfInput` leaves it. The server takes a message with its sender's address in `Serve` and sends it
back in `Answer`; what comes in between is its delay. The write to `msg[-1]` hits the top byte
of a small unsigned number, zero already, and is not represented.

*AngleUtil*, *NumericUtil*, *BitUtil*: one operator per function, on integers. The state of
`HelperCalls` is one triple of arguments; the properties speak of the calls with them. A word is the
number it stands for, taken modulo 2 to the power of `Width`, which is two's complement for negative ones; `And` is C's
`&`, place by place, over as many places.

*ArrayUtil*: `list` is the caller's `arr` and `size`, `grid` his `arr`, `w` and `h`; each helper is an
action on both and on the heap. `thrown` names the helper that `bad_alloc` left, and `Catch` is a
caller that goes on. Arguments keep within what the helpers take for granted: indexes inside the
block, `cur_used` no more than either length. A call that fits what is there changes nothing and
is a stuttering step. `mset` is `set_range` from 0.

*Timers*: `Pass` is time going on, `SetTimeOfDay` the clock being set back or on; the values of a timer
before its first `start()` are indeterminate, as in the code. `Timer` is an `AccumulativeTimer` without
a total, `CycleTimer` a `StageCycleTimer<1>` without a guard. `truth` is a history variable. `register`
is the compiler's choice, in each function that reads the counter, of where to look for it.

*EnvironmentMessage*: `env` holds `step_` and `frame_` of each object, `heap` the Frames with the robots
and `_cached_size_`, `caller` the pointers outside of any message. `Refill` is what `Clear` followed by a
parse or a merge leaves; the `Clear` in between is not seen by anyone. `Renew` is an object that goes out
of scope and another constructed in its place; `SerializeRefused` is too little room for the bytes. A size is a number of
robots. `Datagrams` are messages of other programs, written out in `MC_Messages`: a frame in two
parts with an unknown field between, one cut within the frame, one cut before it. `Contents` is what
each of them holds, and `ContentsAssumption` says that of the constants: a whole datagram reads to its
contents, a cut one to a part of them. The generated
code in the tree is of the protobuf 3.0.0 API.

*CodedInput*: pointers are offsets in the input, so `buffer = CurrentPosition` says that the bytes
are the right ones. `flat` tells the two constructors apart; the program's `ParseFromArray` uses the
array form. `Refresh` and `RefreshFails` (`StoppedByLimit`, `StoppedByEnd`) are the outcomes of `Refresh()`. Calls
that may go through several chunks (`ReadRaw`, `ReadString`, varints, tags) are `Begin...`, `ReadPart` for
each buffer used up, `ReadRest`; `Skip` is split by the branches of `Skip` and `SkipFallback`. The value
read is its number of bytes. `PushLimit` leaves the old limit in `saved`, where the caller's frames keep
it. After a failing call the parsers give the stream up, so `"failed"` allows only the destructor. A skip
that meets the end of the input sets the count to the input's own (`ByteCount`), which began before the
stream if the input was read before: `Origins` are the places it may have begun at.
The bound on recursion and the aliasing of buffers are left out.

## Runs

| run | shows | bounds |
|---|---|---|
| `motor_control` | `PID` keeps its memory bounded, leads with the nearer front, steers the right way, for any sequence of calls | H = 20 (9 degrees), every bearing, nine orientations either side of zero, the reversal angle, half a turn and a turn |
| `heading_loop` | the front is kept; from the second command on every turn brings the robot nearer until it is within 9/8 of `MaxGap*MaxTurn` of the objective, where it stays; it gets there (liveness) | H = 24 (7.5 degrees), every heading and remembered error, two bearings, up to three units per step, three steps per command that arrives, any frames and commands lost in between |
| `udp_port` | descriptors are accounted for, foreign ones untouched, each object is an inbox (refinement) | two objects, three descriptors, queue of two, lengths 0 and 1; the counters collapsed by `CounterMod = 1` |
| `vision_client` | a true `open()` is a live member of the group; counters start anew | one client, three descriptors, queue of two, counters modulo 4, three datagrams per opening |
| `vision_bind` | *violated*: `open()` answers true unbound | the same |
| `control_loop` | commands answer frames that were sent, in order, and turn the first robot the right way (safety and refinement) | four messages, four frames with up to two robots, a different one first from frame to frame, queue of two, ordered network |
| `control_loop_unordered` | duplicates and reordering never mix frames; every queued frame with a blue robot is answered (liveness) | three messages, two frames, unordered network |
| `echo_test` | answers are the client's own and in order; a timeout shifts all later answers; every client ends (liveness) | two clients, four lines each, queues of two |
| `echo_reply` | *violated*: the client prints its own line as a reply | two lines each |
| `util` | the angle and numeric helpers against reference definitions and their comments; array helpers in any order; timers | H = 4, all triples of -12 .. 12 (three half turns either way), bit tests on 4 bits; three blocks of up to three cells; four units of time, a clock set by two; words of 4 with 8 cycles and three stages, so that the counter wraps twice, either word read by either function |
| `messages` | objects are values with one owner per frame; the stream is a position within limits (two refinements) | two objects, two frames of up to two robots; inputs of 0, 2, 4 and 6 bytes that begin at 0 or 3, with INT_MAX = 4, two nested limits, every count and limit of an int from -1 on |
| `team_color` | *violated*: the colour chosen in `main` has no effect | yellow chosen |

The bounds are enough because what can go wrong is local: two calls of `PID` (the remembered error
and the next), two owners of one number with a third number to move to, two messages in a queue
around a third, a frame with a robot beyond index 0 and one with another robot first, a limit inside another, two objects that could
share a frame, a third block to move to. Angles are checked at a resolution at which
the reversal angle (11 of 20 units) and half a turn are met exactly and from both sides in `motor_control`; the theorems
remove the bound. `heading_loop` needs nine units between two commands: with fewer the robot never comes on so
fast that the derivative term turns it away from the objective, and a run without that case shows too much.

**Fairness.** `ControlLoop` assumes weak fairness of the client's steps alone: `while(true)` polls
a non-blocking socket in one thread, so a step that can be taken is taken. Nothing is assumed of
senders or network. `HeadingLoop` assumes that the simulator goes on stepping and, of `HandleFrame`, that
again and again a frame is handled whose command arrives, as the simulator sends a frame every step:
without it a robot simply stands still, or drives on with its last command for ever. The code does not
bring it about by itself: a command socket that fails for good is outside of `SettlesOnObjective`.

`EchoTest` assumes weak fairness of each client: input is there or at its end, `wait` returns after a
second, `recv` does not block. Server and network may stop.

**Deadlock** is checked in every run but three: the clients of the two `EchoTest` runs end with their
input, and in `messages` a stream that was destroyed has nothing left to do.

## Findings

1. `UDP::open` ignores the result of `bind` (`netraw.cpp:128`): `RoboCupSSLClient::open` answers true
   for a socket that will never receive (`vision_bind`).
2. The colour defined at `main.cpp:152` is not used: `PID` passes a literal `false` (`team_color`).
3. `EchoClient` ignores a timeout and the -1 of `recv` (`netraw.cpp:273`): what it prints as "reply" is
   then its own line (`echo_reply`).

Noted on the way, without a run of its own:

- The repository's README asks for "an objective to each robot" (`src/README.md:59`); `main` handles
  index 0 only (`main.cpp:196`).
- `main` ignores what `open()` returned (`main.cpp:156`), and never sends a stop: without frames the
  robot drives on with its last command.
- After `alloc_array` or `alloc_array2` threw, the caller's pointer is dangling (`BlocksAccounted` says so);
  `resize_array` is safe. `alloc_array2` keeps the old sides when only the shape changed.
- The command carries the index in `robots_blue`, always 0, and `robot_id` is only printed (`main.cpp:196-198`):
  for a list that is not by id the command goes to another robot. What number the receiver expects
  is written nowhere in the repository, so no property is stated. `lastError` then passes from robot to robot;
  `TurnsTheRobotItAnswers` says what remains true.
- The loop does not look at `step`: on a network that reorders it answers older frames after newer ones.
- `get_cycle` of x86_64 (`timer.h:130`) has the constraint `"=A"` on a 32 bit operand, for which the compiler
  may take the high word in `edx`; `StagesAreRight` is stated for programs that read the low one.
- A second `stop()` of an `AccumulativeTimer` without a `start()` counts its time twice (`timer.h:87`).
- `GetDirectBufferPointer` may answer true with an empty buffer, at the total limit for instance, where
  `coded_stream.h` promises a non-empty one. `ExpectAtEnd` calls the total limit a legitimate end of a
  message, which `ReadTag` does not; `LimitedStream` has both. The comment at `coded_stream.cc:598`
  that the total limit is less than INT_MAX is stale, its default is INT_MAX.

Two helpers nobody calls do less than their comments say, and `MC_Util` states what they do:
`angle_pos` is within [0,2*PI] only from minus one turn on (`util.h:375`), and `lcm` (`util.h:276`) is the
least common multiple only of arguments without common divisor.

## Proofs

The proofs hold for every value of the constants that meets the named assumptions. Every property
that the runs check is proved but for liveness; the bounds of the runs matter only for that.

| theorem | module | says |
|---|---|---|
| `TypeCorrect`, `BoundedError`, `LedByNearer`, `Steers`, `DrivesWithFront` | `SteeringProofs` | the five properties of `MotorControl` |
| `FrontKept`, `Homes` | `SteeringProofs` | `FrontIsKept` and `HomesIn` of `HeadingLoop`, if `18*Band < 7*H` |
| `TypeCorrect`, `Accounted`, `ForeignSafe` | `UdpPortProofs` | the three safety properties of `UdpSocket` |
| `Implements` | `UdpPortProofs` | `Spec => ImplementsPort` |
| `ClientUsesSocket`, `SocketInvariants`, `ClientTypeCorrect`, `Member`, `StatsAreOfThisSocket` | `VisionClientProofs` | the client is a user of `UdpSocket`; the three safety properties of `VisionClient` |
| `EchoTypes`, `Chains`, `OwnAnswers`, `LateAnswers` | `EchoTestProofs` | the four safety properties of `EchoTest` |
| `Buffer`, `NeverAsks`, `Implements` | `CodedInputProofs` | the two safety properties and the refinement of `CodedInput` |
| `HeapIsTheCallers`, `ResizingIsSafe`, `CopyingWithinOneBlock` | `UtilProofs` | the invariant and the two action properties of `ArrayUtil` |
| `TimersTellTheTime`, `StagesTellTheCycles` | `UtilProofs` | the two invariants of `Timers` |
| `AnglesAreRight` | `UtilProofs` | the properties of the angle helpers, for all integers |
| `NumbersAreAlwaysRight` | `UtilProofs` | the properties of the numeric helpers, for all integers, and of the bit tests, for words of any width |
| `FramesHaveOneOwner`, `MessagesAreValues` | `EnvironmentMessageProofs` | the invariant and the refinement of `EnvironmentMessage` |
| `TypeCorrect`, `DetectionSent`, `TurnsFirstRobot`, `StepsForward`, `Implements` | `ControlLoopProofs` | the four safety properties and the refinement of `ControlLoop` |

**Steering law** (`MotorAssumption`: `H` and `BaseSpeed` are positive). Nothing is assumed of the
orientations but that they are integers. `RemainderBounds`, `RemainderOfOneTurn` and `NormalisedRange`
reduce C's `fmod` to adding or taking away one turn; `AngleDifference` and `OppositeDirection` give
the difference of two angles and the opposite of one as a short list of cases; `ErrorBound` concludes
that the error seen from the leading front is at most 11/20 of half a turn. `PIDStep` states
everything the rest needs of one call: the wheels are bounded, one is at base speed, they push the
way the front faces and turn the robot by the sign of `9*error - lastError`. `TypeOK` is inductive by
itself; `LastErrorFacesObjective` follows with it. The properties that
speak of directions modulo a turn use `MultiplesNearZero`: the few multiples of a turn that
differences of two angles can reach.

**Sockets** (`UdpAssumption`: the numbers are naturals, so -1 is none of them; `Foreign` is no object;
the mark of a free slot is no description; ports are not 0). The inductive invariant is `TypeOK`
with `DescriptorsAccounted`, which is a bijection between open objects and the slots they own.
The bijection is what makes `if(fd >= 0) ::close(fd)` safe: `ReleasedKeepsOthers` shows from it that a
close frees this object's slot and no other, and `AccountedAfterRelease` and `AccountedAfterOpen`
restore it. `ForeignSafe` adds that foreign descriptors are bound to no port (`ForeignUnbound`), so
that no datagram of the ports modelled reaches them. The refinement splits a step in those of the
owner (`OwnCall`), of other objects (`OtherCall`), arrivals (`Arrival`) and foreign ones; `Unseen`
reduces each stutter to the owner's number, slot and last datagram being left alone.

**Main loop** (`ControlLoopAssumption`: frames are sequences of robots, and the absence of a frame
is not one of them). `DetectionIsWhatWasSent` is inductive with `TypeOK`. `AnswersNeverGoBack` needs more:
`InOrder`, that the messages waiting in the queue rise, are above the one in hand and the one
answered last, and none is beyond what was delivered. It is proved from `Ordered`, and the theorem
takes that hypothesis. The refinement uses it only where the abstract follower promises order, so
`Implements` holds on any network. `TurnsFirstRobot` takes nothing for granted of which robot a frame lists
first: with what is remembered of any robot within 99 degrees, the derivative term is outweighed as soon as the error
is more than a ninth of that (`CommandTurns`, cited from `SteeringProofs` through an instance), so the invariant
is that `lastError` is so bounded and the command in force answers the frame in `acted`.

**Vision client** (`VisionAssumption`, `NetAssumption`). `StepIsSocketStep` shows that each step of the client
or its surroundings is a step of `UdpSocket` with one object or leaves it alone; `ClientUsesSocket`
makes a behaviour of it, so that `TypeOK` and `DescriptorsAccounted` need no second proof: the
theorems of `UdpPortProofs` are cited through an instance. `MemberWhileOpened` is inductive with them:
no step of the environment takes a membership away (`EnvironmentKeepsMembers`), because a foreign
close frees only foreign descriptors. `StatsOfThisSocket` needs that adding modulo the counter's width
commutes with adding (`WrappedSum`, from `Division` and `OneRemainder`).

**Echo test** (`EchoAssumption`). The invariant is `ChainIsOrderly`: the messages of a client, answered, on
the way back, in the server and on the way there, put end to end are a rising sequence of its
own lines, none further behind its place than lines were lost. Seen so, delivering, serving,
answering and receiving leave the chain as it is (`ConcatRecv`, `ConcatServe`, `ConcatAnswer`), sending
appends to it (`OrderlyAppend`), a loss on the way there passes a line over (`OrderlySkip`) and one on
the way back cuts it out of the chain (`OrderlyCut`). The answers are its front, from which `OwnAnswers` and `LateAnswers` follow.

**Coded stream** (`StreamAssumption`: INT_MAX is positive, lengths are naturals). The inductive invariant
`IInv` joins the types with: `Limited`, that the position is within the nearer limit and
`buffer_size_after_limit` is exactly what was counted beyond it; `Nested`, that saved limits are at
least the current one; `Array`, the shape of the flat form; `Counted`, that position, buffer and what
the input has given agree, with the overflow kept apart; and `Calls`, what is known in the middle of
a call, after an error and before the constructor. `Refreshed`, `RefreshFailed`, `Advanced` and `Enforced` state what
the four building blocks do, once; each action then has one lemma that it keeps `IInv` (`...Keeps`) and
one that it maps to a step of `LimitedStream` or a stutter (`...Maps`). `Within` turns the limits of the buffer
into the `Bound` of the abstract stream. The strengthening is needed because an action sees only the
sizes: without `Nested`, `PopLimit` could lower a limit below the position, and without `Limited` the
end given back by `RecomputeBufferLimits` would not be the end of the chunk. A skip that meets the end of the
input leaves this invariant, since it counts from the start of the input and not of the stream: it ends in `Strayed`, where
there is nothing left to give back and only the destructor follows (`StrayedStep`, `StrayedMaps`). `IInv \/ Strayed` is what
is inductive, and the properties follow from either half.

**Closed loop** (`HeadingLoopAssumption`, and the hypothesis `18*Band < 7*H`, where `Band` is
the most the robot turns between two commands that arrive). The hypothesis is what the code takes for granted:
a robot that turns by 70 degrees or more between two of them can turn past the objective and
over the reversal angle. `LoopInv` says that the error of the front in command is one `PID` keeps that
front for (`KeepsFront`, which `ReversedWhenKept` shows to be the choice `PID` makes), and bounds the error on
the side the robot turns to: the derivative term can turn the robot away from its objective, but only while the error is
at most a ninth of the remembered one, 11 degrees, and then by no more than `Band` until the next command.
`ErrorTurns` carries the error through the wrap. It also says that the error is within `gap*MaxTurn` of the
remembered one and on the side the command turns to.

`Homes` rests on that. From the second command on the remembered error and the present one are at most `Band` apart, so
a command that turns the robot away answers an error e with `9*e` between the remembered error and zero, hence with
`8*|e| <= Band`. That is `Homing`: the command turns the robot towards its objective, or what it can still turn on
it leaves it within 9/8 of `Band`. Every command that arrives at a driving robot restores it (`FrameHomes`), a turn
keeps it and brings the robot nearer (`TurnHomes`), and a lost command changes only
what `PID` remembers: the error of the front that is in command, by `ReversedWhenKept` (`LostStep`). The eighth is real: settling within `Band` itself is false, TLC shows a robot that comes on
fast, is turned away once and passes the band. `Homing` is needed because the first command after a change of
objective is taken against the error of another situation, and may turn the robot away from any error up to 11 degrees.

**Helpers** (`ArrayAssumption`, `TimersAssumption`, `AngleAssumption`, `ArgumentsAssumption`). The library's
induction theorems take a predicate and cannot be instantiated; `Induction` states induction over a
set of naturals and follows from the theorem that `<` is well founded, which takes a set. With it `CopiedCells` follows
the loop of `mcopy` for any length: after i rounds the first i cells have what `CopyGoesUpwards`
says, the rest of the block what it had. `ArrayInv` adds to `BlocksAccounted` that the blocks are functions and that only
the helper that threw left a pointer dangling. The timers' invariants tell `tv1` from the time
of day at the last start and the total from the busy time; `WordOfTheCounter` reads the low word where the compiler took it, and `WordsApart` shows that two words of the
counter taken less than a word apart differ by what passed. `RemainderIs` and `ShiftedRemainder`
are uniqueness of the remainder, from which `Direction` and `NoPartOfATurn` follow: two angles of one direction differ by
whole turns, and a part of a turn that is a whole number of turns is none. `gcd`, which `util.h:263` calls untested, is a recursive
function: that its loop ends is that a function obeying its equation exists. `RoundShrinks` shows that a round
makes the second number smaller whatever the signs, `EuclidEnds` builds the function on the pairs whose second number
is at most n by induction over n, `EuclidAgrees` that two such functions agree, and `GcdIsEuclid` puts them
together for all pairs. `GcdGreatest` then follows by the same induction: a round keeps the common divisors
(`GreatestKept`). The result divides both numbers and every common divisor divides it, for negative numbers
as well. Of `gcd`'s kind, but simpler, are the powers of two and `And`, functions on
numbers that refer to the number before: `Recursion` gives their equations. `Weighs(w, D)` says that
`w[k]` is the sum of the weights of the places in D below k; `WeightExists` gives such a w for any D, `WeightTells` that
the sum determines the places, and `LowBitsWeigh` that the sum over the bits of n is n modulo `TwoTo[k]`. So `And` has the places both have (`BitsAre`), and equality of words is equality of sets
of bits (`AllBitsAlways`, `AnyBitsAlways`). `NegatedBits` is two's complement: -n has the complement of the places of n above its lowest one,
and agrees with n from there down, so that `(-n) & n` is that one place (`OneBitAlways`).
The loops of the searches (`MaxLoop`, `MinLoop`, `FindLoop`) are unrolled for arrays of up to three numbers,
as the property speaks of those.

**Messages** (`MessageAssumption`: the marks are not values; `ContentsAssumption`: what the constants mean).
The invariant `Ownership` counts nothing: what an object or the caller owns is in use, no two own the same, and what
is in use is owned. `FramesOwnedOnce` follows with the cardinality of a singleton. One lemma per
method shows that it keeps the invariant (`...Step`) and one that it maps to the method of
`MessageValue` of its name (`...Maps`); `Untouched` says once what all of them leave alone, and
`UntouchedOthers` concludes it from ownership: writing into the frame of one object reaches no
other value because no frame has two owners. `Serialization` and `ReadsBack` show that what is written is the value and reads back,
with default values left out; the loop of `MergePartialFromCodedStream` is unrolled for the two fields
written (`ReadNone`, `ReadOne`, `ReadTwo`). The wire is related to a value by the invariant, since an object may be parsed
from what another one wrote long before.

## Only model-checked

Liveness (`SettlesOnObjective`, `FrameAnswered`, `ClientsEnd`) rests on fairness and ENABLED, which the
prover does not reason about. The safety half of the first is proved: `Homes` says that a turn
brings the robot nearer or leaves it on its objective, and what fairness adds is that turns and frames go on.

Everything else that a run checks is proved: every type invariant, every safety invariant, every
action property and each of the five refinements.

## Not modelled

- *The rest of the vendored protobuf tree* (`net/google`, nearly all of the repository's lines: compiler,
  descriptors, reflection, text format, their tests). It is third-party code that `compile.sh` does not
  compile: the program links the installed `-lprotobuf`, and the generated `common.pb.cc` is of an older
  API than the tree. `CodedInput` is modelled because every datagram passes through a stream of that
  kind. That is why the share of the tree's lines that the models cover stays small whatever is
  added about this program.
- *The other generated messages* (`Ball`, `Robot`, `Field`, `Frame`, `Command`, `Commands`, `Packet`): the same
  generated shape as `Environment`, with other fields. Arenas, reflection and metadata.
- *Net::Address*: a value around a `sockaddr`; name resolution and byte layout are the system's. What a
  failed `setHost` leads to is in `VisionClient`.
- *GrSim_Client beyond the command it sends*: a failing `sendto` is `LoseCommand` of `HeadingLoop`, but only
  as long as others succeed; after a failing `socket()` no command is ever sent, which is not modelled.
- `ramp` of `util.h`, whose results are fractions; comparisons and powers of one line; printing; the
  conversion of positions to centimetres and the ball, on which nothing depends.

Still worth doing: the queue of `ControlLoop` taken from `DatagramPort`; the other datagrams a sender
may write (fields out of order, a frame in three parts), of which `EnvironmentMessage` has a choice.
