------------------------------- MODULE Launch -------------------------------
(***************************************************************************)
(* How the two programs start, and what the server needs of its timer and  *)
(* its random numbers at the start of every game: main.cpp, getopt_wrapper,*)
(* server_config and client_config, the constructors of the sockets, of    *)
(* the server and of the client, time_utils and rng.h.                     *)
(*                                                                         *)
(* A value of a parameter is a text that is no number, a number too big    *)
(* for 64 bits, or the number high * 2^32 + low; apart from that it may or *)
(* may not do as a player's name.  Nanoseconds are real; the widths of     *)
(* words and the generator's modulus and multiplier are constants, as the  *)
(* code's are beyond TLC's integers.                                       *)
(***************************************************************************)
EXTENDS Naturals, Sequences, FiniteSets

CONSTANTS
    CommandLines,           \* [program, options: a sequence of [name, value], positional]
    Readings,               \* what the monotonic clock's nanoseconds may be
    MaxAddresses,           \* bound: addresses a host name may have
    MaxGames,               \* bound: games the server starts
    DrawsPerGame,           \* 1 + 3 * players, or fewer where the game ends at once
    MaxUint32,              \* the largest uint32_t a parameter can be
    Modulus, Multiplier, WordSize   \* the generator's, WordSize what its uint32_t holds

NS_IN_SECOND == 1000000000

ASSUME ReadingsAssumption == \A now \in Readings : now \in Nat /\ now < NS_IN_SECOND
ASSUME BoundsAssumption == MaxAddresses \in Nat /\ MaxGames \in Nat
ASSUME WidthAssumption == MaxUint32 \in Nat /\ MaxUint32 > 65535
ASSUME GeneratorAssumption ==
    /\ Modulus \in Nat /\ WordSize \in Nat /\ Modulus <= WordSize
    /\ Multiplier \in 1 .. Modulus - 1
    /\ DrawsPerGame \subseteq Nat \ {0}

\* What may stand behind an option: a number by its halves, one beyond 64 bits, a text.
\* isName: it is a valid player name, at most 20 characters long and all of them printable.
\* Digits are printable: the number 6 is a name, and is none with 20 zeros before it.
Value ==
    [kind : {"number"}, high : Nat, low : 0 .. MaxUint32, isName : BOOLEAN]
    \cup [kind : {"huge", "text"}, isName : BOOLEAN]

ASSUME CommandLinesAssumption ==
    \A c \in CommandLines :
        c.program \in {"server", "client"} /\ c.options \in Seq([name : STRING, value : Value])

VARIABLES
    commandLine,
    config,         \* parameter name -> value, those not given by their defaults
    phase,          \* of the constructors; then "runs", or why the program ended
    fds,            \* socket -> its descriptor, NoFd before and between the attempts
    opened,         \* the descriptors socket has returned and nothing has closed
    untried,        \* addresses of the socket in construction not yet tried
    v,              \* the generator's state
    gameIds,        \* identifiers of the games so far
    reading         \* the clock's nanoseconds when the timer was set last

vars == <<commandLine, config, phase, fds, opened, untried, v, gameIds, reading>>

NoFd == 0

-----------------------------------------------------------------------------
(* Parameters *)

\* A parameter that takes numbers, and one that takes texts: names, or anything
Uint(default, bits, min, max) ==
    [test |-> "range", default |-> default, bits |-> bits, min |-> min, max |-> max]
Text(default, test) == [test |-> test, default |-> default, bits |-> 0, min |-> 0, max |-> 0]

\* The default of s is the time.
ServerParameters ==
    [p |-> Uint(2021, 16, 1, 65535),   s |-> Uint(1, 32, 1, MaxUint32),
     t |-> Uint(6, 8, 1, 90),          v |-> Uint(50, 16, 1, 250),
     w |-> Uint(640, 16, 16, 4096),    h |-> Uint(480, 16, 16, 4096)]

\* No name and "localhost", where nothing else is given; guiServer is not tested.
ClientParameters ==
    [p |-> Uint(2021, 16, 1024, 65535), r |-> Uint(20210, 16, 1024, 65535),
     n |-> Text([kind |-> "text", isName |-> TRUE], "name"),
     i |-> Text([kind |-> "text", isName |-> TRUE], "any")]

Parameters(program) == IF program = "server" THEN ServerParameters ELSE ClientParameters

\* static_cast<T>; nothing changes in 32 bits once high is gone.
Cast(value, bits) == IF bits = 32 THEN value.low ELSE value.low % 2 ^ bits

\* mutant: the number's range is tested after the cast alone
IsAccepted_CastOnly(value, parameter) ==
    \/ parameter.test = "any"
    \/ parameter.test = "name" /\ value.isName
    \/ /\ parameter.test = "range" /\ value.kind = "number"
       /\ Cast(value, parameter.bits) \in parameter.min .. parameter.max

\* mutant: the range is not tested
IsAccepted_AnyNumber(value, parameter) ==
    \/ parameter.test = "any"
    \/ parameter.test = "name" /\ value.isName
    \/ /\ parameter.test = "range" /\ value.kind = "number"
       /\ value.high = 0 /\ (parameter.bits < 32 => value.low < 2 ^ parameter.bits)

\* strToU64 and optionalParamValueToUint, isValidPlayerName, or nothing
IsAccepted(value, parameter) ==
    \/ parameter.test = "any"
    \/ parameter.test = "name" /\ value.isName
    \/ /\ parameter.test = "range" /\ value.kind = "number"
       /\ value.high = 0 /\ (parameter.bits < 32 => value.low < 2 ^ parameter.bits)
       /\ Cast(value, parameter.bits) \in parameter.min .. parameter.max

\* parseCmdParameters: insert_or_assign keeps the last value of every parameter.
Params(options) ==
    [name \in {options[i].name : i \in DOMAIN options} |->
        options[CHOOSE i \in DOMAIN options :
                    /\ options[i].name = name
                    /\ \A j \in DOMAIN options : options[j].name = name => j <= i].value]

PositionalParametersExpected(program) == IF program = "server" THEN 0 ELSE 1

\* ServerConfig, ClientConfig: a number is kept with the width of its type, a text as it is.
ConfigOf(program, params) ==
    [name \in DOMAIN Parameters(program) |->
        IF name \notin DOMAIN params THEN Parameters(program)[name].default
        ELSE IF Parameters(program)[name].test # "range" THEN params[name]
        ELSE Cast(params[name], Parameters(program)[name].bits)]

\* The generator is given the parameter s as a uint32_t.
Seed(values) == values.s % WordSize

\* The sockets a program makes, in the order of its constructor
FirstSocket == "udp"
AfterSocket(socket) ==
    IF socket = "udp" /\ commandLine.program = "client" THEN "tcp" ELSE "timer"

-----------------------------------------------------------------------------
(* Steps *)

Init ==
    /\ commandLine \in CommandLines
    /\ config = [x \in {} |-> NoFd]
    /\ phase = "start"
    /\ fds = [udp |-> NoFd, tcp |-> NoFd] /\ opened = {} /\ untried = 0
    /\ v = 0 /\ gameIds = <<>> /\ reading = 0

\* parseCmdParams of both mains: getopt, the constructor of the configuration
ParseCmdParams ==
    /\ phase = "start"
    /\ LET params == Params(commandLine.options)
           program == commandLine.program
       IN  IF /\ DOMAIN params \subseteq DOMAIN Parameters(program)
              /\ commandLine.positional = PositionalParametersExpected(program)
              /\ \A name \in DOMAIN params : IsAccepted(params[name], Parameters(program)[name])
           THEN /\ config' = ConfigOf(program, params)
                /\ phase' = FirstSocket
                /\ untried' \in 0 .. MaxAddresses
           ELSE phase' = "usage" /\ UNCHANGED <<config, untried>>
    /\ v' = IF phase' = "udp" /\ commandLine.program = "server" THEN Seed(config') ELSE v
    /\ UNCHANGED <<commandLine, fds, opened, gameIds, reading>>

\* No address is left, or getaddrinfo has failed: it never returns an empty list.
NoAddressLeft ==
    /\ phase \in {"udp", "tcp"} /\ untried = 0 /\ fds[phase] = NoFd
    /\ phase' = "noSocket"
    /\ UNCHANGED <<commandLine, config, fds, opened, untried, v, gameIds, reading>>

\* mutant: the socket of an address that cannot be used stays open
Close_Never(descriptors, fd) == descriptors

Close(descriptors, fd) == descriptors \ {fd}

\* socket gives a descriptor that is free, or fails.
NewFds == {NoFd, CHOOSE n \in 1 .. 4 : n \notin opened}

\* The attempt with one address fails, after socket gave fd or with it.
Fail(fd) ==
    /\ fds' = [fds EXCEPT ![phase] = NoFd]
    /\ opened' = IF fd = NoFd THEN opened ELSE Close(opened \cup {fd}, fd)
    /\ untried' = untried - 1
    /\ UNCHANGED phase

\* The attempt succeeds, and the next part of the program is constructed.
Keep(fd) ==
    /\ fd # NoFd
    /\ fds' = [fds EXCEPT ![phase] = fd]
    /\ opened' = opened \cup {fd}
    /\ phase' = AfterSocket(phase)
    /\ untried' \in IF phase' = "tcp" THEN 0 .. MaxAddresses ELSE {0}

\* One round of UdpSocket's loop: socket may fail, and the server's setsockopt or bind
\* may; the client's socket is neither set nor bound.
TryUdpAddress ==
    /\ phase = "udp" /\ untried > 0
    /\ \E fd \in NewFds :
         \/ (fd = NoFd \/ commandLine.program = "server") /\ Fail(fd)
         \/ Keep(fd)
    /\ UNCHANGED <<commandLine, config, v, gameIds, reading>>

\* One round of TcpSocket's loop: socket may fail, or connect, setsockopt or fcntl.
TryTcpAddress ==
    /\ phase = "tcp" /\ untried > 0
    /\ \E fd \in NewFds : Fail(fd) \/ Keep(fd)
    /\ UNCHANGED <<commandLine, config, v, gameIds, reading>>

-----------------------------------------------------------------------------
(* The timer and the generator *)

MsgToServerIntervalNs == 30000000

TurnIntervalNs == NS_IN_SECOND \div config.v

Interval == IF commandLine.program = "server" THEN TurnIntervalNs ELSE MsgToServerIntervalNs

\* mutant: no second is carried
FirstExpiry_NoCarry(now, intervalNsec) == now + intervalNsec

\* setIntervalTimer: the nanoseconds of the first expiry, "normalised" with > for >=
FirstExpiry(now, intervalNsec) ==
    IF now + intervalNsec > NS_IN_SECOND
    THEN now + intervalNsec - NS_IN_SECOND ELSE now + intervalNsec

\* timerfd_settime refuses nanoseconds of a second or more with EINVAL.
SettimeAccepts(expiry, intervalNsec) == expiry < NS_IN_SECOND /\ intervalNsec < NS_IN_SECOND

\* setIntervalTimer as a whole: the program goes on, or exits.
SetIntervalTimer ==
    \E now \in Readings :
        /\ reading' = now
        /\ phase' = IF SettimeAccepts(FirstExpiry(now, Interval), Interval)
                    THEN "runs" ELSE "timerRefused"

\* createTimer and setIntervalTimer of the constructors, which both may fail
CreateTimer ==
    /\ phase = "timer"
    /\ \/ phase' = "noTimer" /\ UNCHANGED reading
       \/ SetIntervalTimer
    /\ UNCHANGED <<commandLine, config, fds, opened, untried, v, gameIds>>

\* mutant: the product is taken in 32 bits
GenerateNext_Narrow(state) == ((state * Multiplier) % WordSize) % Modulus

\* RNG::generateNext: the state's successor; the state itself is returned.
GenerateNext(state) == (state * Multiplier) % Modulus

AfterDraws(state, draws) ==
    LET after[n \in 0 .. draws] == IF n = 0 THEN state ELSE GenerateNext(after[n - 1])
    IN  after[draws]

\* The modulus is prime, and no game draws as many numbers as it takes the powers of the
\* multiplier to come back to 1.  (4294967291 is prime, and the
\* powers of 279410273 come back after 2147483645.)
ASSUME PrimeAssumption ==
    /\ \A m, n \in 1 .. Modulus - 1 : (m * n) % Modulus # 0
    /\ \A draws \in DrawsPerGame : AfterDraws(1, draws) # 1

\* GameManager::startGame: the game's identifier, three numbers for every worm that is
\* placed, and, unless the game is already over, the timer is set anew.
StartGame ==
    /\ phase = "runs" /\ commandLine.program = "server"
    /\ Len(gameIds) < MaxGames
    /\ gameIds' = Append(gameIds, v)
    /\ \E draws \in DrawsPerGame : v' = AfterDraws(v, draws)
    /\ \/ UNCHANGED <<phase, reading>>
       \/ SetIntervalTimer
    /\ UNCHANGED <<commandLine, config, fds, opened, untried>>

Next ==
    \/ ParseCmdParams
    \/ TryUdpAddress
    \/ TryTcpAddress
    \/ NoAddressLeft
    \/ CreateTimer
    \/ StartGame

Spec == Init /\ [][Next]_vars

-----------------------------------------------------------------------------
(* Properties *)

\* The types; no value of the configuration is beyond the limits of its parameter.
TypeOK ==
    /\ \A name \in DOMAIN config :
          LET p == Parameters(commandLine.program)[name] IN
          p.test = "range" => config[name] \in p.min .. p.max
    /\ phase \in {"start", "usage", "udp", "tcp", "noSocket", "timer", "noTimer",
                  "timerRefused", "runs"}
    /\ fds \in [{"udp", "tcp"} -> 0 .. 4] /\ opened \subseteq 1 .. 4
    /\ untried \in 0 .. MaxAddresses
    /\ reading \in {0} \cup Readings /\ v < WordSize /\ Len(gameIds) <= MaxGames

\* What the program runs with is what its user wrote last: a number within the limits,
\* never one cut to the width of its type, a name or a host just as it was written, digits
\* or not.  And it ends over its parameters only if the last value of one is wrong, or the
\* parameters themselves are.
RunsAsTold ==
    LET program == commandLine.program
        options == commandLine.options
        Last(i) == \A j \in DOMAIN options : j > i => options[j].name # options[i].name
        Right(i) == /\ options[i].name \in DOMAIN Parameters(program)
                    /\ LET p == Parameters(program)[options[i].name]
                           value == options[i].value
                       IN  /\ p.test = "name" => value.isName
                           /\ p.test = "range" => /\ value.kind = "number" /\ value.high = 0
                                                  /\ value.low \in p.min .. p.max
        Runs(i) == config[options[i].name] =
                       IF Parameters(program)[options[i].name].test = "range"
                       THEN options[i].value.low ELSE options[i].value
    IN  /\ phase \notin {"start", "usage"} =>
               \A i \in DOMAIN options : Last(i) => Right(i) /\ Runs(i)
        /\ phase = "usage" =>
               \/ commandLine.positional # PositionalParametersExpected(program)
               \/ \E i \in DOMAIN options : Last(i) /\ ~Right(i)

\* Whatever fails while a socket is made, no descriptor is left open that no socket
\* holds, and a program that runs holds an open descriptor for every socket it uses.
NoDescriptorIsLost ==
    /\ opened = {fds[socket] : socket \in DOMAIN fds} \ {NoFd}
    /\ phase = "runs" =>
           /\ fds.udp # NoFd
           /\ commandLine.program = "client" => fds.tcp # NoFd /\ fds.tcp # fds.udp

\* The timer is refused, and a server that should run for ever ends, at no other moment
\* than when the interval ends on a whole second: never for one turn a second, which the
\* limits allow, and at the start of a game when the clock has just such a reading.
RefusedOnWholeSecond ==
    phase = "timerRefused" =>
        (reading + Interval) % NS_IN_SECOND = 0 \/ Interval = NS_IN_SECOND

\* Games that follow each other have different identifiers, by which clients and queues
\* tell them apart - unless the seed is a multiple of the modulus.
GamesAreToldApart ==
    \A i \in 1 .. Len(gameIds) - 1 :
        gameIds[i] = gameIds[i + 1] => Seed(config) % Modulus = 0
=============================================================================
