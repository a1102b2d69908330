---------------------------- MODULE LaunchProofs ----------------------------
(***************************************************************************)
(* The invariants of Launch for all command lines, clock readings,         *)
(* numbers of addresses and generators.  None is inductive alone: which    *)
(* sockets are open depends on how far the constructors are (SocketsInv),  *)
(* the interval is within a second because the configuration is within     *)
(* its limits (ConfigInv), and parameters are of the types a command line  *)
(* has.                                                                    *)
(*                                                                         *)
(* That games are told apart is about two draws in a row.  The generator   *)
(* multiplies modulo a prime: two equal numbers in a row would make        *)
(* (multiplier - 1) * x a multiple of the modulus, which it is for no x    *)
(* that is no multiple itself (GeneratorInv).                              *)
(***************************************************************************)
EXTENDS Launch, Integers, DataTheorems, TLAPS

Socket == {"udp", "tcp"}

Ready == {"timer", "noTimer", "timerRefused", "runs"}

\* The sockets that are open in each phase
SocketsInv ==
    /\ fds \in [Socket -> 0 .. 4]
    /\ opened = {fds[socket] : socket \in Socket} \ {NoFd}
    /\ phase \in {"start", "usage", "udp"} => fds["udp"] = NoFd /\ fds["tcp"] = NoFd
    /\ phase = "tcp" => fds["udp"] # NoFd /\ fds["tcp"] = NoFd
    /\ phase \in Ready =>
          /\ fds["udp"] # NoFd
          /\ commandLine.program = "client" => fds["tcp"] # NoFd /\ fds["tcp"] # fds["udp"]

LEMMA SocketsInit == Init => SocketsInv
BY DEF Init, SocketsInv, Socket, Ready, NoFd

\* socket never returns a descriptor that is open already.
LEMMA NewFdIsFree ==
  ASSUME SocketsInv, phase \in Socket, NEW fd \in NewFds
  PROVE  fd = NoFd \/ (fd \in 1 .. 4 /\ fd \notin opened)
<1>1. \E n \in 1 .. 4 : n \notin opened
  <2>1. \E a : opened \subseteq {a}
    BY DEF SocketsInv, Socket, NoFd
  <2>2. 1 \in 1 .. 4 /\ 2 \in 1 .. 4 /\ 1 # 2
    OBVIOUS
  <2> QED BY <2>1, <2>2
<1> QED BY <1>1 DEF NewFds

LEMMA FailKeepsSockets ==
  ASSUME SocketsInv, phase \in Socket, UNCHANGED commandLine,
         NEW fd \in NewFds, Fail(fd)
  PROVE  SocketsInv'
<1>1. fd = NoFd \/ fd \notin opened
  BY NewFdIsFree
<1>2. opened' = opened
  BY <1>1 DEF Fail, Close
<1>3. fds[phase] = NoFd
  BY DEF SocketsInv, Socket
<1>4. fds' = fds
  BY <1>3 DEF Fail, SocketsInv, Socket
<1> QED BY <1>2, <1>4 DEF Fail, SocketsInv

LEMMA KeepKeepsSockets ==
  ASSUME SocketsInv, phase \in Socket, UNCHANGED commandLine,
         NEW fd \in NewFds, Keep(fd)
  PROVE  SocketsInv'
<1>1. fd \in 1 .. 4 /\ fd \notin opened /\ fd # NoFd
  BY NewFdIsFree DEF Keep
<1>2. fds' = [fds EXCEPT ![phase] = fd] /\ opened' = opened \cup {fd}
  BY DEF Keep
<1>3. CASE phase = "udp"
  <2>1. fds'["udp"] = fd /\ fds'["tcp"] = NoFd /\ opened = {}
    BY <1>2, <1>3 DEF SocketsInv, Socket, NoFd
  <2>2. opened' = {fds'[socket] : socket \in Socket} \ {NoFd}
    BY <1>1, <1>2, <2>1 DEF Socket
  <2>3. /\ phase' = IF commandLine.program = "client" THEN "tcp" ELSE "timer"
    BY <1>3 DEF Keep, AfterSocket
  <2> QED BY <1>1, <1>2, <1>3, <2>1, <2>2, <2>3 DEF SocketsInv, Socket, Ready, NoFd
<1>4. CASE phase = "tcp"
  <2>1. /\ fds'["tcp"] = fd /\ fds'["udp"] = fds["udp"] /\ opened = {fds["udp"]}
        /\ fds["udp"] # NoFd
    BY <1>2, <1>4 DEF SocketsInv, Socket, NoFd
  <2>2. opened' = {fds'[socket] : socket \in Socket} \ {NoFd}
    BY <1>1, <1>2, <2>1 DEF Socket
  <2>3. phase' = "timer"
    BY <1>4 DEF Keep, AfterSocket
  <2> QED BY <1>1, <1>2, <1>4, <2>1, <2>2, <2>3 DEF SocketsInv, Socket, Ready, NoFd
<1> QED BY <1>3, <1>4 DEF Socket

LEMMA SocketsStep == SocketsInv /\ [Next]_vars => SocketsInv'
<1> SUFFICES ASSUME SocketsInv, [Next]_vars PROVE SocketsInv'
  OBVIOUS
<1>1. CASE ParseCmdParams
  <2>1. phase = "start" /\ phase' \in {"udp", "usage"} /\ UNCHANGED <<commandLine, fds, opened>>
    BY <1>1 DEF ParseCmdParams, FirstSocket
  <2> QED BY <2>1 DEF SocketsInv, Ready
<1>2. CASE TryUdpAddress
  BY <1>2, FailKeepsSockets, KeepKeepsSockets DEF TryUdpAddress, Socket
<1>3. CASE TryTcpAddress
  BY <1>3, FailKeepsSockets, KeepKeepsSockets DEF TryTcpAddress, Socket
<1>4. CASE NoAddressLeft
  BY <1>4 DEF NoAddressLeft, SocketsInv, Ready
<1>5. CASE CreateTimer
  <2>1. /\ phase = "timer" /\ phase' \in Ready
        /\ UNCHANGED <<commandLine, fds, opened>>
    BY <1>5 DEF CreateTimer, SetIntervalTimer, Ready
  <2> QED BY <2>1 DEF SocketsInv, Ready
<1>6. CASE StartGame
  <2>1. /\ phase = "runs" /\ phase' \in Ready
        /\ UNCHANGED <<commandLine, fds, opened>>
    BY <1>6 DEF StartGame, SetIntervalTimer, Ready
  <2> QED BY <2>1 DEF SocketsInv, Ready
<1>7. CASE UNCHANGED vars
  BY <1>7 DEF vars, SocketsInv
<1> QED BY <1>1, <1>2, <1>3, <1>4, <1>5, <1>6, <1>7 DEF Next

\* Whatever fails while a program starts, every open descriptor is that of a socket,
\* and a program that runs has all its sockets.
THEOREM DescriptorsCorrect == Spec => []NoDescriptorIsLost
<1>1. SocketsInv => NoDescriptorIsLost
  BY DEF SocketsInv, NoDescriptorIsLost, Socket, Ready
<1> QED BY <1>1, SocketsInit, SocketsStep, PTL DEF Spec

-----------------------------------------------------------------------------
(* The timer *)

Configured == phase \notin {"start", "usage"}

\* The configuration is within its limits.
WithinLimits(program, values) ==
    /\ DOMAIN values = DOMAIN Parameters(program)
    /\ \A name \in DOMAIN values :
          Parameters(program)[name].test = "range" =>
              values[name] \in Parameters(program)[name].min .. Parameters(program)[name].max

ConfigInv ==
    /\ Configured => WithinLimits(commandLine.program, config)
    /\ ~Configured => DOMAIN config = {}

LEMMA DefaultsAreWithin ==
  ASSUME NEW program, NEW name \in DOMAIN Parameters(program), NEW p, p = Parameters(program)[name],
         p.test = "range"
  PROVE  p.default \in p.min .. p.max
<1>1. CASE program = "server"
  <2>1. name \in {"p", "s", "t", "v", "w", "h"} /\ p = ServerParameters[name]
    BY <1>1 DEF Parameters, ServerParameters
  <2> QED BY <2>1, WidthAssumption DEF ServerParameters, Uint
<1>2. CASE program # "server"
  <2>1. name \in {"p", "r", "n", "i"} /\ p = ClientParameters[name]
    BY <1>2 DEF Parameters, ClientParameters
  <2> QED BY <2>1 DEF ClientParameters, Uint, Text
<1> QED BY <1>1, <1>2

\* What the constructors of the configurations accept is within the limits.
LEMMA AcceptedLimits ==
  ASSUME NEW program, NEW params,
         \A name \in DOMAIN params : IsAccepted(params[name], Parameters(program)[name])
  PROVE  WithinLimits(program, ConfigOf(program, params))
<1>1. DOMAIN ConfigOf(program, params) = DOMAIN Parameters(program)
  BY DEF ConfigOf
<1>2. ASSUME NEW name \in DOMAIN Parameters(program), Parameters(program)[name].test = "range"
      PROVE  ConfigOf(program, params)[name]
               \in Parameters(program)[name].min .. Parameters(program)[name].max
  <2> DEFINE p == Parameters(program)[name]  value == params[name]
  <2>1. ConfigOf(program, params)[name] =
          IF name \notin DOMAIN params THEN p.default ELSE Cast(value, p.bits)
    BY <1>2 DEF ConfigOf
  <2>2. p.default \in p.min .. p.max
    BY <1>2, DefaultsAreWithin
  <2>3. ASSUME name \in DOMAIN params PROVE Cast(value, p.bits) \in p.min .. p.max
    <3>1. IsAccepted(value, p) /\ p.test = "range"
      BY <1>2, <2>3
    <3> HIDE DEF p, value
    <3> QED BY <3>1 DEF IsAccepted
  <2> HIDE DEF p, value
  <2>4. ConfigOf(program, params)[name] \in p.min .. p.max
    BY <2>1, <2>2, <2>3
  <2> QED BY <2>4 DEF p
<1> QED BY <1>1, <1>2 DEF WithinLimits

\* The rounds per second, which give the interval, and the seed
LEMMA ServerLimits ==
  ASSUME ConfigInv, Configured, commandLine.program = "server"
  PROVE  config["v"] \in 1 .. 250 /\ config["s"] \in Nat
BY WidthAssumption DEF ConfigInv, WithinLimits, Parameters, ServerParameters, Uint

LEMMA ConfigStep == ConfigInv /\ [Next]_vars => ConfigInv'
<1> SUFFICES ASSUME ConfigInv, [Next]_vars PROVE ConfigInv'
  OBVIOUS
<1>1. CASE ParseCmdParams
  <2> DEFINE params == Params(commandLine.options)  program == commandLine.program
  <2>1. UNCHANGED commandLine /\ ~Configured
    BY <1>1 DEF ParseCmdParams, Configured
  <2>2. CASE phase' = "usage" /\ UNCHANGED config
    BY <2>1, <2>2 DEF ConfigInv, Configured
  <2>3. CASE /\ \A name \in DOMAIN params : IsAccepted(params[name], Parameters(program)[name])
             /\ config' = ConfigOf(program, params) /\ phase' = "udp"
    <3>1. Configured'
      BY <2>3 DEF Configured
    <3> HIDE DEF params
    <3>2. WithinLimits(program, config')
      BY <2>3, AcceptedLimits
    <3> QED BY <2>1, <3>1, <3>2 DEF ConfigInv, WithinLimits
  <2> QED BY <1>1, <2>2, <2>3 DEF ParseCmdParams, FirstSocket
<1>2. CASE UNCHANGED <<config, commandLine, phase>>
  BY <1>2 DEF ConfigInv, Configured, WithinLimits
<1>3. CASE UNCHANGED <<config, commandLine>> /\ Configured /\ Configured'
  BY <1>3 DEF ConfigInv, WithinLimits
<1>4. CASE TryUdpAddress \/ TryTcpAddress \/ NoAddressLeft \/ CreateTimer \/ StartGame
  <2>1. UNCHANGED <<config, commandLine>> /\ Configured /\ Configured'
    BY <1>4 DEF TryUdpAddress, TryTcpAddress, NoAddressLeft, CreateTimer, StartGame, SetIntervalTimer,
                Fail, Keep, AfterSocket, Configured
  <2> QED BY <1>3, <2>1
<1> QED BY <1>1, <1>2, <1>4 DEF Next, vars

\* A turn lasts a second at most.
LEMMA QuotientBound ==
  ASSUME NEW n \in Nat, NEW k \in Nat \ {0}
  PROVE  n \div k \in 0 .. n
<1> DEFINE q == n \div k
<1>1. q \in Int /\ k * q <= n /\ n < k * q + k
  BY SMT
<1> HIDE DEF q
<1>2. q >= 0
  <2>1. q < 0 => k * q <= 0 - k
    BY <1>1, SMT
  <2> QED BY <1>1, <2>1, SMT
<1>3. q <= n
  <2>1. q <= k * q
    BY <1>1, <1>2, SMT
  <2> QED BY <1>1, <2>1, SMT
<1> QED BY <1>1, <1>2, <1>3 DEF q

LEMMA IntervalBound ==
  ASSUME ConfigInv, Configured
  PROVE  Interval \in Nat /\ Interval <= NS_IN_SECOND
<1>1. NS_IN_SECOND \in Nat /\ MsgToServerIntervalNs \in Nat
  BY SMT DEF NS_IN_SECOND, MsgToServerIntervalNs
<1>2. MsgToServerIntervalNs <= NS_IN_SECOND
  BY SMT DEF NS_IN_SECOND, MsgToServerIntervalNs
<1>3. CASE commandLine.program = "server"
  <2>1. config["v"] \in Nat \ {0}
    BY <1>3, ServerLimits
  <2>2. TurnIntervalNs \in 0 .. NS_IN_SECOND
    BY <1>1, <2>1, QuotientBound, Zenon DEF TurnIntervalNs
  <2> QED BY <1>1, <1>3, <2>2, SMT DEF Interval
<1>4. CASE commandLine.program # "server"
  BY <1>1, <1>2, <1>4, Zenon DEF Interval
<1> QED BY <1>3, <1>4

\* The kernel refuses a setting exactly when it falls on a whole second.
LEMMA RefusedSetting ==
  ASSUME NEW now \in Nat, now < NS_IN_SECOND,
         NEW interval \in Nat, interval <= NS_IN_SECOND,
         ~SettimeAccepts(FirstExpiry(now, interval), interval)
  PROVE  (now + interval) % NS_IN_SECOND = 0 \/ interval = NS_IN_SECOND
<1>1. NS_IN_SECOND \in Nat /\ NS_IN_SECOND > 0
  BY SMT DEF NS_IN_SECOND
<1>2. now + interval = NS_IN_SECOND \/ interval = NS_IN_SECOND
  BY <1>1, SMT DEF SettimeAccepts, FirstExpiry
<1>3. NS_IN_SECOND % NS_IN_SECOND = 0
  BY <1>1, SMT
<1> QED BY <1>2, <1>3, Zenon

LEMMA SetTimerRefused ==
  ASSUME ConfigInv, Configured, SetIntervalTimer, UNCHANGED <<config, commandLine>>
  PROVE  RefusedOnWholeSecond'
<1> SUFFICES ASSUME phase' = "timerRefused"
             PROVE  (reading' + Interval') % NS_IN_SECOND = 0 \/ Interval' = NS_IN_SECOND
  BY DEF RefusedOnWholeSecond
<1>1. Interval' = Interval
  BY DEF Interval, TurnIntervalNs
<1>2. PICK now \in Readings : /\ reading' = now
                              /\ ~SettimeAccepts(FirstExpiry(now, Interval), Interval)
  BY DEF SetIntervalTimer
<1>3. now \in Nat /\ now < NS_IN_SECOND
  BY <1>2, ReadingsAssumption
<1> QED BY <1>1, <1>2, <1>3, IntervalBound, RefusedSetting

LEMMA TimerStep ==
  ConfigInv /\ RefusedOnWholeSecond /\ [Next]_vars => RefusedOnWholeSecond'
<1> SUFFICES ASSUME ConfigInv, RefusedOnWholeSecond, [Next]_vars PROVE RefusedOnWholeSecond'
  OBVIOUS
<1>1. CASE phase' # "timerRefused"
  BY <1>1 DEF RefusedOnWholeSecond
<1>2. CASE SetIntervalTimer /\ Configured /\ UNCHANGED <<config, commandLine>>
  BY <1>2, SetTimerRefused
<1>3. CASE UNCHANGED <<phase, reading, config, commandLine>>
  BY <1>3 DEF RefusedOnWholeSecond, Interval, TurnIntervalNs
<1>4. CASE ParseCmdParams \/ TryUdpAddress \/ TryTcpAddress \/ NoAddressLeft
  <2>1. phase' # "timerRefused"
    BY <1>4 DEF ParseCmdParams, TryUdpAddress, TryTcpAddress, NoAddressLeft, Fail, Keep,
                AfterSocket, FirstSocket
  <2> QED BY <1>1, <2>1
<1>5. CASE CreateTimer
  BY <1>1, <1>2, <1>5 DEF CreateTimer, Configured
<1>6. CASE StartGame
  BY <1>2, <1>3, <1>6 DEF StartGame, Configured
<1>7. CASE UNCHANGED vars
  BY <1>3, <1>7 DEF vars
<1> QED BY <1>4, <1>5, <1>6, <1>7 DEF Next

\* The only settings of the timer the kernel ever refuses are those that fall on a
\* whole second, for every clock and every accepted command line.
THEOREM RefusalsCorrect == Spec => []RefusedOnWholeSecond
<1>1. Init => ConfigInv /\ RefusedOnWholeSecond
  BY DEF Init, ConfigInv, Configured, RefusedOnWholeSecond
<1>2. ConfigInv /\ RefusedOnWholeSecond /\ [Next]_vars => (ConfigInv /\ RefusedOnWholeSecond)'
  BY ConfigStep, TimerStep
<1> QED BY <1>1, <1>2, PTL DEF Spec

-----------------------------------------------------------------------------
(* The parameters *)

\* The i-th option is the last with its name.
IsLast(options, i) == \A j \in DOMAIN options : j > i => options[j].name # options[i].name

\* A value within the limits of its parameter, as a user reads them
IsRight(value, p) ==
    /\ p.test = "name" => value.isName
    /\ p.test = "range" =>
          value.kind = "number" /\ value.high = 0 /\ value.low \in p.min .. p.max

\* and what the program runs with then
KeptOf(value, p) == IF p.test = "range" THEN value.low ELSE value

Options == Seq([name : STRING, value : Value])

LEMMA ValuesOf ==
  ASSUME NEW options \in Options, NEW i \in DOMAIN options
  PROVE  options[i].value \in Value
<1>1. options[i] \in [name : STRING, value : Value]
  <2> DEFINE T == [name : STRING, value : Value]
  <2> HIDE DEF T
  <2>1. options \in Seq(T)
    BY DEF Options, T
  <2>2. options[i] \in T
    BY <2>1
  <2> QED BY <2>2 DEF T
<1> QED BY <1>1

\* Among the options with a name one is the last.
LEMMA SomeIsLast ==
  ASSUME NEW options \in Options, NEW k \in DOMAIN options
  PROVE  \E i \in DOMAIN options : options[i].name = options[k].name /\ IsLast(options, i)
<1> DEFINE n == Len(options)  I == {i \in 1 .. n : options[i].name = options[k].name}
           J == {n - i : i \in I}
<1>1. n \in Nat /\ DOMAIN options = 1 .. n /\ k \in I
  BY DEF Options
<1>2. J \in SUBSET Nat /\ J # {}
  BY <1>1
<1>3. Min(J) \in J /\ \A j \in J : Min(J) <= j
  BY <1>2, LeastOfNaturals
<1> DEFINE m == Min(J)
<1> HIDE DEF m
<1>4. PICK i \in I : m = n - i
  BY <1>3 DEF m
<1>5. ASSUME NEW j \in 1 .. n, j > i, options[j].name = options[i].name PROVE FALSE
  <2>1. j \in I /\ n - j \in J
    BY <1>4, <1>5
  <2>2. m <= n - j
    BY <1>3, <2>1 DEF m
  <2>3. i \in Nat /\ j \in Nat
    BY <1>4, <1>5
  <2> QED BY <1>1, <1>4, <1>5, <2>2, <2>3
<1> QED BY <1>1, <1>4, <1>5 DEF IsLast

\* parseCmdParameters keeps the value of that one.
LEMMA LastIsKept ==
  ASSUME NEW options \in Options, NEW i \in DOMAIN options, IsLast(options, i)
  PROVE  options[i].name \in DOMAIN Params(options) /\ Params(options)[options[i].name] = options[i].value
<1> DEFINE name == options[i].name
           Keeps(k) == k \in DOMAIN options /\ options[k].name = name
                       /\ \A j \in DOMAIN options : options[j].name = name => j <= k
           c == CHOOSE k \in DOMAIN options :
                    /\ options[k].name = name
                    /\ \A j \in DOMAIN options : options[j].name = name => j <= k
<1>1. DOMAIN options \subseteq Nat
  BY DEF Options
<1>2. Keeps(i)
  BY <1>1 DEF IsLast
<1>3. Keeps(c)
  BY <1>2
<1>4. c = i
  <2> HIDE DEF c
  <2>1. c \in Nat /\ i \in Nat /\ c <= i /\ i <= c
    BY <1>1, <1>2, <1>3
  <2> QED BY <2>1
<1>5. name \in DOMAIN Params(options) /\ Params(options)[name] = options[c].value
  BY DEF Params
<1> QED BY <1>4, <1>5

\* The limits fit the types.
LEMMA ParametersAre ==
  ASSUME NEW program, NEW name \in DOMAIN Parameters(program), NEW p, p = Parameters(program)[name]
  PROVE  /\ p.test \in {"range", "name", "any"} /\ p.min \in Nat /\ p.max \in Nat
         /\ p.test = "range" => \/ p.bits = 8 /\ p.max < 256
                                \/ p.bits = 16 /\ p.max < 65536
                                \/ p.bits = 32
<1>1. CASE program = "server"
  <2>1. name \in {"p", "s", "t", "v", "w", "h"} /\ p = ServerParameters[name]
    BY <1>1 DEF Parameters, ServerParameters
  <2> QED BY <2>1, WidthAssumption DEF ServerParameters, Uint
<1>2. CASE program # "server"
  <2>1. name \in {"p", "r", "n", "i"} /\ p = ClientParameters[name]
    BY <1>2 DEF Parameters, ClientParameters
  <2> QED BY <2>1 DEF ClientParameters, Uint, Text
<1> QED BY <1>1, <1>2

\* Testing after the cast is as good as before it, since what was cut is tested as well.
LEMMA AcceptedIsRight ==
  ASSUME NEW program, NEW name \in DOMAIN Parameters(program), NEW p, p = Parameters(program)[name],
         NEW value \in Value
  PROVE  /\ IsAccepted(value, p) <=> IsRight(value, p)
         /\ IsAccepted(value, p) /\ p.test = "range" => Cast(value, p.bits) = value.low
<1>1. /\ p.test \in {"range", "name", "any"} /\ p.min \in Nat /\ p.max \in Nat
      /\ p.test = "range" => \/ p.bits = 8 /\ p.max < 256
                             \/ p.bits = 16 /\ p.max < 65536
                             \/ p.bits = 32
  BY ParametersAre
<1>2. 2 ^ 8 = 256 /\ 2 ^ 16 = 65536
  BY SMT
<1>3. value.kind = "number" => value.low \in Nat
  BY WidthAssumption DEF Value
<1>4. ASSUME value.kind = "number", p.test = "range", p.bits < 32 => value.low < 2 ^ p.bits
      PROVE  Cast(value, p.bits) = value.low
  <2>1. value.low \in Nat
    BY <1>3, <1>4
  <2>2. CASE p.bits = 32
    BY <2>2 DEF Cast
  <2>3. CASE p.bits = 16
    BY <1>2, <1>4, <2>1, <2>3 DEF Cast
  <2>4. CASE p.bits = 8
    BY <1>2, <1>4, <2>1, <2>4 DEF Cast
  <2> QED BY <1>1, <1>4, <2>2, <2>3, <2>4
<1>5. ASSUME value.kind = "number", value.low \in p.min .. p.max, p.test = "range"
      PROVE  p.bits < 32 => value.low < 2 ^ p.bits
  <2>1. value.low \in Nat /\ value.low <= p.max
    BY <1>1, <1>5
  <2>2. CASE p.bits = 16
    BY <1>1, <1>2, <1>5, <2>1, <2>2
  <2>3. CASE p.bits = 8
    BY <1>1, <1>2, <1>5, <2>1, <2>3
  <2> QED BY <1>1, <1>5, <2>2, <2>3
<1>6. CASE p.test = "range"
  <2>1. IsAccepted(value, p) <=>
          /\ value.kind = "number" /\ value.high = 0
          /\ (p.bits < 32 => value.low < 2 ^ p.bits)
          /\ Cast(value, p.bits) \in p.min .. p.max
    BY <1>6 DEF IsAccepted
  <2>2. IsRight(value, p) <=>
          value.kind = "number" /\ value.high = 0 /\ value.low \in p.min .. p.max
    BY <1>6 DEF IsRight
  <2> QED BY <1>4, <1>5, <1>6, <2>1, <2>2
<1>7. CASE p.test # "range"
  BY <1>1, <1>7 DEF IsAccepted, IsRight
<1> QED BY <1>6, <1>7

ParametersInv == commandLine \in CommandLines /\ RunsAsTold

\* RunsAsTold with the definitions above
Told(options, program, values) ==
    \A i \in DOMAIN options :
        IsLast(options, i) =>
            /\ options[i].name \in DOMAIN Parameters(program)
            /\ IsRight(options[i].value, Parameters(program)[options[i].name])
            /\ values[options[i].name] = KeptOf(options[i].value, Parameters(program)[options[i].name])

Refused(options, program) ==
    \E i \in DOMAIN options :
        /\ IsLast(options, i)
        /\ ~ (/\ options[i].name \in DOMAIN Parameters(program)
              /\ IsRight(options[i].value, Parameters(program)[options[i].name]))

LEMMA RunsAsToldMeans ==
  RunsAsTold <=>
    /\ phase \notin {"start", "usage"} => Told(commandLine.options, commandLine.program, config)
    /\ phase = "usage" => \/ commandLine.positional # PositionalParametersExpected(commandLine.program)
                          \/ Refused(commandLine.options, commandLine.program)
BY DEF RunsAsTold, Told, Refused, IsLast, IsRight, KeptOf

LEMMA RunsAsToldNext ==
  RunsAsTold' <=>
    /\ phase' \notin {"start", "usage"} => Told(commandLine'.options, commandLine'.program, config')
    /\ phase' = "usage" => \/ commandLine'.positional # PositionalParametersExpected(commandLine'.program)
                           \/ Refused(commandLine'.options, commandLine'.program)
BY DEF RunsAsTold, Told, Refused, IsLast, IsRight, KeptOf

LEMMA ParseTold ==
  ASSUME commandLine \in CommandLines, ParseCmdParams
  PROVE  RunsAsTold'
<1> DEFINE options == commandLine.options  program == commandLine.program  params == Params(options)
<1>1. options \in Options
  BY CommandLinesAssumption, Zenon DEF Options
<1>2. \A i \in DOMAIN options : options[i].value \in Value
  BY <1>1, ValuesOf
<1>3. UNCHANGED commandLine
  BY DEF ParseCmdParams
<1>4. CASE /\ DOMAIN params \subseteq DOMAIN Parameters(program)
           /\ commandLine.positional = PositionalParametersExpected(program)
           /\ \A name \in DOMAIN params : IsAccepted(params[name], Parameters(program)[name])
  <2>1. config' = ConfigOf(program, params) /\ phase' = "udp"
    BY <1>4 DEF ParseCmdParams, FirstSocket
  <2>2. ASSUME NEW i \in DOMAIN options, IsLast(options, i)
        PROVE  /\ options[i].name \in DOMAIN Parameters(program)
               /\ IsRight(options[i].value, Parameters(program)[options[i].name])
               /\ config'[options[i].name] = KeptOf(options[i].value, Parameters(program)[options[i].name])
    <3> DEFINE name == options[i].name  value == options[i].value  p == Parameters(program)[name]
    <3>1. name \in DOMAIN params /\ params[name] = value /\ value \in Value
      BY <1>1, <1>2, <2>2, LastIsKept
    <3>2. name \in DOMAIN Parameters(program) /\ IsAccepted(value, p)
      BY <1>4, <3>1
    <3>3. config'[name] = IF p.test # "range" THEN value ELSE Cast(value, p.bits)
      BY <2>1, <3>1, <3>2 DEF ConfigOf
    <3> HIDE DEF name, value, p, params, options, program
    <3>4. IsRight(value, p) /\ (p.test = "range" => Cast(value, p.bits) = value.low)
      BY <3>1, <3>2, AcceptedIsRight DEF p
    <3> QED BY <3>2, <3>3, <3>4 DEF name, value, p, KeptOf
  <2>3. Told(options, program, config')
    BY <2>2 DEF Told
  <2> QED BY <1>3, <2>1, <2>3, RunsAsToldNext
<1>5. CASE ~ (/\ DOMAIN params \subseteq DOMAIN Parameters(program)
             /\ commandLine.positional = PositionalParametersExpected(program)
             /\ \A name \in DOMAIN params : IsAccepted(params[name], Parameters(program)[name]))
  <2>1. phase' = "usage"
    BY <1>5 DEF ParseCmdParams
  <2>2. ASSUME NEW name \in DOMAIN params,
               ~ (/\ name \in DOMAIN Parameters(program)
                  /\ IsAccepted(params[name], Parameters(program)[name]))
        PROVE  Refused(options, program)
    <3>1. PICK k \in DOMAIN options : options[k].name = name
      BY <2>2 DEF Params
    <3>2. PICK i \in DOMAIN options : options[i].name = name /\ IsLast(options, i)
      BY <1>1, <3>1, SomeIsLast
    <3>3. params[name] = options[i].value /\ options[i].value \in Value
      BY <1>1, <1>2, <3>2, LastIsKept
    <3> HIDE DEF params, options, program
    <3>4. ~ (name \in DOMAIN Parameters(program) /\ IsRight(options[i].value, Parameters(program)[name]))
      BY <2>2, <3>3, AcceptedIsRight
    <3> QED BY <3>2, <3>4 DEF Refused
  <2>3. commandLine.positional # PositionalParametersExpected(program) \/ Refused(options, program)
    BY <1>5, <2>2
  <2> QED BY <1>3, <2>1, <2>3, RunsAsToldNext
<1> QED BY <1>4, <1>5

LEMMA ParametersStep == ParametersInv /\ [Next]_vars => ParametersInv'
<1> SUFFICES ASSUME ParametersInv, [Next]_vars PROVE ParametersInv'
  OBVIOUS
<1>1. CASE ParseCmdParams
  <2>1. UNCHANGED commandLine
    BY <1>1 DEF ParseCmdParams
  <2> QED BY <1>1, <2>1, ParseTold DEF ParametersInv
<1>2. CASE UNCHANGED vars
  BY <1>2, RunsAsToldMeans, RunsAsToldNext DEF vars, ParametersInv
<1>3. CASE TryUdpAddress \/ TryTcpAddress \/ NoAddressLeft \/ CreateTimer \/ StartGame
  <2>1. UNCHANGED <<config, commandLine>> /\ phase \notin {"start", "usage"} /\ phase' \notin {"start", "usage"}
    BY <1>3 DEF TryUdpAddress, TryTcpAddress, NoAddressLeft, CreateTimer, StartGame, SetIntervalTimer,
                Fail, Keep, AfterSocket
  <2> QED BY <2>1, RunsAsToldMeans, RunsAsToldNext DEF ParametersInv
<1> QED BY <1>1, <1>2, <1>3 DEF Next

\* What a program runs with is what its user wrote last: numbers within the limits and never cut to
\* a type, names and hosts as written; and only a wrong last value, or wrong parameters, end it.
THEOREM ParametersCorrect == Spec => []RunsAsTold
<1>1. Init => ParametersInv
  BY RunsAsToldMeans DEF Init, ParametersInv
<1>2. ParametersInv => RunsAsTold
  BY DEF ParametersInv
<1> QED BY <1>1, <1>2, ParametersStep, PTL DEF Spec

-----------------------------------------------------------------------------
(* The generator *)

LEMMA ModulusIs == Modulus \in Nat \ {0} /\ Multiplier \in Nat /\ Multiplier \in 1 .. Modulus - 1
BY GeneratorAssumption

\* The numbers drawn from a state
IsDrawn(f, state, draws) ==
    f = [n \in 0 .. draws |-> IF n = 0 THEN state ELSE (f[n - 1] * Multiplier) % Modulus]

LEMMA DrawsAre ==
  ASSUME NEW state \in Nat, NEW draws \in Nat
  PROVE  \E f : /\ IsDrawn(f, state, draws) /\ AfterDraws(state, draws) = f[draws]
               /\ \A n \in 0 .. draws : f[n] \in Nat
<1> DEFINE f == CHOOSE f : f = [n \in 0 .. draws |-> IF n = 0 THEN state ELSE GenerateNext(f[n - 1])]
           G == [p \in (1 .. draws) \X Nat |-> (p[2] * Multiplier) % Modulus]
<1>1. PICK g : g = [n \in 0 .. draws |-> IF n = 0 THEN state ELSE G[<<n, g[n - 1]>>]]
  <2> HIDE DEF G
  <2>1. PICK g : IsRecursive(g, draws, state, G)
    BY RecursionTo
  <2> QED BY <2>1 DEF IsRecursive
<1> DEFINE S == {n \in 0 .. draws : g[n] \in Nat}
<1>2. ASSUME NEW n \in 1 .. draws, n - 1 \in S PROVE n \in S /\ g[n] = (g[n - 1] * Multiplier) % Modulus
  <2>1. G[<<n, g[n - 1]>>] = (g[n - 1] * Multiplier) % Modulus
    BY <1>2
  <2>2. g[n] = G[<<n, g[n - 1]>>]
    <3> HIDE DEF G
    <3> QED BY <1>1
  <2>3. g[n - 1] * Multiplier \in Nat
    BY <1>2, ModulusIs
  <2>4. (g[n - 1] * Multiplier) % Modulus \in Nat
    BY <2>3, ModulusIs, Remainder
  <2> QED BY <2>1, <2>2, <2>4
<1>3. 0 \in S
  <2> HIDE DEF G
  <2> QED BY <1>1
<1>4. \A n \in 0 .. draws : n \in S
  <2> HIDE DEF S
  <2> QED BY <1>2, <1>3, InductionTo
<1>5. \A n \in 0 .. draws : g[n] = IF n = 0 THEN state ELSE GenerateNext(g[n - 1])
  <2>1. g[0] = state
    <3> HIDE DEF G
    <3> QED BY <1>1
  <2>2. \A n \in 1 .. draws : n - 1 \in S
    <3> HIDE DEF S
    <3> QED BY <1>4
  <2>3. \A n \in 1 .. draws : g[n] = (g[n - 1] * Multiplier) % Modulus
    BY <1>2, <2>2
  <2> QED BY <2>1, <2>3 DEF GenerateNext
<1>6. g = [n \in 0 .. draws |-> IF n = 0 THEN state ELSE GenerateNext(g[n - 1])]
  <2>1. g = [n \in 0 .. draws |-> g[n]]
    <3> HIDE DEF G
    <3> QED BY <1>1
  <2> QED BY <1>5, <2>1
<1>7. f = [n \in 0 .. draws |-> IF n = 0 THEN state ELSE GenerateNext(f[n - 1])]
  BY <1>6
<1>8. AfterDraws(state, draws) = f[draws]
  BY DEF AfterDraws
<1> HIDE DEF f
<1>9. IsDrawn(f, state, draws)
  BY <1>7 DEF IsDrawn, GenerateNext
<1> DEFINE T == {n \in 0 .. draws : f[n] \in Nat}
<1>10. ASSUME NEW n \in 1 .. draws, n - 1 \in T PROVE n \in T
  <2>1. f[n] = (f[n - 1] * Multiplier) % Modulus
    BY <1>9 DEF IsDrawn
  <2>2. f[n - 1] * Multiplier \in Nat
    BY <1>10, ModulusIs
  <2>3. (f[n - 1] * Multiplier) % Modulus \in Nat
    BY <2>2, ModulusIs, Remainder
  <2> QED BY <2>1, <2>3
<1>11. 0 \in T
  BY <1>9 DEF IsDrawn
<1>12. \A n \in 0 .. draws : n \in T
  <2> HIDE DEF T
  <2> QED BY <1>10, <1>11, InductionTo
<1> QED BY <1>8, <1>9, <1>12

\* The numbers drawn from a state are those drawn from 1, times the state.
LEMMA DrawsMultiply ==
  ASSUME NEW state \in Nat, NEW draws \in Nat \ {0}
  PROVE  /\ AfterDraws(1, draws) \in 1 .. Modulus - 1
         /\ AfterDraws(state, draws) = (state * AfterDraws(1, draws)) % Modulus
<1>1. PICK f : /\ IsDrawn(f, state, draws) /\ AfterDraws(state, draws) = f[draws]
               /\ \A n \in 0 .. draws : f[n] \in Nat
  BY DrawsAre
<1>2. PICK g : /\ IsDrawn(g, 1, draws) /\ AfterDraws(1, draws) = g[draws]
               /\ \A n \in 0 .. draws : g[n] \in Nat
  BY DrawsAre
<1>3. /\ f[0] = state /\ \A n \in 1 .. draws : f[n] = (f[n - 1] * Multiplier) % Modulus
      /\ g[0] = 1 /\ \A n \in 1 .. draws : g[n] = (g[n - 1] * Multiplier) % Modulus
  BY <1>1, <1>2 DEF IsDrawn
<1> DEFINE Good(n) == n > 0 => g[n] \in 1 .. Modulus - 1 /\ f[n] = (state * g[n]) % Modulus
           S == {n \in 0 .. draws : Good(n)}
<1>4. ASSUME NEW n \in 1 .. draws, n - 1 \in S PROVE n \in S
  <2>1. f[n] = (f[n - 1] * Multiplier) % Modulus /\ g[n] = (g[n - 1] * Multiplier) % Modulus
    BY <1>3
  <2> DEFINE a == f[n - 1]  b == g[n - 1]
  <2>2. a \in Nat /\ b \in Nat /\ n - 1 \in 0 .. draws
    BY <1>1, <1>2
  <2>3. b \in 1 .. Modulus - 1 /\ (a * Multiplier) % Modulus = ((state * b) * Multiplier) % Modulus
    <3>1. CASE n = 1
      <4>1. a = state /\ b = 1
        BY <1>3, <3>1
      <4> QED BY <4>1, ModulusIs
    <3>2. CASE n # 1
      <4>1. Good(n - 1) /\ n - 1 > 0
        BY <1>4, <3>2
      <4>2. b \in 1 .. Modulus - 1 /\ a = (state * b) % Modulus
        BY <4>1
      <4> HIDE DEF a, b
      <4>3. state * b \in Nat
        BY <2>2
      <4> QED BY <4>2, <4>3, ModulusIs, RemainderOfProduct
    <3> QED BY <3>1, <3>2
  <2> HIDE DEF a, b
  <2>4. g[n] \in 1 .. Modulus - 1
    <3>1. (b * Multiplier) % Modulus # 0
      BY <2>3, ModulusIs, PrimeAssumption
    <3>2. b * Multiplier \in Nat
      BY <2>2, ModulusIs
    <3>3. (b * Multiplier) % Modulus \in 0 .. Modulus - 1
      BY <3>2, ModulusIs, Remainder
    <3> QED BY <2>1, <3>1, <3>3, ModulusIs DEF b
  <2>5. f[n] = (state * g[n]) % Modulus
    <3> DEFINE c == b * Multiplier
    <3>1. c \in Nat
      BY <2>2, ModulusIs
    <3>2. ((state * b) * Multiplier) = c * state
      BY <2>2, ModulusIs
    <3>3. f[n] = (a * Multiplier) % Modulus /\ g[n] = c % Modulus
      BY <2>1 DEF a, b
    <3>4. f[n] = (c * state) % Modulus
      BY <2>3, <3>2, <3>3
    <3> HIDE DEF c
    <3>5. f[n] = ((c % Modulus) * state) % Modulus
      BY <3>1, <3>4, ModulusIs, RemainderOfProduct
    <3>6. (c % Modulus) * state = state * (c % Modulus)
      BY <3>1, <3>3, <2>4, ModulusIs
    <3> QED BY <3>3, <3>5, <3>6
  <2>6. n \in 0 .. draws
    OBVIOUS
  <2> QED BY <2>4, <2>5, <2>6
<1>5. 0 \in S
  OBVIOUS
<1>6. \A n \in 0 .. draws : n \in S
  <2> HIDE DEF S
  <2> QED BY <1>4, <1>5, InductionTo
<1>7. draws \in 0 .. draws /\ draws > 0
  OBVIOUS
<1>8. Good(draws)
  BY <1>6, <1>7
<1> QED BY <1>1, <1>2, <1>7, <1>8

\* No number but 0 is drawn again after a game's draws, and none but 0 leads to 0.
LEMMA DrawsDiffer ==
  ASSUME NEW state \in Nat, NEW draws \in DrawsPerGame
  PROVE  /\ AfterDraws(state, draws) \in 0 .. Modulus - 1
         /\ AfterDraws(state, draws) = state => state % Modulus = 0
         /\ AfterDraws(state, draws) = 0 => state % Modulus = 0
<1> DEFINE w == AfterDraws(1, draws)  next == AfterDraws(state, draws)
<1>1. draws \in Nat \ {0}
  BY GeneratorAssumption
<1>2. w \in 1 .. Modulus - 1 /\ next = (state * w) % Modulus /\ w # 1
  BY <1>1, DrawsMultiply, PrimeAssumption
<1> HIDE DEF w, next
<1>3. state * w \in Nat /\ w \in Nat
  BY <1>2
<1>4. next \in 0 .. Modulus - 1
  BY <1>2, <1>3, ModulusIs, Remainder
<1> DEFINE r == state % Modulus
<1>5. r \in 0 .. Modulus - 1
  BY ModulusIs, Remainder
<1>6. ASSUME next = 0 PROVE r = 0
  <2>1. (r * w) % Modulus = 0
    BY <1>2, <1>3, <1>6, ModulusIs, RemainderOfProduct
  <2> HIDE DEF r
  <2> QED BY <1>2, <1>5, <2>1, ModulusIs, PrimeAssumption
<1>7. ASSUME next = state, r # 0 PROVE FALSE
  <2>1. state \in 1 .. Modulus - 1
    <3>1. state \in 0 .. Modulus - 1
      BY <1>4, <1>7
    <3>2. 0 % Modulus = 0
      BY ModulusIs
    <3> QED BY <1>7, <3>1, <3>2
  <2>2. PICK q \in Nat : state * w = Modulus * q + ((state * w) % Modulus)
    BY <1>3, ModulusIs, Remainder
  <2>3. state * w = Modulus * q + state
    BY <1>2, <1>7, <2>2
  <2>4. state * (w - 1) = Modulus * q + 0
    <3>1. state * (w - 1) = state * w - state
      BY <1>3
    <3>2. Modulus * q \in Nat
      BY ModulusIs
    <3> DEFINE x == state * w  y == Modulus * q
    <3>3. x = y + state /\ y \in Nat /\ state * (w - 1) = x - state
      BY <2>3, <3>1, <3>2
    <3> HIDE DEF x, y
    <3>4. state * (w - 1) = y + 0
      BY <3>3
    <3> QED BY <3>4 DEF y
  <2>5. (Modulus * q + 0) % Modulus = 0
    BY ModulusIs, RemainderIs
  <2>6. w - 1 \in 1 .. Modulus - 1
    BY <1>2, ModulusIs
  <2>7. (state * (w - 1)) % Modulus # 0
    BY <2>1, <2>6, PrimeAssumption
  <2> QED BY <2>4, <2>5, <2>7
<1> QED BY <1>4, <1>6, <1>7 DEF next

IsMultiple(n) == n % Modulus = 0

\* The next identifier is not that of the latest game; the generator is at 0 only when it
\* began there.
GeneratorInv ==
    /\ v \in Nat /\ v < WordSize /\ gameIds \in Seq(Nat) /\ Len(gameIds) <= MaxGames
    /\ gameIds # <<>> => Configured /\ commandLine.program = "server"
    /\ Configured /\ commandLine.program = "server" /\ ~ IsMultiple(Seed(config)) =>
          /\ ~ IsMultiple(v)
          /\ gameIds # <<>> => v # gameIds[Len(gameIds)]
    /\ GamesAreToldApart

LEMMA GeneratorInit == Init => GeneratorInv
BY GeneratorAssumption, BoundsAssumption DEF Init, GeneratorInv, Configured, GamesAreToldApart

LEMMA StartGameKeeps ==
  ASSUME ConfigInv, GeneratorInv, StartGame
  PROVE  GeneratorInv'
<1>1. /\ commandLine.program = "server" /\ Configured /\ Configured' /\ Len(gameIds) < MaxGames
      /\ gameIds' = Append(gameIds, v) /\ UNCHANGED <<commandLine, config>>
  BY DEF StartGame, SetIntervalTimer, Configured
<1>2. PICK draws \in DrawsPerGame : v' = AfterDraws(v, draws)
  BY DEF StartGame
<1>3. v \in Nat /\ gameIds \in Seq(Nat)
  BY DEF GeneratorInv
<1>4. v' \in 0 .. Modulus - 1 /\ (v' = v => IsMultiple(v)) /\ (v' = 0 => IsMultiple(v))
  BY <1>2, <1>3, DrawsDiffer DEF IsMultiple
<1>5. IsMultiple(v') => v' = 0
  <2>1. v' % Modulus = v'
    BY <1>4, ModulusIs, RemainderOfSmall
  <2> QED BY <2>1 DEF IsMultiple
<1>6. /\ gameIds' \in Seq(Nat) /\ Len(gameIds') = Len(gameIds) + 1 /\ gameIds'[Len(gameIds')] = v
      /\ \A i \in 1 .. Len(gameIds) : gameIds'[i] = gameIds[i]
  BY <1>1, <1>3
<1>7. ASSUME ~ IsMultiple(Seed(config))
      PROVE  /\ ~ IsMultiple(v') /\ v' # gameIds'[Len(gameIds')]
             /\ \A i \in 1 .. Len(gameIds') - 1 : gameIds'[i] # gameIds'[i + 1]
  <2>1. ~ IsMultiple(v) /\ (gameIds # <<>> => v # gameIds[Len(gameIds)])
    BY <1>1, <1>7 DEF GeneratorInv
  <2>2. \A i \in 1 .. Len(gameIds) - 1 : gameIds[i] # gameIds[i + 1]
    BY <1>7 DEF GeneratorInv, GamesAreToldApart, IsMultiple
  <2>3. ~ IsMultiple(v') /\ v' # v
    BY <1>4, <1>5, <2>1
  <2>4. ASSUME NEW i \in 1 .. Len(gameIds') - 1 PROVE gameIds'[i] # gameIds'[i + 1]
    <3>1. CASE i = Len(gameIds)
      BY <1>3, <1>6, <2>1, <3>1
    <3>2. CASE i # Len(gameIds)
      <4>1. i \in 1 .. Len(gameIds) - 1 /\ i \in 1 .. Len(gameIds) /\ i + 1 \in 1 .. Len(gameIds)
        BY <1>3, <1>6, <3>2
      <4> QED BY <1>6, <2>2, <4>1
    <3> QED BY <3>1, <3>2
  <2> QED BY <1>6, <2>3, <2>4
<1>8. v' < WordSize /\ v' \in Nat
  BY <1>4, GeneratorAssumption
<1>9. Len(gameIds') <= MaxGames
  BY <1>1, <1>3, <1>6, BoundsAssumption
<1>10. Seed(config)' = Seed(config)
  BY <1>1 DEF Seed
<1>11. GamesAreToldApart'
  BY <1>7, <1>10 DEF GamesAreToldApart, IsMultiple
<1> QED BY <1>1, <1>6, <1>7, <1>8, <1>9, <1>10, <1>11 DEF GeneratorInv

LEMMA GeneratorStep == ConfigInv /\ ConfigInv' /\ GeneratorInv /\ [Next]_vars => GeneratorInv'
<1> SUFFICES ASSUME ConfigInv, ConfigInv', GeneratorInv, [Next]_vars PROVE GeneratorInv'
  OBVIOUS
<1>1. CASE ParseCmdParams
  <2>1. gameIds = <<>> /\ UNCHANGED <<gameIds, commandLine>> /\ phase' \in {"udp", "usage"}
    BY <1>1 DEF ParseCmdParams, GeneratorInv, Configured, FirstSocket
  <2>2. v' = IF phase' = "udp" /\ commandLine.program = "server" THEN Seed(config') ELSE v
    BY <1>1 DEF ParseCmdParams
  <2>3. ASSUME phase' = "udp", commandLine.program = "server"
        PROVE  v' = Seed(config)' /\ v' \in Nat /\ v' < WordSize
    <3>1. config'["s"] \in Nat
      BY <2>1, <2>3, WidthAssumption
         DEF ConfigInv, Configured, WithinLimits, Parameters, ServerParameters, Uint
    <3>2. WordSize \in Nat \ {0}
      BY GeneratorAssumption
    <3>3. config'.s % WordSize \in 0 .. WordSize - 1
      BY <3>1, <3>2, Remainder
    <3> QED BY <2>2, <2>3, <3>2, <3>3 DEF Seed
  <2>4. v' \in Nat /\ v' < WordSize
    BY <2>2, <2>3 DEF GeneratorInv
  <2>5. GamesAreToldApart'
    BY <2>1 DEF GamesAreToldApart
  <2> QED BY <2>1, <2>3, <2>4, <2>5 DEF GeneratorInv, Configured
<1>2. CASE StartGame
  BY <1>2, StartGameKeeps
<1>3. CASE UNCHANGED vars
  BY <1>3 DEF vars, GeneratorInv, Configured, GamesAreToldApart, Seed
<1>4. CASE TryUdpAddress \/ TryTcpAddress \/ NoAddressLeft \/ CreateTimer
  <2>1. UNCHANGED <<config, commandLine, v, gameIds>> /\ Configured
    BY <1>4 DEF TryUdpAddress, TryTcpAddress, NoAddressLeft, CreateTimer, Configured
  <2>2. Configured'
    BY <1>4 DEF TryUdpAddress, TryTcpAddress, NoAddressLeft, CreateTimer, SetIntervalTimer,
                Fail, Keep, AfterSocket, Configured
  <2> QED BY <2>1, <2>2 DEF GeneratorInv, GamesAreToldApart, Seed
<1> QED BY <1>1, <1>2, <1>3, <1>4 DEF Next

\* Whatever the seed, the modulus and the multiplier, games that follow each other have
\* different identifiers, unless the generator starts at 0 of its field.
THEOREM IdentifiersCorrect == Spec => []GamesAreToldApart
<1>1. Init => ConfigInv
  BY DEF Init, ConfigInv, Configured
<1>2. GeneratorInv => GamesAreToldApart
  BY DEF GeneratorInv
<1> QED BY <1>1, <1>2, GeneratorInit, ConfigStep, GeneratorStep, PTL DEF Spec

-----------------------------------------------------------------------------
(* The types *)

StepsInv ==
    /\ phase \in {"start", "usage", "udp", "tcp", "noSocket", "timer", "noTimer",
                  "timerRefused", "runs"}
    /\ untried \in 0 .. MaxAddresses
    /\ reading \in {0} \cup Readings

LEMMA StepsStep == StepsInv /\ [Next]_vars => StepsInv'
<1> SUFFICES ASSUME StepsInv, [Next]_vars PROVE StepsInv'
  OBVIOUS
<1>1. CASE ParseCmdParams
  BY <1>1 DEF ParseCmdParams, StepsInv, FirstSocket
<1>2. CASE TryUdpAddress \/ TryTcpAddress
  <2>1. UNCHANGED reading /\ untried > 0
    BY <1>2 DEF TryUdpAddress, TryTcpAddress
  <2>2. (\E fd : Fail(fd)) \/ (\E fd : Keep(fd))
    BY <1>2 DEF TryUdpAddress, TryTcpAddress
  <2>3. CASE \E fd : Fail(fd)
    BY <2>1, <2>3, BoundsAssumption DEF Fail, StepsInv
  <2>4. CASE \E fd : Keep(fd)
    BY <2>1, <2>4, BoundsAssumption DEF Keep, StepsInv, AfterSocket
  <2> QED BY <2>2, <2>3, <2>4
<1>3. CASE NoAddressLeft \/ CreateTimer \/ StartGame
  BY <1>3 DEF NoAddressLeft, CreateTimer, StartGame, SetIntervalTimer, StepsInv
<1>4. CASE UNCHANGED vars
  BY <1>4 DEF vars, StepsInv
<1> QED BY <1>1, <1>2, <1>3, <1>4 DEF Next

\* The types, and no value of a configuration is ever beyond its limits.
THEOREM TypeCorrect == Spec => []TypeOK
<1>1. Init => ConfigInv /\ StepsInv
  BY BoundsAssumption DEF Init, ConfigInv, Configured, StepsInv
<1>2. SocketsInv => fds \in [Socket -> 0 .. 4] /\ opened \subseteq 1 .. 4
  BY DEF SocketsInv, Socket, NoFd
<1>3. SocketsInv /\ ConfigInv /\ GeneratorInv /\ StepsInv => TypeOK
  <2> SUFFICES ASSUME SocketsInv, ConfigInv, GeneratorInv, StepsInv PROVE TypeOK
    OBVIOUS
  <2>1. \A name \in DOMAIN config :
          LET p == Parameters(commandLine.program)[name] IN
          p.test = "range" => config[name] \in p.min .. p.max
    BY DEF ConfigInv, WithinLimits
  <2> QED BY <1>2, <2>1 DEF GeneratorInv, StepsInv, TypeOK, Socket
<1> QED BY <1>1, <1>3, SocketsInit, SocketsStep, GeneratorInit, ConfigStep, GeneratorStep, StepsStep,
           PTL DEF Spec
=============================================================================
