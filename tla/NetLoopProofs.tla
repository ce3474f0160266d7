--------------------------- MODULE NetLoopProofs ----------------------------
(***************************************************************************)
(* NetLoop: one interface at a time, handlers of this command only, no     *)
(* wait without a timer, a success that stands, and rounds that try every  *)
(* interface, for any number of interfaces, whichever of them work or have *)
(* an address, and any time-outs and limits.                               *)
(***************************************************************************)
EXTENDS NetLoop, WellFoundedInduction, TLAPS

\* HandlerIsCurrent holds at the prompt and in a restart too.
HandlersOfCommand ==
    NetDevExists => /\ packetHandler \in {protocol, "ignore"}
                    /\ timeHandler \in {protocol, "again", "none"}

\* AlwaysTimed holds to the end of the pass.
TimerRuns == pc \in {"rx", "arp", "timer", "switch"} /\ NetState = "CONTINUE" => timeHandler # "none"

\* NetState is set anew at "restart".
RestartContinues == pc = "restart" => NetState = "CONTINUE"

\* The server answers only what was sent, and nothing is sent while ARP waits.
AnsweredMeansSent == server # "unknown" => ~arp.waiting

\* The file has arrived: its last block has just set the timer.
ArrivedIsFresh ==
    NetState = "SUCCESS" /\ protocol = "tftp" /\ NetDevExists /\ pc # "prompt" =>
        server = "last" /\ timeHandler = "tftp" /\ timeAge = 0

\* The inductive invariant.
IndInv ==
    /\ TypeOK
    /\ OnlyCurrentActive
    /\ HandlersOfCommand
    /\ TimerRuns
    /\ RestartContinues
    /\ AnsweredMeansSent
    /\ ArrivedIsFresh

\* NetStartAgain may begin anew, and not only end the command.
MayRetry == RetryForever \/ NetTryCount < retrycnt

\* d is on the way round the ring from a to b.
OnTheWay(a, d, b) == IF a <= b THEN a <= d /\ d <= b ELSE a <= d \/ d <= b

\* From the interface that failed first to the current one, all were tried.
TriedSinceFailure ==
    /\ eth.first_failed \in Working
    /\ \A d \in Devices : OnTheWay(eth.first_failed, d, eth.current) => d \in tried

\* The interface in use works and was tried; once NetStartAgain was called in this
\* command, so were those between the first that failed and this one.
RingInv ==
    /\ eth.active \subseteq Working
    /\ ~Rotate => ~eth.wrap
    /\ pc # "prompt" => eth.current \in Working /\ eth.current \in tried
    /\ Rotate /\ MayRetry =>
          /\ pc = "restart" /\ NetRestarted => TriedSinceFailure
          /\ /\ pc \in {"rx", "arp", "timer", "switch"}
             /\ ~NetDevExists \/ NetState = "RESTART" \/ timeHandler = "again" \/ NetRestarted
             => TriedSinceFailure
-----------------------------------------------------------------------------
(* The ring of interfaces. *)

Eth == [current: Devices, first_failed: Devices \cup {NULL}, wrap: BOOLEAN,
        active: SUBSET Devices]

\* eth_current->next, k times.
LEMMA AheadIs ==
    ASSUME NEW d \in Devices, NEW k \in 0..NumDevs
    PROVE  /\ Ahead(d, k) = IF d + k < NumDevs THEN d + k ELSE d + k - NumDevs
           /\ Ahead(d, k) \in Devices
BY NetLoopAssumption, SMT DEF Ahead, Devices

\* A set of numbers that is not empty has a least one.
LEMMA MinIs ==
    ASSUME NEW S \in SUBSET Nat, S # {}
    PROVE  Min(S) \in S /\ \A y \in S : Min(S) <= y
<1>1. PICK x \in S : \A y \in S : ~(<<y, x>> \in OpToRel(<, Nat))
  BY WFMin, NatLessThanWellFounded
<1>2. ASSUME NEW y \in S, y < x PROVE <<y, x>> \in OpToRel(<, Nat)
  <2>1. <<y, x>> \in Nat \X Nat /\ <<y, x>>[1] < <<y, x>>[2]
    BY <1>2
  <2> QED
    BY <2>1, Zenon DEF OpToRel
<1>3. \A y \in S : ~(y < x)
  BY <1>1, <1>2, Zenon
<1>4. \A y \in S : x <= y
  BY <1>3
<1> QED
  BY <1>4 DEF Min

\* eth_init passes over interfaces that do not come up, and stops at the first that
\* does: it finds one if there is one.
LEMMA StepsAre ==
    ASSUME NEW e \in Eth
    PROVE  /\ Steps(e) \in 0..NumDevs
           /\ ~Rotate => Steps(e) = 0
           /\ Rotate /\ Working # {} =>
                 /\ Steps(e) # NumDevs
                 /\ Ahead(e.current, Steps(e)) \in Working
                 /\ \A k \in 0..NumDevs : k < Steps(e) => Ahead(e.current, k) \notin Working
<1> DEFINE good == {k \in 0..NumDevs - 1 : Ahead(e.current, k) \in Working}
<1>1. CASE ~Rotate
  BY <1>1, NetLoopAssumption DEF Steps
<1>2. CASE Rotate /\ good = {}
  <2>1. ASSUME NEW w \in Working PROVE FALSE
    <3> DEFINE k == IF w >= e.current THEN w - e.current ELSE w - e.current + NumDevs
    <3>1. w \in Devices /\ e.current \in Devices
      BY NetLoopAssumption DEF Eth
    <3>2. k \in 0..NumDevs - 1 /\ k \in 0..NumDevs
      BY <3>1, NetLoopAssumption DEF Devices
    <3>3. Ahead(e.current, k) = w
      <4>1. Ahead(e.current, k) = IF e.current + k < NumDevs THEN e.current + k
                                  ELSE e.current + k - NumDevs
        BY <3>1, <3>2, AheadIs
      <4> QED
        BY <3>1, <4>1, NetLoopAssumption DEF Devices
    <3> QED
      BY <1>2, <3>2, <3>3
  <2>2. Steps(e) = NumDevs
    BY <1>2 DEF Steps
  <2> QED
    BY <1>2, <2>1, <2>2, NetLoopAssumption
<1>3. CASE Rotate /\ good # {}
  <2>1. Steps(e) = Min(good)
    BY <1>3 DEF Steps
  <2>2. Min(good) \in good /\ \A y \in good : Min(good) <= y
    <3>1. good \subseteq Nat
      BY NetLoopAssumption
    <3> QED
      BY <1>3, <3>1, MinIs
  <2> HIDE DEF good
  <2>3. Steps(e) \in 0..NumDevs - 1 /\ Ahead(e.current, Steps(e)) \in Working
    BY <2>1, <2>2 DEF good
  <2>4. ASSUME NEW k \in 0..NumDevs, k < Steps(e), Ahead(e.current, k) \in Working PROVE FALSE
    <3>1. k \in good
      BY <2>3, <2>4, NetLoopAssumption DEF good
    <3> QED
      BY <2>1, <2>2, <2>3, <2>4, <3>1, NetLoopAssumption
  <2> QED
    BY <1>3, <2>3, <2>4, NetLoopAssumption
<1> QED
  BY <1>1, <1>2, <1>3

\* The interfaces stay a ring with one current; only eth_init starts one.
LEMMA EthOperations ==
    ASSUME NEW e \in Eth
    PROVE  /\ EthHalt(e) \in Eth
           /\ EthHalt(e).current = e.current /\ EthHalt(e).first_failed = e.first_failed
           /\ EthHalt(e).wrap = e.wrap
           /\ EthHalt(e).active = e.active \ {e.current}
           /\ \A d \in Devices : /\ EthSetCurrent(e, d) \in Eth
                                 /\ EthSetCurrent(e, d).active = e.active
                                 /\ EthSetCurrent(e, d).current = d
                                 /\ EthSetCurrent(e, d).wrap = e.wrap
           /\ \A b \in BOOLEAN : /\ EthTryAnother(e, b) \in Eth
                                 /\ EthTryAnother(e, b).active = e.active
           /\ EthInit(e) \in Eth
           /\ EthInit(e).current = Ahead(e.current, Steps(e))
           /\ EthInit(e).first_failed = e.first_failed
           /\ EthInit(e).active = IF EthInit(e).current \in Working
                                  THEN e.active \cup {EthInit(e).current} ELSE e.active
           /\ [EthInit(e) EXCEPT !.wrap = FALSE] \in Eth
           /\ [EthInit(e) EXCEPT !.wrap = FALSE].active = EthInit(e).active
           /\ [EthInit(e) EXCEPT !.wrap = FALSE].current = EthInit(e).current
           /\ [EthInit(e) EXCEPT !.wrap = FALSE].first_failed = EthInit(e).first_failed
           /\ Visited(e) \subseteq Devices
<1>1. /\ EthHalt(e) \in Eth
      /\ EthHalt(e).current = e.current /\ EthHalt(e).first_failed = e.first_failed
      /\ EthHalt(e).wrap = e.wrap
      /\ EthHalt(e).active = e.active \ {e.current}
  BY DEF EthHalt, Eth
<1>2. ASSUME NEW d \in Devices
      PROVE  /\ EthSetCurrent(e, d) \in Eth
             /\ EthSetCurrent(e, d).active = e.active
             /\ EthSetCurrent(e, d).current = d
             /\ EthSetCurrent(e, d).wrap = e.wrap
  BY DEF EthSetCurrent, Eth
<1>3. ASSUME NEW b \in BOOLEAN
      PROVE  EthTryAnother(e, b) \in Eth /\ EthTryAnother(e, b).active = e.active
  <2>1. Ahead(e.current, 1) \in Devices
    BY AheadIs, NetLoopAssumption DEF Eth
  <2> QED
    BY <2>1 DEF EthTryAnother, Eth
<1>4. /\ EthInit(e) \in Eth
      /\ EthInit(e).current = Ahead(e.current, Steps(e))
      /\ EthInit(e).first_failed = e.first_failed
      /\ EthInit(e).active = IF EthInit(e).current \in Working
                             THEN e.active \cup {EthInit(e).current} ELSE e.active
  <2>1. Ahead(e.current, Steps(e)) \in Devices
    BY AheadIs, StepsAre DEF Eth
  <2> QED
    BY <2>1 DEF EthInit, Eth
<1>5. /\ [EthInit(e) EXCEPT !.wrap = FALSE] \in Eth
      /\ [EthInit(e) EXCEPT !.wrap = FALSE].active = EthInit(e).active
      /\ [EthInit(e) EXCEPT !.wrap = FALSE].current = EthInit(e).current
      /\ [EthInit(e) EXCEPT !.wrap = FALSE].first_failed = EthInit(e).first_failed
  BY <1>4 DEF Eth
<1>6. Visited(e) \subseteq Devices
  <2>1. ASSUME NEW k \in 0..Steps(e) PROVE Ahead(e.current, k) \in Devices
    BY <2>1, AheadIs, StepsAre, NetLoopAssumption DEF Eth
  <2> QED BY <2>1 DEF Visited
<1> QED
  BY <1>1, <1>2, <1>3, <1>4, <1>5, <1>6
-----------------------------------------------------------------------------
(* Starting again. *)

\* NetStartAgain halts the interface in use before it starts another, and either ends or
\* restarts the command or begins the wait for a new round, with its timer.
LEMMA StartAgain ==
    ASSUME TypeOK, OnlyCurrentActive, NEW handler, NetStartAgain(handler)
    PROVE  /\ eth' \in Eth /\ eth'.active \subseteq {eth'.current}
           /\ NetTryCount' \in 1..retrycnt + 1
           /\ tried' \subseteq Devices
           /\ \/ /\ NetState' \in {"FAIL", "RESTART"} /\ timeHandler' = handler
                 /\ UNCHANGED <<packetHandler, timeAge>>
              \/ /\ NetDevExists /\ NetState' = NetState
                 /\ timeHandler' = "again" /\ timeAge' = 0 /\ packetHandler' = "ignore"
<1> DEFINE halted == EthHalt(eth)
           other  == EthTryAnother(halted, ~NetRestarted)
           e      == EthInit(other)
<1>1. eth \in Eth /\ (~NetRestarted) \in BOOLEAN
  BY DEF TypeOK, Eth
<1>2. halted \in Eth /\ halted.active = {}
  BY <1>1, EthOperations DEF OnlyCurrentActive
<1>3. other \in Eth /\ other.active = {}
  BY <1>1, <1>2, EthOperations
<1>4. /\ [e EXCEPT !.wrap = FALSE] \in Eth
      /\ [e EXCEPT !.wrap = FALSE].active \subseteq {[e EXCEPT !.wrap = FALSE].current}
      /\ Visited(other) \subseteq Devices
  BY <1>3, EthOperations, ZenonT(30)
<1> HIDE DEF halted, other, e
<1>5. CASE /\ ~RetryForever /\ NetTryCount >= retrycnt
           /\ eth' = halted
           /\ NetState' = "FAIL"
           /\ timeHandler' = handler
           /\ UNCHANGED <<NetTryCount, packetHandler, timeAge, tried>>
  BY <1>2, <1>5 DEF TypeOK
<1>6. CASE /\ RetryForever \/ NetTryCount < retrycnt
           /\ CountTry
           /\ tried' = tried \cup Visited(other)
           /\ eth' = [e EXCEPT !.wrap = FALSE]
           /\ \/ /\ e.wrap /\ NetDevExists
                 /\ NetSetTimeout("again")
                 /\ NetSetHandler("ignore")
                 /\ UNCHANGED NetState
              \/ /\ e.wrap /\ ~NetDevExists
                 /\ NetState' = "FAIL"
                 /\ timeHandler' = handler
                 /\ UNCHANGED <<packetHandler, timeAge>>
              \/ /\ ~e.wrap
                 /\ NetState' = "RESTART"
                 /\ timeHandler' = handler
                 /\ UNCHANGED <<packetHandler, timeAge>>
  <2>1. NetTryCount' \in 1..retrycnt + 1
    BY <1>6, NetLoopAssumption DEF CountTry, TypeOK
  <2>2. tried' \subseteq Devices
    BY <1>4, <1>6 DEF TypeOK
  <2> QED
    BY <1>4, <1>6, <2>1, <2>2 DEF NetSetTimeout, NetSetHandler
<1> QED
  BY <1>5, <1>6 DEF NetStartAgain, halted, other, e

\* A command that began with one interface running at most begins with one.
LEMMA Chosen ==
    ASSUME TypeOK, OnlyCurrentActive, NEW d \in Devices
    PROVE  LET chosen == EthSetCurrent(EthHalt(eth), d)
               e      == EthInit(chosen)
           IN  /\ e \in Eth /\ e.active \subseteq {e.current}
               /\ Visited(chosen) \subseteq Devices
<1>1. eth \in Eth
  BY DEF TypeOK, Eth
<1>2. EthHalt(eth) \in Eth /\ EthHalt(eth).active = {}
  BY <1>1, EthOperations DEF OnlyCurrentActive
<1>3. EthSetCurrent(EthHalt(eth), d) \in Eth /\ EthSetCurrent(EthHalt(eth), d).active = {}
  BY <1>2, EthOperations
<1> QED
  BY <1>3, EthOperations

\* eth_halt, where a command ends.
LEMMA Halted ==
    ASSUME TypeOK, OnlyCurrentActive
    PROVE  /\ EthHalt(eth) \in Eth
           /\ EthHalt(eth).active \subseteq {EthHalt(eth).current}
<1>1. eth \in Eth
  BY DEF TypeOK, Eth
<1> QED
  BY <1>1, EthOperations DEF OnlyCurrentActive
-----------------------------------------------------------------------------
(* The steps of a pass. *)

Arp == [waiting: BOOLEAN, tries: 0..ARP_TIMEOUT_COUNT + 1, age: Nat]

\* Every step of the loop preserves the invariant.
LEMMA InductiveStep == IndInv /\ [Next]_vars => IndInv'
<1> SUFFICES ASSUME IndInv, [Next]_vars PROVE IndInv'
  OBVIOUS
<1> USE NetLoopAssumption
<1> USE DEF IndInv
<1>a. eth \in Eth
  BY DEF TypeOK, Eth
<1>b. /\ ARP_TIMEOUT_COUNT \in Nat /\ retrycnt \in Nat /\ MaxCommands \in Nat
      /\ TftpTimeoutMSecs \in Nat \ {0}
  OBVIOUS
<1>c. arp \in Arp
  BY DEF TypeOK, Arp
<1>w. ArpWait => arp' \in Arp
  BY <1>b DEF ArpWait, Arp
<1>1. CASE NetLoopBegin
  <2>1. PICK d \in Devices :
          LET chosen == EthSetCurrent(EthHalt(eth), d)
              e      == EthInit(chosen)
          IN  /\ eth' = e
              /\ pc' = IF e.current \in e.active THEN "restart" ELSE "prompt"
              /\ tried' = Visited(chosen)
    BY <1>1 DEF NetLoopBegin
  <2>2. /\ eth' \in Eth /\ eth'.active \subseteq {eth'.current} /\ tried' \subseteq Devices
        /\ pc' \in {"restart", "prompt"}
    BY <2>1, Chosen
  <2>3. arp' \in Arp /\ ~arp'.waiting
    BY <1>1, <1>c DEF NetLoopBegin, Arp
  <2>4. TypeOK'
    <3>1. addressed' \subseteq Addressed /\ commands' \in 0..MaxCommands /\ NetTryCount' \in 1..retrycnt + 1
      BY <1>1, <1>b DEF NetLoopBegin, TypeOK
    <3> QED
      BY <1>1, <2>2, <2>3, <3>1 DEF NetLoopBegin, TypeOK, Eth, Arp, timerVars
  <2>5. OnlyCurrentActive'
    BY <2>2 DEF OnlyCurrentActive
  <2>6. ~NetDevExists' /\ NetState' = "CONTINUE"
    BY <1>1 DEF NetLoopBegin
  <2> QED
    BY <2>2, <2>3, <2>4, <2>5, <2>6 DEF HandlersOfCommand, TimerRuns, RestartContinues,
       AnsweredMeansSent, ArrivedIsFresh
<1>2. CASE Restart
  <2> USE DEF Protocols
  <2>0. pc = "restart" /\ NetState = "CONTINUE" /\ UNCHANGED <<NetRestarted, protocol, commands, addressed>>
    BY <1>2 DEF Restart, RestartContinues
  <2>1. CASE /\ pc' = "prompt"
             /\ eth' = EthHalt(eth)
             /\ UNCHANGED <<NetState, NetTryCount, packetHandler, timerVars, arp, server,
                            TftpTimeoutCount, NetDevExists, tried>>
    <3>1. TypeOK' /\ OnlyCurrentActive'
      BY <2>0, <2>1, Halted DEF TypeOK, OnlyCurrentActive, Eth, timerVars
    <3> QED
      BY <2>0, <2>1, <3>1 DEF HandlersOfCommand, TimerRuns, RestartContinues,
         AnsweredMeansSent, ArrivedIsFresh, timerVars
  <2>2. CASE /\ pc' = "rx"
             /\ NetStartAgain(timeHandler)
             /\ UNCHANGED <<NetDevExists, server, TftpTimeoutCount, arp>>
    <3>1. TypeOK' /\ OnlyCurrentActive'
      BY <2>0, <2>2, StartAgain DEF TypeOK, OnlyCurrentActive, Eth
    <3> QED
      BY <2>0, <2>2, <3>1, StartAgain DEF HandlersOfCommand, TimerRuns, RestartContinues,
         AnsweredMeansSent, ArrivedIsFresh
  <2>3. CASE /\ pc' = "rx"
             /\ NetDevExists' = TRUE
             /\ server' = "unknown"
             /\ IF protocol = "tftp" THEN TftpStart ELSE PingStart
             /\ UNCHANGED <<eth, NetState, NetTryCount, tried>>
    <3>1. /\ timeHandler' = protocol /\ timeAge' = 0 /\ packetHandler' = protocol
          /\ TftpTimeoutCount' \in Nat
          /\ arp' \in Arp
      BY <1>w, <2>3 DEF TypeOK, TftpStart, PingStart, NetSetTimeout, NetSetHandler, PingSend
    <3>2. TypeOK' /\ OnlyCurrentActive'
      BY <2>0, <2>3, <3>1 DEF TypeOK, OnlyCurrentActive, Arp
    <3> QED
      BY <2>0, <2>3, <3>1, <3>2 DEF HandlersOfCommand, TimerRuns, RestartContinues,
         AnsweredMeansSent, ArrivedIsFresh, TypeOK
  <2> QED
    BY <1>2, <2>1, <2>2, <2>3 DEF Restart
<1>3. CASE EthRx
  <2>0. pc = "rx" /\ UNCHANGED <<pc, loopVars>>
    BY <1>3 DEF EthRx
  <2>1. CASE ReceiveArpReply
    <3>1. TypeOK' /\ ~arp'.waiting
      BY <2>0, <2>1 DEF ReceiveArpReply, TypeOK, loopVars, timerVars
    <3> QED
      BY <2>0, <2>1, <3>1 DEF ReceiveArpReply, loopVars, timerVars, OnlyCurrentActive,
         HandlersOfCommand, TimerRuns, RestartContinues, AnsweredMeansSent, ArrivedIsFresh
  <2>2. CASE TftpHandler
    <3>0. packetHandler = "tftp" /\ UNCHANGED <<arp, server, TftpTimeoutCount>>
      BY <2>2 DEF TftpHandler
    <3>1. CASE /\ server = "last"
               /\ LastBlock
               /\ UNCHANGED <<eth, NetTryCount, packetHandler, tried>>
      <4>1. TypeOK'
        BY <2>0, <3>0, <3>1 DEF LastBlock, NetSetTimeout, TypeOK, loopVars, Protocols
      <4> QED
        BY <2>0, <3>0, <3>1, <4>1 DEF LastBlock, NetSetTimeout, loopVars, OnlyCurrentActive,
           HandlersOfCommand, TimerRuns, RestartContinues, AnsweredMeansSent, ArrivedIsFresh
    <3>2. CASE /\ server = "final"
               /\ NetState' = "FAIL" /\ eth' = EthHalt(eth)
               /\ UNCHANGED <<NetTryCount, packetHandler, timerVars, tried>>
      <4>1. TypeOK' /\ OnlyCurrentActive'
        BY <2>0, <3>0, <3>2, Halted DEF TypeOK, OnlyCurrentActive, Eth, loopVars, timerVars
      <4> QED
        BY <2>0, <3>0, <3>2, <4>1 DEF loopVars, timerVars,
           HandlersOfCommand, TimerRuns, RestartContinues, AnsweredMeansSent, ArrivedIsFresh
    <3>3. CASE server = "again" /\ NetStartAgain(timeHandler)
      <4>1. TypeOK' /\ OnlyCurrentActive'
        BY <2>0, <3>0, <3>3, StartAgain DEF TypeOK, OnlyCurrentActive, Eth, loopVars
      <4> QED
        BY <2>0, <3>0, <3>3, <4>1, StartAgain DEF loopVars,
           HandlersOfCommand, TimerRuns, RestartContinues, AnsweredMeansSent, ArrivedIsFresh
    <3> QED
      BY <2>2, <3>1, <3>2, <3>3 DEF TftpHandler
  <2>3. CASE PingHandler
    <3>1. TypeOK'
      BY <2>0, <2>3 DEF PingHandler, TypeOK, loopVars, timerVars
    <3> QED
      BY <2>0, <2>3, <3>1 DEF PingHandler, loopVars, timerVars, OnlyCurrentActive,
         HandlersOfCommand, TimerRuns, RestartContinues, AnsweredMeansSent, ArrivedIsFresh
  <2> QED
    BY <1>3, <2>1, <2>2, <2>3 DEF EthRx
<1>4. CASE EthRxDone \/ NoTimeHandler
  <2>1. TypeOK'
    BY <1>4 DEF EthRxDone, NoTimeHandler, TypeOK, loopVars, timerVars
  <2> QED
    BY <1>4, <2>1 DEF EthRxDone, NoTimeHandler, loopVars, timerVars, OnlyCurrentActive,
       HandlersOfCommand, TimerRuns, RestartContinues, AnsweredMeansSent, ArrivedIsFresh
<1>5. CASE CtrlC
  <2>1. TypeOK' /\ OnlyCurrentActive'
    BY <1>5, Halted DEF CtrlC, TypeOK, OnlyCurrentActive, Eth, loopVars, timerVars
  <2> QED
    BY <1>5, <2>1 DEF CtrlC, loopVars, timerVars,
       HandlersOfCommand, TimerRuns, RestartContinues, AnsweredMeansSent, ArrivedIsFresh
<1>6. CASE ArpTimeoutCheck
  <2>0. pc = "arp" /\ pc' = "timer" /\ UNCHANGED <<server, TftpTimeoutCount, loopVars>>
    BY <1>6 DEF ArpTimeoutCheck
  <2>1. CASE UNCHANGED <<eth, NetState, NetTryCount, packetHandler, timerVars, arp, tried>>
    <3>1. TypeOK'
      BY <2>0, <2>1 DEF TypeOK, loopVars, timerVars
    <3> QED
      BY <2>0, <2>1, <3>1 DEF loopVars, timerVars, OnlyCurrentActive,
         HandlersOfCommand, TimerRuns, RestartContinues, AnsweredMeansSent, ArrivedIsFresh
  <2>2. CASE /\ ArpExpired /\ arp' = [arp EXCEPT !.tries = 0]
             /\ NetStartAgain(timeHandler)
    <3>1. TypeOK' /\ OnlyCurrentActive' /\ arp.waiting /\ arp'.waiting
      BY <2>0, <2>2, StartAgain DEF TypeOK, OnlyCurrentActive, Eth, loopVars, ArpExpired
    <3> QED
      BY <2>0, <2>2, <3>1, StartAgain DEF loopVars,
         HandlersOfCommand, TimerRuns, RestartContinues, AnsweredMeansSent, ArrivedIsFresh
  <2>3. CASE /\ ArpExpired /\ arp.tries + 1 < ARP_TIMEOUT_COUNT
             /\ arp' = [arp EXCEPT !.tries = @ + 1, !.age = 0]
             /\ UNCHANGED <<eth, NetState, NetTryCount, packetHandler, timerVars, tried>>
    <3>0. arp' \in Arp
      <4>1. arp.tries + 1 \in 0..ARP_TIMEOUT_COUNT + 1
        BY <1>b, <1>c, <2>3 DEF Arp
      <4>2. arp' = [arp EXCEPT !.tries = arp.tries + 1, !.age = 0]
        BY <1>c, <2>3 DEF Arp
      <4>3. arp' = [waiting |-> arp.waiting, tries |-> arp.tries + 1, age |-> 0]
        BY <1>c, <4>2 DEF Arp
      <4> QED
        BY <1>c, <4>1, <4>3 DEF Arp
    <3>1. TypeOK' /\ arp.waiting
      BY <2>0, <2>3, <3>0 DEF TypeOK, loopVars, timerVars, ArpExpired, Arp
    <3> QED
      BY <2>0, <2>3, <3>1 DEF loopVars, timerVars, OnlyCurrentActive,
         HandlersOfCommand, TimerRuns, RestartContinues, AnsweredMeansSent, ArrivedIsFresh
  <2> QED
    BY <1>6, <2>1, <2>2, <2>3 DEF ArpTimeoutCheck
<1>7. CASE TimeHandler
  <2>0. pc = "timer" /\ pc' = "switch" /\ TimerExpired /\ UNCHANGED <<server, loopVars>>
    BY <1>7 DEF TimeHandler
  <2>f. timeHandler = "tftp" /\ timeAge = 0 => FALSE
    <3>1. timeHandler = "tftp" => timeDelta = TftpTimeoutMSecs
      BY Zenon DEF timeDelta
    <3> QED
      BY <2>0, <3>1 DEF TimerExpired
  <2>1. CASE TftpTimeout
    <3>0. /\ timeHandler = "tftp" /\ TftpTimeoutCount' \in Nat
          /\ arp' \in Arp
          /\ server # "unknown" => arp' = arp
      BY <1>c, <1>w, <2>1 DEF TftpTimeout, TypeOK
    <3>1. CASE NetStartAgain("none")
      <4>1. TypeOK' /\ OnlyCurrentActive'
        BY <2>0, <3>0, <3>1, StartAgain DEF TypeOK, OnlyCurrentActive, Eth, Arp, loopVars
      <4> QED
        BY <2>0, <2>f, <3>0, <3>1, <4>1, StartAgain DEF loopVars,
           HandlersOfCommand, TimerRuns, RestartContinues, AnsweredMeansSent, ArrivedIsFresh
    <3>2. CASE NetSetTimeout("tftp") /\ UNCHANGED <<eth, NetState, NetTryCount, packetHandler, tried>>
      <4>1. TypeOK'
        BY <2>0, <3>0, <3>2 DEF TypeOK, loopVars, NetSetTimeout, Protocols, Arp
      <4> QED
        BY <2>0, <2>f, <3>0, <3>2, <4>1 DEF loopVars, NetSetTimeout, OnlyCurrentActive,
           HandlersOfCommand, TimerRuns, RestartContinues, AnsweredMeansSent, ArrivedIsFresh
    <3> QED
      BY <2>1, <3>1, <3>2 DEF TftpTimeout
  <2>2. CASE PingTimeout
    <3>1. TypeOK' /\ OnlyCurrentActive'
      BY <2>0, <2>2, Halted DEF PingTimeout, TypeOK, OnlyCurrentActive, Eth, loopVars
    <3> QED
      BY <2>0, <2>2, <3>1 DEF PingTimeout, loopVars,
         HandlersOfCommand, TimerRuns, RestartContinues, AnsweredMeansSent, ArrivedIsFresh
  <2>3. CASE StartAgainTimeout
    <3>1. TypeOK'
      BY <2>0, <2>3 DEF StartAgainTimeout, TypeOK, loopVars
    <3> QED
      BY <2>0, <2>3, <3>1 DEF StartAgainTimeout, loopVars, OnlyCurrentActive,
         HandlersOfCommand, TimerRuns, RestartContinues, AnsweredMeansSent, ArrivedIsFresh
  <2> QED
    BY <1>7, <2>1, <2>2, <2>3 DEF TimeHandler
<1>8. CASE Switch
  <2>1. eth' \in {eth, EthHalt(eth)}
    BY <1>8 DEF Switch
  <2>2. eth' \in Eth /\ OnlyCurrentActive'
    BY <1>a, <2>1, Halted DEF OnlyCurrentActive
  <2>3. TypeOK'
    BY <1>8, <2>2 DEF Switch, TypeOK, Eth, timerVars
  <2> QED
    BY <1>8, <2>2, <2>3 DEF Switch, timerVars,
       HandlersOfCommand, TimerRuns, RestartContinues, AnsweredMeansSent, ArrivedIsFresh
<1>9. CASE Tick
  <2>1. TypeOK' /\ arp'.waiting = arp.waiting
    BY <1>9 DEF Tick, TypeOK, loopVars
  <2> QED
    BY <1>9, <2>1 DEF Tick, loopVars, OnlyCurrentActive,
       HandlersOfCommand, TimerRuns, RestartContinues, AnsweredMeansSent, ArrivedIsFresh
<1>10. CASE UNCHANGED vars
  <2>1. TypeOK'
    BY <1>10 DEF vars, TypeOK, loopVars, timerVars
  <2> QED
    BY <1>10, <2>1 DEF vars, loopVars, timerVars, OnlyCurrentActive,
       HandlersOfCommand, TimerRuns, RestartContinues, AnsweredMeansSent, ArrivedIsFresh
<1> QED
  BY <1>1, <1>2, <1>3, <1>4, <1>5, <1>6, <1>7, <1>8, <1>9, <1>10 DEF Next

\* NetLoop of the first command finds it.
LEMMA Inductive == Spec => []IndInv
<1>1. Init => IndInv
  <2> SUFFICES ASSUME Init PROVE IndInv
    OBVIOUS
  <2>0. /\ 0 \in Devices /\ NULL \in Devices \cup {NULL} /\ 1 \in 1..retrycnt + 1
        /\ 0 \in 0..ARP_TIMEOUT_COUNT + 1 /\ 0 \in 0..MaxCommands
    BY NetLoopAssumption DEF Devices
  <2>1. TypeOK
    BY <2>0 DEF Init, TypeOK, Protocols
  <2> QED
    BY <2>1 DEF Init, IndInv, OnlyCurrentActive, HandlersOfCommand, TimerRuns,
       RestartContinues, AnsweredMeansSent, ArrivedIsFresh
<1> QED
  BY <1>1, InductiveStep, PTL DEF Spec
-----------------------------------------------------------------------------
(* What the loop achieves. *)

\* Types: the current interface exists, and neither NetTryCount nor the ARP retries pass
\* their limits, even where several of them are counted in one pass.
THEOREM TypeCorrect == Spec => []TypeOK
BY Inductive, PTL DEF IndInv

\* eth_halt always comes before eth_init: two interfaces never run at once.
THEOREM OneInterface == Spec => []OnlyCurrentActive
BY Inductive, PTL DEF IndInv

\* Once the protocol of this command was started no handler of an earlier command is
\* called by NetReceive or by the timer.
THEOREM Handlers == Spec => []HandlerIsCurrent
<1>1. IndInv => HandlerIsCurrent
  BY DEF IndInv, HandlersOfCommand, HandlerIsCurrent
<1> QED
  BY <1>1, Inductive, PTL

\* The loop never waits without a timer: what takes timeHandler off sets it anew or ends
\* the pass with a NetState that leaves the loop.
THEOREM Timed == Spec => []AlwaysTimed
<1>1. IndInv => AlwaysTimed
  BY DEF IndInv, TimerRuns, AlwaysTimed
<1> QED
  BY <1>1, Inductive, PTL

\* A file that has arrived is not asked for again, whatever else the pass in which it
\* arrived still handles.
THEOREM Stands == Spec => SuccessStands
<1> DEFINE Arrived == NetState = "SUCCESS" /\ protocol = "tftp" /\ NetDevExists /\ pc # "prompt"
<1>1. IndInv /\ [Next]_vars => (Arrived => NetState' = NetState)
  <2> SUFFICES ASSUME IndInv, [Next]_vars, Arrived PROVE NetState' = NetState
    OBVIOUS
  <2>0. /\ server = "last" /\ timeHandler = "tftp" /\ timeAge = 0 /\ ~arp.waiting
        /\ packetHandler \in {"tftp", "ignore"}
        /\ pc \notin {"prompt", "restart"}
    BY DEF IndInv, ArrivedIsFresh, AnsweredMeansSent, HandlersOfCommand, RestartContinues
  <2>1. ~TimerExpired
    <3>1. timeHandler = "tftp" => timeDelta = TftpTimeoutMSecs
      BY Zenon DEF timeDelta
    <3> QED
      BY <2>0, <3>1, NetLoopAssumption DEF TimerExpired
  <2>2. ~ArpExpired
    BY <2>0 DEF ArpExpired
  <2>3. CASE EthRx
    BY <2>0, <2>3 DEF EthRx, ReceiveArpReply, TftpHandler, PingHandler, LastBlock
  <2>4. CASE ArpTimeoutCheck
    BY <2>2, <2>4 DEF ArpTimeoutCheck
  <2>5. CASE Switch
    BY <2>5 DEF Switch
  <2> QED
    BY <2>0, <2>1, <2>3, <2>4, <2>5 DEF Next, NetLoopBegin, Restart, EthRxDone, CtrlC,
       TimeHandler, NoTimeHandler, Tick, vars
<1> QED
  BY <1>1, Inductive, PTL DEF Spec, SuccessStands
-----------------------------------------------------------------------------
(* The rounds. *)

\* What eth_init tries is the way from the current interface to the one it stops at, and
\* only that one works.
LEMMA VisitedIs ==
    ASSUME NEW e \in Eth, Rotate, Working # {}
    PROVE  LET last == EthInit(e).current
           IN  /\ last \in Working /\ last \in Devices
               /\ \A d \in Devices : d \in Visited(e) <=> OnTheWay(e.current, d, last)
               /\ \A d \in Visited(e) : d \in Working => d = last
               /\ EthInit(e).wrap => e.wrap \/ e.first_failed \in Visited(e)
<1> DEFINE c == e.current
           s == Steps(e)
           last == EthInit(e).current
<1>1. /\ c \in 0..NumDevs - 1 /\ s \in 0..NumDevs - 1 /\ s \in 0..NumDevs
      /\ last = Ahead(c, s) /\ last \in Working /\ last \in Devices
      /\ \A k \in 0..NumDevs : k < s => Ahead(c, k) \notin Working
  <2>1. /\ s \in 0..NumDevs /\ s # NumDevs /\ Ahead(c, s) \in Working
        /\ \A k \in 0..NumDevs : k < s => Ahead(c, k) \notin Working
    BY StepsAre
  <2>2. last = Ahead(c, s)
    BY DEF EthInit, Eth
  <2>3. c \in Devices
    BY DEF Eth
  <2> HIDE DEF c, s, last
  <2>4. c \in 0..NumDevs - 1 /\ s \in 0..NumDevs - 1
    BY <2>1, <2>3, NetLoopAssumption DEF Devices
  <2>5. last \in Working /\ last \in Devices
    BY <2>1, <2>2, NetLoopAssumption
  <2> QED
    BY <2>1, <2>2, <2>4, <2>5
<1>2. last = IF c + s < NumDevs THEN c + s ELSE c + s - NumDevs
  BY <1>1, AheadIs DEF Devices
<1>3. Visited(e) = {Ahead(c, k) : k \in 0..s}
  BY DEF Visited
<1>w. EthInit(e).wrap => e.wrap \/ e.first_failed \in Visited(e)
  <2>1. EthInit(e).wrap = (e.wrap \/ e.first_failed \in {Ahead(c, k) : k \in 1..s})
    BY DEF EthInit, Eth
  <2>2. {Ahead(c, k) : k \in 1..s} \subseteq Visited(e)
    BY <1>1, <1>3
  <2> QED BY <2>1, <2>2
<1> HIDE DEF c, s, last
<1>4. ASSUME NEW d \in Devices, d \in Visited(e) PROVE OnTheWay(c, d, last)
  <2>1. PICK k \in 0..s : d = Ahead(c, k)
    BY <1>3, <1>4
  <2>2. k \in 0..NumDevs /\ k \in Int
    BY <1>1, NetLoopAssumption
  <2>3. d = IF c + k < NumDevs THEN c + k ELSE c + k - NumDevs
    BY <1>1, <2>1, <2>2, AheadIs DEF Devices
  <2> QED
    BY <1>1, <1>2, <2>1, <2>3, NetLoopAssumption DEF OnTheWay
<1>5. ASSUME NEW d \in Devices, OnTheWay(c, d, last) PROVE d \in Visited(e)
  <2> DEFINE k == IF d >= c THEN d - c ELSE d - c + NumDevs
  <2>1. k \in 0..s /\ k \in 0..NumDevs
    BY <1>1, <1>2, <1>5, NetLoopAssumption DEF OnTheWay, Devices
  <2>2. Ahead(c, k) = IF c + k < NumDevs THEN c + k ELSE c + k - NumDevs
    BY <1>1, <2>1, AheadIs DEF Devices
  <2>3. d = Ahead(c, k)
    BY <1>1, <2>2, NetLoopAssumption DEF Devices
  <2> QED
    BY <1>3, <2>1, <2>3
<1>6. ASSUME NEW d \in Visited(e), d \in Working PROVE d = last
  <2>1. PICK k \in 0..s : d = Ahead(c, k)
    BY <1>3
  <2>2. k \in 0..NumDevs /\ (k < s \/ k = s)
    BY <1>1, NetLoopAssumption
  <2> QED
    BY <1>1, <1>6, <2>1, <2>2
<1> QED
  BY <1>1, <1>4, <1>5, <1>6, <1>w DEF c, last

\* NetStartAgain moves on along the ring: all from the first that failed to the new
\* current one are tried, and all there are if it comes round.
LEMMA MovesOn ==
    ASSUME IndInv, RingInv, Rotate, MayRetry, pc # "prompt",
           NetRestarted => TriedSinceFailure, NEW handler, NetStartAgain(handler)
    PROVE  /\ TriedSinceFailure'
           /\ eth'.current \in Working /\ eth'.current \in tried'
           /\ ~eth.wrap /\ timeHandler' = "again" /\ handler # "again" => tried' = Devices
<1> DEFINE c     == eth.current
           other == EthTryAnother(EthHalt(eth), ~NetRestarted)
           e     == EthInit(other)
           f     == other.first_failed
           last  == e.current
<1>0. eth \in Eth /\ NetRestarted \in BOOLEAN
  BY DEF IndInv, TypeOK, Eth
<1>1. c \in Devices /\ c \in Working /\ c \in tried
  BY <1>0 DEF RingInv, Eth
<1>2. /\ other \in Eth
      /\ other.current = Ahead(c, 1)
      /\ f = IF NetRestarted THEN eth.first_failed ELSE c
      /\ other.wrap => eth.wrap \/ other.current = f
  <2>1. Ahead(c, 1) \in Devices
    BY <1>1, AheadIs, NetLoopAssumption
  <2>2. /\ EthHalt(eth) \in Eth /\ EthHalt(eth).current = c /\ EthHalt(eth).wrap = eth.wrap
        /\ EthHalt(eth).first_failed = eth.first_failed
    BY <1>0, EthOperations
  <2> HIDE DEF c
  <2> QED
    BY <1>0, <2>1, <2>2 DEF EthTryAnother, Eth
<1>3. f \in Working /\ f \in Devices /\ \A d \in Devices : OnTheWay(f, d, c) => d \in tried
  <2>1. CASE NetRestarted
    BY <1>2, <2>1, NetLoopAssumption DEF TriedSinceFailure
  <2>2. CASE ~NetRestarted
    <3>1. f = c
      BY <1>2, <2>2
    <3>2. \A d \in Devices : OnTheWay(c, d, c) => d = c
      BY <1>1, NetLoopAssumption DEF OnTheWay, Devices
    <3> QED
      BY <1>1, <3>1, <3>2
  <2> QED BY <2>1, <2>2
<1>4. /\ last \in Working /\ last \in Devices
      /\ \A d \in Devices : d \in Visited(other) <=> OnTheWay(other.current, d, last)
      /\ \A d \in Visited(other) : d \in Working => d = last
      /\ e.wrap => other.wrap \/ f \in Visited(other)
  BY <1>1, <1>2, VisitedIs
<1>5. /\ tried' = tried \cup Visited(other)
      /\ eth' = [e EXCEPT !.wrap = FALSE]
      /\ timeHandler' = "again" /\ handler # "again" => e.wrap
  <2>1. ~(~RetryForever /\ NetTryCount >= retrycnt)
    BY NetLoopAssumption DEF MayRetry, IndInv, TypeOK
  <2> QED
    BY <2>1, Zenon DEF NetStartAgain
<1>6. eth'.current = last /\ eth'.first_failed = f
  BY <1>2, <1>5, EthOperations
<1>7. other.current = IF c + 1 < NumDevs THEN c + 1 ELSE 0
  <2>1. other.current = IF c + 1 < NumDevs THEN c + 1 ELSE c + 1 - NumDevs
    BY <1>1, <1>2, AheadIs, NetLoopAssumption
  <2> QED
    BY <1>1, <2>1, NetLoopAssumption DEF Devices
<1> HIDE DEF c, other, e, f, last
<1>8. CASE f \in Visited(other)
  <2>1. f = last
    BY <1>3, <1>4, <1>8
  <2>2. ASSUME NEW d \in Devices PROVE OnTheWay(f, d, c) \/ OnTheWay(other.current, d, last)
    BY <1>1, <1>3, <1>7, <2>1, NetLoopAssumption DEF OnTheWay, Devices
  <2>3. Devices \subseteq tried'
    BY <1>3, <1>4, <1>5, <2>2
  <2>4. tried' = Devices
    <3>1. Visited(other) \subseteq Devices
      BY <1>2, EthOperations
    <3> QED
      BY <1>5, <2>3, <3>1 DEF IndInv, TypeOK
  <2> QED
    BY <1>3, <1>4, <1>6, <2>4 DEF TriedSinceFailure
<1>9. CASE f \notin Visited(other)
  <2>0. ~OnTheWay(other.current, f, last)
    BY <1>3, <1>4, <1>9
  <2>1. ASSUME NEW d \in Devices, OnTheWay(f, d, last)
        PROVE  OnTheWay(f, d, c) \/ OnTheWay(other.current, d, last)
    BY <1>1, <1>3, <1>4, <1>7, <2>0, <2>1, NetLoopAssumption DEF OnTheWay, Devices
  <2>2. TriedSinceFailure'
    BY <1>3, <1>4, <1>5, <1>6, <2>1 DEF TriedSinceFailure
  <2>3. last \in tried'
    <3>1. OnTheWay(other.current, last, last)
      BY <1>4, <1>7, NetLoopAssumption DEF OnTheWay, Devices
    <3> QED
      BY <1>4, <1>5, <3>1
  <2>4. other.current \in Visited(other)
    <3>1. OnTheWay(other.current, other.current, last)
      BY <1>1, <1>4, <1>7, NetLoopAssumption DEF OnTheWay, Devices
    <3>2. other.current \in Devices
      BY <1>2 DEF Eth
    <3> QED
      BY <1>4, <3>1, <3>2
  <2>5. ~eth.wrap => ~e.wrap
    BY <1>2, <1>4, <1>9, <2>4
  <2> QED
    BY <1>4, <1>5, <1>6, <2>2, <2>3, <2>5
<1> QED
  BY <1>8, <1>9

\* NetStartAgain, with ethrotate or without it.
LEMMA StartAgainRing ==
    ASSUME IndInv, RingInv, pc # "prompt", NEW handler, NetStartAgain(handler)
    PROVE  /\ eth'.active \subseteq Working
           /\ ~Rotate => ~eth'.wrap
           /\ eth'.current \in Working /\ eth'.current \in tried'
           /\ Rotate /\ MayRetry' => TriedSinceFailure'
           /\ ~eth.wrap /\ timeHandler' = "again" /\ handler # "again" => tried' = Devices
<1> DEFINE halted == EthHalt(eth)
           other  == EthTryAnother(halted, ~NetRestarted)
           e      == EthInit(other)
<1>0. /\ eth \in Eth /\ (~NetRestarted) \in BOOLEAN /\ NetTryCount \in Nat /\ retrycnt \in Nat
      /\ pc \in {"restart", "rx", "arp", "timer", "switch"}
  BY NetLoopAssumption DEF IndInv, TypeOK, Eth
<1>1. /\ halted \in Eth /\ halted.active \subseteq Working /\ halted.wrap = eth.wrap
      /\ halted.current = eth.current
  <2>1. /\ halted \in Eth /\ halted.active = eth.active \ {eth.current}
        /\ halted.wrap = eth.wrap /\ halted.current = eth.current
    BY <1>0, EthOperations
  <2>2. eth.active \subseteq Working
    BY DEF RingInv
  <2> HIDE DEF halted
  <2> QED
    BY <2>1, <2>2
<1>2. other \in Eth /\ other.active = halted.active
  BY <1>0, <1>1, EthOperations
<1>3. CASE ~MayRetry
  <2>1. /\ eth' = halted /\ timeHandler' = handler
        /\ NetTryCount' = NetTryCount /\ tried' = tried
    <3>1. ~(RetryForever \/ NetTryCount < retrycnt)
      BY <1>3 DEF MayRetry
    <3> QED
      BY <3>1, Zenon DEF NetStartAgain
  <2>2. ~MayRetry'
    BY <1>3, <2>1 DEF MayRetry
  <2> HIDE DEF halted
  <2> QED
    BY <1>0, <1>1, <2>1, <2>2 DEF RingInv
<1>4. CASE MayRetry
  <2>1. /\ tried' = tried \cup Visited(other)
        /\ eth' = [e EXCEPT !.wrap = FALSE]
        /\ timeHandler' = "again" /\ handler # "again" => e.wrap
    <3>1. ~(~RetryForever /\ NetTryCount >= retrycnt)
      BY <1>0, <1>4 DEF MayRetry
    <3> QED
      BY <3>1, Zenon DEF NetStartAgain
  <2>2. eth'.active \subseteq Working /\ eth'.current = e.current /\ ~eth'.wrap
    <3>1. e \in Eth /\ e.active \subseteq Working
      <4> HIDE DEF halted, other
      <4>1. /\ e \in Eth
            /\ e.active = IF e.current \in Working THEN other.active \cup {e.current}
                          ELSE other.active
        BY <1>2, EthOperations
      <4> HIDE DEF e
      <4> QED
        BY <1>1, <1>2, <4>1
    <3> HIDE DEF e
    <3> QED
      BY <2>1, <3>1 DEF Eth
  <2>3. CASE Rotate
    <3>1. NetRestarted => TriedSinceFailure
      BY <1>0, <1>4, <2>3 DEF RingInv
    <3> QED
      BY <1>4, <2>2, <2>3, <3>1, MovesOn
  <2>4. CASE ~Rotate
    <3>1. other = halted
      BY <2>4 DEF EthTryAnother
    <3>2. Steps(other) = 0
      BY <1>2, <2>4, StepsAre
    <3>3. e.current = eth.current
      <4>1. e.current = Ahead(eth.current, 0)
        <5> HIDE DEF halted, other
        <5>1. e.current = Ahead(other.current, Steps(other))
          BY <1>2, EthOperations
        <5> HIDE DEF e
        <5> QED
          BY <1>1, <3>1, <3>2, <5>1
      <4>2. eth.current \in Devices
        BY <1>0 DEF Eth
      <4> QED
        BY <4>1, <4>2, AheadIs, NetLoopAssumption DEF Devices
    <3>4. e.wrap = eth.wrap
      <4>1. e.wrap = (other.wrap \/ other.first_failed \in {Ahead(other.current, k) : k \in 1..Steps(other)})
        BY <1>2 DEF EthInit, Eth
      <4>2. {Ahead(other.current, k) : k \in 1..Steps(other)} = {}
        BY <3>2
      <4> HIDE DEF halted, e
      <4> QED
        BY <1>0, <1>1, <3>1, <4>1, <4>2 DEF Eth
    <3> HIDE DEF halted, other, e
    <3> QED
      BY <1>0, <2>1, <2>2, <2>4, <3>3, <3>4 DEF RingInv
  <2> QED
    BY <2>3, <2>4
<1> QED
  BY <1>3, <1>4

\* A command begins with an interface that came up.
LEMMA BeginRing ==
    ASSUME IndInv, RingInv, NEW d \in Devices
    PROVE  LET chosen == EthSetCurrent(EthHalt(eth), d)
               e      == EthInit(chosen)
           IN  /\ e.active \subseteq Working
               /\ ~Rotate => ~e.wrap
               /\ e.current \in Visited(chosen)
<1> DEFINE halted == EthHalt(eth)
           chosen == EthSetCurrent(halted, d)
           e      == EthInit(chosen)
<1>0. eth \in Eth
  BY DEF IndInv, TypeOK, Eth
<1>1. halted \in Eth /\ halted.active \subseteq Working /\ halted.wrap = eth.wrap
  <2>1. /\ halted \in Eth /\ halted.active = eth.active \ {eth.current}
        /\ halted.wrap = eth.wrap
    BY <1>0, EthOperations
  <2>2. eth.active \subseteq Working
    BY DEF RingInv
  <2> HIDE DEF halted
  <2> QED
    BY <2>1, <2>2
<1> HIDE DEF halted
<1>2. chosen \in Eth /\ chosen.active \subseteq Working /\ chosen.wrap = eth.wrap
  <2>1. chosen \in Eth /\ chosen.active = halted.active /\ chosen.wrap = halted.wrap
    BY <1>1 DEF EthSetCurrent, Eth
  <2> HIDE DEF chosen
  <2> QED
    BY <1>1, <2>1
<1> HIDE DEF chosen
<1>3. e.active \subseteq Working /\ e.current = Ahead(chosen.current, Steps(chosen))
  <2>1. /\ e.current = Ahead(chosen.current, Steps(chosen))
        /\ e.active = IF e.current \in Working THEN chosen.active \cup {e.current}
                      ELSE chosen.active
    BY <1>2, EthOperations
  <2> HIDE DEF e
  <2> QED
    BY <1>2, <2>1
<1>4. e.current \in Visited(chosen)
  <2>1. Steps(chosen) \in 0..Steps(chosen)
    BY <1>2, StepsAre, NetLoopAssumption
  <2> QED
    BY <1>3, <2>1 DEF Visited
<1>5. ~Rotate => ~e.wrap
  <2>1. e.wrap = (chosen.wrap \/ chosen.first_failed \in {Ahead(chosen.current, k) : k \in 1..Steps(chosen)})
    BY <1>2 DEF EthInit, Eth
  <2>2. ~Rotate => {Ahead(chosen.current, k) : k \in 1..Steps(chosen)} = {}
    BY <1>2, StepsAre
  <2> QED
    BY <1>2, <2>1, <2>2 DEF RingInv
<1> QED
  BY <1>3, <1>4, <1>5 DEF chosen, halted

\* What the rounds rest on holds throughout.
LEMMA RingStep == IndInv /\ RingInv /\ [Next]_vars => RingInv'
<1> SUFFICES ASSUME IndInv, RingInv, [Next]_vars PROVE RingInv'
  OBVIOUS
<1>0. /\ eth \in Eth
      /\ EthHalt(eth).current = eth.current /\ EthHalt(eth).active \subseteq eth.active
      /\ EthHalt(eth).wrap = eth.wrap /\ EthHalt(eth).first_failed = eth.first_failed
  <2>1. eth \in Eth
    BY DEF IndInv, TypeOK, Eth
  <2> QED
    BY <2>1, EthOperations
\* What a step that starts nothing again leaves of it.
<1> DEFINE Kept == /\ eth' \in {eth, EthHalt(eth)}
                   /\ UNCHANGED <<NetTryCount, tried>>
<1>k. Kept => /\ eth'.active \subseteq Working /\ (~Rotate => ~eth'.wrap)
              /\ pc # "prompt" => eth'.current \in Working /\ eth'.current \in tried'
              /\ MayRetry' = MayRetry /\ TriedSinceFailure' = TriedSinceFailure
  BY <1>0 DEF RingInv, MayRetry, TriedSinceFailure
<1> HIDE DEF Kept
<1>1. CASE NetLoopBegin
  <2>1. PICK d \in Devices :
          LET chosen == EthSetCurrent(EthHalt(eth), d)
              e      == EthInit(chosen)
          IN  /\ eth' = e
              /\ pc' = IF e.current \in e.active THEN "restart" ELSE "prompt"
              /\ tried' = Visited(chosen)
    BY <1>1 DEF NetLoopBegin
  <2>2. /\ eth'.active \subseteq Working /\ (~Rotate => ~eth'.wrap)
        /\ eth'.current \in tried' /\ pc' \in {"prompt", "restart"}
        /\ pc' = "restart" => eth'.current \in eth'.active
    BY <2>1, BeginRing
  <2>3. NetRestarted' = FALSE
    BY <1>1 DEF NetLoopBegin
  <2> QED
    BY <2>2, <2>3 DEF RingInv
<1>2. CASE \E handler : pc # "prompt" /\ NetStartAgain(handler)
  BY <1>2, StartAgainRing DEF RingInv
<1>3. CASE Restart /\ ~\E handler : pc # "prompt" /\ NetStartAgain(handler)
  <2>1. CASE pc' = "prompt"
    <3>1. Kept
      BY <1>3, <2>1 DEF Restart, Kept
    <3> QED
      BY <1>k, <2>1, <3>1 DEF RingInv
  <2>2. CASE pc' # "prompt"
    <3>1. /\ Kept /\ pc = "restart" /\ NetDevExists' /\ NetRestarted' = NetRestarted
          /\ NetState' = NetState /\ timeHandler' # "again"
      BY <1>3, <2>2 DEF Restart, Kept, TftpStart, PingStart, NetSetTimeout
    <3>2. NetState = "CONTINUE"
      BY <3>1 DEF IndInv, RestartContinues
    <3> QED
      BY <1>k, <2>2, <3>1, <3>2 DEF RingInv
  <2> QED
    BY <2>1, <2>2
<1>4. CASE EthRx /\ ~\E handler : pc # "prompt" /\ NetStartAgain(handler)
  <2>1. /\ Kept /\ pc = "rx" /\ pc' = "rx"
        /\ NetDevExists' = NetDevExists /\ NetRestarted' = NetRestarted
        /\ NetState' = NetState \/ NetState' # "RESTART"
        /\ timeHandler' = timeHandler \/ timeHandler' # "again"
    BY <1>4 DEF EthRx, ReceiveArpReply, TftpHandler, PingHandler, LastBlock, NetSetTimeout,
       timerVars, loopVars, Kept
  <2> QED
    BY <1>k, <2>1 DEF RingInv
<1>5. CASE CtrlC
  <2>1. Kept /\ pc' = "prompt"
    BY <1>5 DEF CtrlC, Kept
  <2> QED
    BY <1>k, <2>1 DEF RingInv
<1>6. CASE \/ EthRxDone \/ NoTimeHandler \/ Tick \/ UNCHANGED vars
           \/ ArpTimeoutCheck /\ ~\E handler : pc # "prompt" /\ NetStartAgain(handler)
  <2>1. /\ Kept /\ eth' = eth
        /\ pc' = pc \/ (pc \in {"rx", "arp", "timer"} /\ pc' \in {"arp", "timer", "switch"})
        /\ UNCHANGED <<NetDevExists, NetRestarted, NetState, timeHandler>>
    BY <1>6 DEF EthRxDone, NoTimeHandler, Tick, vars, ArpTimeoutCheck, timerVars, loopVars, Kept
  <2> QED
    BY <1>k, <2>1 DEF RingInv
<1>7. CASE TimeHandler /\ ~\E handler : pc # "prompt" /\ NetStartAgain(handler)
  <2>1. /\ Kept /\ pc = "timer" /\ pc' = "switch"
        /\ NetDevExists' = NetDevExists /\ NetRestarted' = NetRestarted
        /\ NetState' \in {NetState, "FAIL"} \/ timeHandler = "again"
        /\ timeHandler' # "again"
    BY <1>7 DEF TimeHandler, TftpTimeout, PingTimeout, StartAgainTimeout, NetSetTimeout,
       loopVars, Kept
  <2> QED
    BY <1>k, <2>1 DEF RingInv
<1>8. CASE Switch
  <2>1. /\ Kept /\ pc = "switch" /\ timeHandler' = timeHandler /\ NetDevExists' = NetDevExists
        /\ \/ pc' = "prompt"
           \/ pc' = "rx" /\ UNCHANGED <<NetState, NetRestarted>>
           \/ pc' = "restart" /\ NetState = "RESTART"
    BY <1>8 DEF Switch, Kept, timerVars
  <2> QED
    BY <1>k, <2>1 DEF RingInv
<1> QED
  BY <1>1, <1>2, <1>3, <1>4, <1>5, <1>6, <1>7, <1>8 DEF Next

\* Init, and then every step.
LEMMA Ring == Spec => [](IndInv /\ RingInv)
<1>1. Init => RingInv
  BY DEF Init, RingInv
<1> QED
  BY <1>1, Inductive, RingStep, PTL DEF Spec

\* When NetStartAgain waits for a new round and NetRestartWrap was not left over from
\* before, every interface was tried, for any number of them and whichever work.
THEOREM Rounds == Spec => RoundIsComplete
<1> DEFINE Begins == NetDevExists /\ ~eth.wrap /\ timeHandler # "again" /\ timeHandler' = "again"
<1>1. IndInv /\ RingInv /\ [Next]_vars => (Begins => tried' = Devices)
  <2> SUFFICES ASSUME IndInv, RingInv, [Next]_vars, Begins PROVE tried' = Devices
    OBVIOUS
  <2>1. PICK handler : pc # "prompt" /\ handler # "again" /\ NetStartAgain(handler)
    <3>1. CASE Restart
      BY <3>1 DEF Restart, TftpStart, PingStart, NetSetTimeout, timerVars
    <3>2. CASE EthRx
      BY <3>2 DEF EthRx, ReceiveArpReply, TftpHandler, PingHandler, LastBlock, NetSetTimeout,
         timerVars
    <3>3. CASE ArpTimeoutCheck
      BY <3>3 DEF ArpTimeoutCheck, timerVars
    <3>4. CASE TimeHandler
      BY <3>4 DEF TimeHandler, TftpTimeout, PingTimeout, StartAgainTimeout, NetSetTimeout
    <3> QED
      BY <3>1, <3>2, <3>3, <3>4 DEF Next, NetLoopBegin, EthRxDone, CtrlC, NoTimeHandler,
         Switch, Tick, vars, timerVars
  <2> QED
    BY <2>1, StartAgainRing
<1> QED
  BY <1>1, Ring, PTL DEF Spec, RoundIsComplete
=============================================================================
