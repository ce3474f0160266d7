------------------------------ MODULE NetLoop ------------------------------
(***************************************************************************)
(* net/net.c with CONFIG_NET_MULTI: the loop that every network command    *)
(* runs in, ARP, and starting again on another interface (net/eth.c).      *)
(*                                                                         *)
(* One pass of the loop receives packets, looks at the ARP timer and then  *)
(* at the one other timer, and only then at NetState; each is a step here, *)
(* so that all of them can happen in one pass.  The protocols are tftp,    *)
(* reduced to its request and its last answer, and ping.  Time is counted  *)
(* in units of ARP_TIMEOUT.                                                *)
(***************************************************************************)
EXTENDS Naturals, FiniteSets, FiniteSetsExt

CONSTANTS
    NumDevs,              \* the number of interfaces
    Addressed,            \* those the environment gives an ethaddr to, from some time on
    Working,              \* those whose init succeeds
    Rotate,               \* ethrotate is not "no"
    RetryForever,         \* netretry is "yes" or not set; otherwise
    retrycnt,             \* ... this is its value
    ARP_TIMEOUT_COUNT,
    TftpTimeoutMSecs,     \* the time-out of tftp, and
    TftpTimeoutCountMax,  \* ... how many of them it takes
    AgainMSecs,           \* the 10 s before a new round
    PingMSecs,            \* the 10 s of ping
    MaxCommands           \* bound: commands given

Devices == 0..NumDevs - 1
NULL == NumDevs
Protocols == {"tftp", "ping"}
Answers == {"last", "final", "again"}

ASSUME NetLoopAssumption ==
    /\ NumDevs \in Nat \ {0}
    /\ Addressed \subseteq Devices /\ Working \subseteq Devices
    /\ {Rotate, RetryForever} \subseteq BOOLEAN
    /\ {retrycnt, ARP_TIMEOUT_COUNT, TftpTimeoutCountMax, MaxCommands} \subseteq Nat
    /\ {TftpTimeoutMSecs, AgainMSecs, PingMSecs} \subseteq Nat \ {0}

VARIABLES
    pc,               \* "prompt", or the step of NetLoop: "restart", "rx", "arp",
                      \* "timer" or "switch"
    eth,              \* eth_current, first_failed, NetRestartWrap, ACTIVE interfaces
    NetRestarted, NetDevExists,
    NetState,
    NetTryCount,      \* counted up to retrycnt
    packetHandler,    \* "null", a protocol, or "ignore" (startAgainHandler)
    timeHandler,      \* "none", a protocol, or "again" (startAgainTimeout)
    timeAge,          \* the time since timeStart
    arp,              \* the packet that waits for an ARP reply
    server,           \* "unknown" until its Ethernet address is found and the request
                      \* sent, then what it answers: "last", "final" or "again"
    TftpTimeoutCount,
    protocol, commands,
    addressed,        \* the interfaces whose enetaddr is set
    tried             \* history: the interfaces tried by this command

loopVars == <<NetRestarted, NetDevExists, protocol, commands, addressed>>
timerVars == <<timeHandler, timeAge>>
vars == <<pc, eth, NetState, NetTryCount, packetHandler, timerVars, arp, server,
          TftpTimeoutCount, loopVars, tried>>

\* Types: the current interface exists, the count of tries stays within netretry, and
\* the ARP retries within their limit.
TypeOK ==
    /\ pc \in {"prompt", "restart", "rx", "arp", "timer", "switch"}
    /\ eth \in [current: Devices, first_failed: Devices \cup {NULL}, wrap: BOOLEAN,
                active: SUBSET Devices]
    /\ {NetRestarted, NetDevExists} \subseteq BOOLEAN
    /\ server \in {"unknown"} \cup Answers
    /\ NetState \in {"CONTINUE", "RESTART", "SUCCESS", "FAIL"}
    /\ NetTryCount \in 1..retrycnt + 1
    /\ packetHandler \in {"null", "ignore"} \cup Protocols
    /\ timeHandler \in {"none", "again"} \cup Protocols
    /\ timeAge \in Nat
    /\ arp \in [waiting: BOOLEAN, tries: 0..ARP_TIMEOUT_COUNT + 1, age: Nat]
    /\ TftpTimeoutCount \in Nat
    /\ protocol \in Protocols /\ commands \in 0..MaxCommands
    /\ tried \subseteq Devices /\ addressed \subseteq Addressed

Init ==
    /\ pc = "prompt"
    /\ eth = [current |-> 0, first_failed |-> NULL, wrap |-> FALSE, active |-> {}]
    /\ NetRestarted = FALSE /\ NetDevExists = FALSE
    /\ NetState = "CONTINUE" /\ NetTryCount = 1
    /\ packetHandler = "null" /\ timeHandler = "none" /\ timeAge = 0
    /\ arp = [waiting |-> FALSE, tries |-> 0, age |-> 0] /\ server = "unknown"
    /\ TftpTimeoutCount = 0
    /\ protocol = "tftp" /\ commands = 0
    /\ tried = {} /\ addressed = {}
-----------------------------------------------------------------------------
(* The interfaces: net/eth.c. *)

\* The interface k places further on in the ring of eth_devices.
Ahead(d, k) == (d + k) % NumDevs

\* eth_set_current, when "ethact" names d.
EthSetCurrent(e, d) == [e EXCEPT !.current = d]

\* Mutant: the interface keeps running.
EthHaltNot(e) == e

EthHalt(e) == [e EXCEPT !.active = @ \ {e.current}]

\* Mutant: the interface that failed first is taken down after moving on.
EthTryAnotherLate(e, first_restart) ==
    LET next   == Ahead(e.current, 1)
        failed == IF first_restart THEN next ELSE e.first_failed
    IN  [e EXCEPT !.current = next, !.first_failed = failed,
                  !.wrap = @ \/ next = failed]

EthTryAnother(e, first_restart) ==
    LET failed == IF first_restart THEN e.current ELSE e.first_failed
        next   == Ahead(e.current, 1)
    IN  IF ~Rotate THEN e
        ELSE [e EXCEPT !.current = next, !.first_failed = failed,
                       !.wrap = @ \/ next = failed]

\* How many interfaces eth_init passes over before one works; all of them if none does.
Steps(e) ==
    LET good == {k \in 0..NumDevs - 1 : Ahead(e.current, k) \in Working}
    IN  IF ~Rotate THEN 0 ELSE IF good = {} THEN NumDevs ELSE Min(good)

\* The interfaces eth_init tries.
Visited(e) == {Ahead(e.current, k) : k \in 0..Steps(e)}

\* eth_init, every call of eth_try_another in it included.
EthInit(e) ==
    LET passed == {Ahead(e.current, k) : k \in 1..Steps(e)}
        last   == Ahead(e.current, Steps(e))
    IN  [e EXCEPT !.current = last,
                  !.wrap = @ \/ e.first_failed \in passed,
                  !.active = IF last \in Working THEN @ \cup {last} ELSE @]
-----------------------------------------------------------------------------
(* Sending, and the ARP request that comes first. *)

NetSetTimeout(handler) == timeHandler' = handler /\ timeAge' = 0

\* Mutant: the handler of the last command stays.
NetSetHandlerNot(handler) == UNCHANGED packetHandler

NetSetHandler(handler) == packetHandler' = handler

\* NetSendUDPPacket and PingSend with an address that is not known: the packet waits,
\* and the retries of ARP begin anew.
ArpWait == arp' = [waiting |-> TRUE, tries |-> 1, age |-> 0]

\* Mutant: starting again is not counted.
TryNotCounted == NetTryCount' = NetTryCount

CountTry == NetTryCount' = IF RetryForever THEN NetTryCount ELSE NetTryCount + 1

\* NetStartAgain, called while timeHandler is the one given.
NetStartAgain(handler) ==
    \/ /\ ~RetryForever /\ NetTryCount >= retrycnt
       /\ eth' = EthHalt(eth)
       /\ NetState' = "FAIL"
       /\ timeHandler' = handler
       /\ UNCHANGED <<NetTryCount, packetHandler, timeAge, tried>>
    \/ /\ RetryForever \/ NetTryCount < retrycnt
       /\ CountTry
       /\ LET other == EthTryAnother(EthHalt(eth), ~NetRestarted)
              e     == EthInit(other)
          IN  /\ tried' = tried \cup Visited(other)
              /\ eth' = [e EXCEPT !.wrap = FALSE]
              /\ \/ /\ e.wrap /\ NetDevExists        \* wait, then a new round
                    /\ NetSetTimeout("again")
                    /\ NetSetHandler("ignore")
                    /\ UNCHANGED NetState
                 \/ /\ e.wrap /\ ~NetDevExists       \* no interface has an address
                    /\ NetState' = "FAIL"
                    /\ timeHandler' = handler
                    /\ UNCHANGED <<packetHandler, timeAge>>
                 \/ /\ ~e.wrap
                    /\ NetState' = "RESTART"
                    /\ timeHandler' = handler
                    /\ UNCHANGED <<packetHandler, timeAge>>
-----------------------------------------------------------------------------
(* The command. *)

\* NetLoop up to "restart", for an interface that "ethact" names.  eth_init takes the
\* addresses the environment has by now; NetState is set at "restart" in the code, and
\* not read before.
NetLoopBegin ==
    /\ pc = "prompt" /\ commands < MaxCommands
    /\ commands' = commands + 1
    /\ protocol' \in Protocols
    /\ addressed' \in {addressed, Addressed}
    /\ NetRestarted' = FALSE /\ NetDevExists' = FALSE
    /\ NetTryCount' = 1
    /\ NetState' = "CONTINUE"
    /\ arp' = [arp EXCEPT !.waiting = FALSE]
    /\ \E d \in Devices :
          LET chosen == EthSetCurrent(EthHalt(eth), d)
              e      == EthInit(chosen)
          IN  /\ eth' = e
              /\ pc' = IF e.current \in e.active THEN "restart" ELSE "prompt"
              /\ tried' = Visited(chosen)
    /\ UNCHANGED <<packetHandler, timerVars, server, TftpTimeoutCount>>

TftpStart ==
    /\ NetSetTimeout("tftp")
    /\ NetSetHandler("tftp")
    /\ TftpTimeoutCount' = 0
    /\ ArpWait

\* PingSend always asks for the address.
PingSend == ArpWait

PingStart ==
    /\ NetSetTimeout("ping")
    /\ NetSetHandler("ping")
    /\ PingSend
    /\ UNCHANGED TftpTimeoutCount

\* What net_check_prereq may return: 1 when ipaddr or serverip is not set (which does not
\* change during a command), 2 after NetStartAgain when the interface has no address.
net_check_prereq ==
    (IF NetRestarted THEN {} ELSE {1}) \cup {IF eth.current \in addressed THEN 0 ELSE 2}

\* NetLoop from "restart" to the loop, NetStartAgain in net_check_prereq included.
Restart ==
    /\ pc = "restart"
    /\ \/ /\ 1 \in net_check_prereq
          /\ pc' = "prompt"
          /\ eth' = EthHalt(eth)
          /\ UNCHANGED <<NetState, NetTryCount, packetHandler, timerVars, arp, server,
                         TftpTimeoutCount, NetDevExists, tried>>
       \/ /\ 2 \in net_check_prereq
          /\ pc' = "rx"
          /\ NetStartAgain(timeHandler)
          /\ UNCHANGED <<NetDevExists, server, TftpTimeoutCount, arp>>
       \/ /\ 0 \in net_check_prereq
          /\ pc' = "rx"
          /\ NetDevExists' = TRUE
          /\ server' = "unknown"
          /\ IF protocol = "tftp" THEN TftpStart ELSE PingStart
          /\ UNCHANGED <<eth, NetState, NetTryCount, tried>>
    /\ UNCHANGED <<NetRestarted, protocol, commands, addressed>>

\* The reply sends the packet that waited for it.
ReceiveArpReply ==
    /\ arp.waiting
    /\ server' \in Answers
    /\ arp' = [arp EXCEPT !.waiting = FALSE]
    /\ UNCHANGED <<eth, NetState, NetTryCount, packetHandler, timerVars,
                   TftpTimeoutCount, tried>>

\* Mutant: the timer of the last but one block runs on.
LastBlockUntimed == NetState' = "SUCCESS" /\ UNCHANGED timerVars

\* The timer is set anew before the block is stored.
LastBlock == NetState' = "SUCCESS" /\ NetSetTimeout("tftp")

\* TftpHandler: the last block, an error
\* that ends the command, an error after which it starts again.
TftpHandler ==
    /\ packetHandler = "tftp"
    /\ \/ /\ server = "last"
          /\ LastBlock
          /\ UNCHANGED <<eth, NetTryCount, packetHandler, tried>>
       \/ /\ server = "final"
          /\ NetState' = "FAIL" /\ eth' = EthHalt(eth)
          /\ UNCHANGED <<NetTryCount, packetHandler, timerVars, tried>>
       \/ /\ server = "again"
          /\ NetStartAgain(timeHandler)
    /\ UNCHANGED <<arp, server, TftpTimeoutCount>>

PingHandler ==
    /\ packetHandler = "ping" /\ server # "unknown"
    /\ NetState' = "SUCCESS"
    /\ UNCHANGED <<eth, NetTryCount, packetHandler, timerVars, arp, server,
                   TftpTimeoutCount, tried>>

\* eth_rx hands packets to NetReceive one by one; the ones that are not for us, or not
\* answers, change nothing.
EthRx ==
    /\ pc = "rx" /\ eth.current \in eth.active
    /\ ReceiveArpReply \/ TftpHandler \/ PingHandler
    /\ UNCHANGED <<pc, loopVars>>

EthRxDone ==
    /\ pc = "rx"
    /\ pc' = "arp"
    /\ UNCHANGED <<eth, NetState, NetTryCount, packetHandler, timerVars, arp, server,
                   TftpTimeoutCount, loopVars, tried>>

CtrlC ==
    /\ pc = "arp"
    /\ pc' = "prompt"
    /\ eth' = EthHalt(eth)
    /\ UNCHANGED <<NetState, NetTryCount, packetHandler, timerVars, arp, server,
                   TftpTimeoutCount, loopVars, tried>>

ArpExpired == arp.waiting /\ arp.age >= 1

\* When the retries are used up, the ARP timer is left as it is.  A pass may just miss
\* the time-out (the first disjunct).
ArpTimeoutCheck ==
    /\ pc = "arp"
    /\ pc' = "timer"
    /\ \/ UNCHANGED <<eth, NetState, NetTryCount, packetHandler, timerVars, arp, tried>>
       \/ /\ ArpExpired /\ arp.tries + 1 >= ARP_TIMEOUT_COUNT
          /\ arp' = [arp EXCEPT !.tries = 0]
          /\ NetStartAgain(timeHandler)
       \/ /\ ArpExpired /\ arp.tries + 1 < ARP_TIMEOUT_COUNT
          /\ arp' = [arp EXCEPT !.tries = @ + 1, !.age = 0]
          /\ UNCHANGED <<eth, NetState, NetTryCount, packetHandler, timerVars, tried>>
    /\ UNCHANGED <<server, TftpTimeoutCount, loopVars>>

timeDelta == CASE timeHandler = "tftp"  -> TftpTimeoutMSecs
               [] timeHandler = "ping"  -> PingMSecs
               [] timeHandler = "again" -> AgainMSecs
               [] OTHER                 -> 0
TimerExpired == timeHandler # "none" /\ timeAge >= timeDelta

\* Mutant: the time-out is not set anew.
TftpTimeoutOnce ==
    /\ timeHandler = "tftp"
    /\ TftpTimeoutCount' = TftpTimeoutCount + 1
    /\ timeHandler' = "none"
    /\ IF server = "unknown" THEN ArpWait ELSE UNCHANGED arp
    /\ UNCHANGED <<eth, NetState, NetTryCount, packetHandler, timeAge, tried>>

\* The timer is taken off before its handler is called.
TftpTimeout ==
    /\ timeHandler = "tftp"
    /\ TftpTimeoutCount' = TftpTimeoutCount + 1
    /\ IF TftpTimeoutCount' > TftpTimeoutCountMax
       THEN NetStartAgain("none") /\ UNCHANGED arp
       ELSE /\ NetSetTimeout("tftp")
            /\ IF server = "unknown" THEN ArpWait ELSE UNCHANGED arp
            /\ UNCHANGED <<eth, NetState, NetTryCount, packetHandler, tried>>

PingTimeout ==
    /\ timeHandler = "ping"
    /\ eth' = EthHalt(eth)
    /\ NetState' = "FAIL"
    /\ timeHandler' = "none"
    /\ UNCHANGED <<NetTryCount, packetHandler, timeAge, arp, TftpTimeoutCount, tried>>

StartAgainTimeout ==
    /\ timeHandler = "again"
    /\ NetState' = "RESTART"
    /\ timeHandler' = "none"
    /\ UNCHANGED <<eth, NetTryCount, packetHandler, timeAge, arp, TftpTimeoutCount, tried>>

TimeHandler ==
    /\ pc = "timer" /\ TimerExpired
    /\ pc' = "switch"
    /\ TftpTimeout \/ PingTimeout \/ StartAgainTimeout
    /\ UNCHANGED <<server, loopVars>>

NoTimeHandler ==
    /\ pc = "timer"
    /\ pc' = "switch"
    /\ UNCHANGED <<eth, NetState, NetTryCount, packetHandler, timerVars, arp, server,
                   TftpTimeoutCount, loopVars, tried>>

\* The end of a pass.
Switch ==
    /\ pc = "switch"
    /\ \/ /\ NetState = "CONTINUE"
          /\ pc' = "rx"
          /\ UNCHANGED <<eth, NetState, NetRestarted>>
       \/ /\ NetState = "RESTART"
          /\ pc' = "restart"
          /\ NetRestarted' = TRUE
          /\ NetState' = "CONTINUE"
          /\ UNCHANGED eth
       \/ /\ NetState = "SUCCESS"
          /\ pc' = "prompt"
          /\ eth' = EthHalt(eth)
          /\ UNCHANGED <<NetState, NetRestarted>>
       \/ /\ NetState = "FAIL"
          /\ pc' = "prompt"
          /\ UNCHANGED <<eth, NetState, NetRestarted>>
    /\ UNCHANGED <<NetTryCount, packetHandler, timerVars, arp, server, TftpTimeoutCount,
                   NetDevExists, protocol, commands, addressed, tried>>

\* A pass takes no time: a timer that has expired is seen before the next one does.
Tick ==
    /\ \/ pc = "prompt"
       \/ pc = "rx" /\ NetState = "CONTINUE" /\ ~ArpExpired
    /\ timeHandler # "none" /\ ~TimerExpired
    /\ timeAge' = timeAge + 1
    /\ arp' = IF arp.waiting /\ arp.age = 0 THEN [arp EXCEPT !.age = 1] ELSE arp
    /\ UNCHANGED <<pc, eth, NetState, NetTryCount, packetHandler, timeHandler, server,
                   TftpTimeoutCount, loopVars, tried>>

Next ==
    \/ NetLoopBegin \/ Restart \/ EthRx \/ EthRxDone \/ CtrlC \/ ArpTimeoutCheck
    \/ TimeHandler \/ NoTimeHandler \/ Switch
    \/ Tick

Spec == Init /\ [][Next]_vars

Fairness == /\ WF_vars(Restart \/ EthRxDone \/ ArpTimeoutCheck \/ NoTimeHandler \/ Switch)
            /\ SF_vars(ArpTimeoutCheck /\ arp' # arp)
            /\ SF_vars(TimeHandler)
            /\ SF_vars(Tick)

FairSpec == Spec /\ Fairness
-----------------------------------------------------------------------------
(* Properties. *)

\* Two interfaces never run at once: NetStartAgain and NetLoop halt the one in use before
\* they choose another, whatever was left running by the command before.
OnlyCurrentActive == eth.active \subseteq {eth.current}

\* Once this command has started its protocol on some interface, every packet and every
\* time-out goes to that protocol or to startAgain, never to what the last command left
\* in packetHandler and timeHandler.
HandlerIsCurrent ==
    pc \in {"rx", "arp", "timer"} /\ NetDevExists =>
        /\ packetHandler \in {protocol, "ignore"}
        /\ timeHandler \in {protocol, "again", "none"}

\* A pass that waits for packets always has a timer that will end the wait: the loop
\* takes timeHandler off before it calls it, and each handler sets it anew or leaves a
\* NetState that ends the loop.
AlwaysTimed == pc = "rx" /\ NetState = "CONTINUE" => timeHandler # "none"

\* NetStartAgain waits 10 s before a new round only when NetRestartWrap says that all
\* interfaces were tried, and then they were.
TriedAll ==
    NetDevExists /\ timeHandler = "again" /\ pc # "prompt" => tried = Devices

\* They were if NetRestartWrap was not set before this call: eth_try_another and eth_init
\* have then come round to the interface that failed first.
RoundIsComplete ==
    [][NetDevExists /\ ~eth.wrap /\ timeHandler # "again" /\ timeHandler' = "again"
           => tried' = Devices]_vars

\* A file that has arrived stays arrived: neither the ARP timer nor the time-out that may
\* expire in the same pass makes the command start again.
SuccessStands ==
    [][NetState = "SUCCESS" /\ protocol = "tftp" /\ NetDevExists /\ pc # "prompt"
           => NetState' = NetState]_vars

\* A command ends when netretry limits it, whatever is lost and whichever interfaces work.
Terminates == ~RetryForever => (pc # "prompt" ~> pc = "prompt")
=============================================================================
