-------------------------------- MODULE Nfs ---------------------------------
(***************************************************************************)
(* net/nfs.c: the NFS client of the nfs command, a sequence of RPC calls   *)
(* to the port mapper, the mount daemon and the NFS server, each sent      *)
(* again after a time-out under a new identifier.                          *)
(*                                                                         *)
(* The boot file is name 0.  Names 0..Links-1 are symbolic links, each to  *)
(* the next one; name Links is the file, of the units 0..FileSize-1.  A    *)
(* file handle is the name it was given for, and the pair nfs_path and     *)
(* nfs_filename is the name it spells.  The RPC fields rstatus, verifier   *)
(* and astatus are the status "rpcerr"; the status of the call, data[0],   *)
(* is "inval" for a link or a directory and "nfserr" for other errors.     *)
(* rpc_id grows with every call, a repeated one too, and an identifier is  *)
(* only ever compared with rpc_id: a packet says if it has the newest one. *)
(***************************************************************************)
EXTENDS Integers, FiniteSets

CONSTANTS
    FileSize,          \* units in the file
    Links,             \* symbolic links on the way to it
    Cyclic,            \* the last name is a link too, to name 0
    NFS_READ_SIZE,     \* units asked for at a time
    NFS_RETRY_COUNT,   \* time-outs before starting again: 30 in the code
    NetRetry,          \* the count "netretry" gives
    Refusals,          \* what servers may answer with an error: calls, or "none"
    MaxInFlight,       \* bound: packets under way in each direction
    MaxFaults          \* bound: packets lost or repeated

ASSUME NfsAssumption ==
    /\ FileSize \in Nat /\ Links \in Nat /\ Cyclic \in BOOLEAN
    /\ NFS_READ_SIZE \in Nat \ {0}
    /\ NFS_RETRY_COUNT \in Nat /\ NetRetry \in Nat
    /\ Refusals \subseteq {"none", "PRCLOOKUP_PROG_MOUNT", "MOUNT", "LOOKUP", "READ"}
    /\ MaxInFlight \in Nat \ {0} /\ MaxFaults \in Nat

PortmapCalls == {"PRCLOOKUP_PROG_MOUNT", "PRCLOOKUP_PROG_NFS"}
MountCalls == {"MOUNT", "UMOUNT"}
NfsCalls == {"LOOKUP", "READ", "READLINK"}
Calls == PortmapCalls \cup MountCalls \cup NfsCalls
Names == 0..Links
NoHandle == Links + 1              \* a handle of zeros

VARIABLES
    NfsState,
    NfsSrvMountPort, NfsSrvNfsPort,   \* 0 until a lookup succeeds, then 1
    fs_mounted, dirfh, filefh,
    nfs_path, nfs_offset,
    NfsDownloadState, NfsTimeoutCount,
    packetHandler,         \* "nfs", or "ignore" while waiting to start again
    NetState, NetTryCount,
    memory, NetBootFileXferSize,
    requests, replies,     \* packets under way
    refuses,               \* of Refusals: the call this server refuses
    prompt,                \* this server and network answer before the time-out, once
    faults

netVars == <<packetHandler, NetState, NetTryCount>>
fileVars == <<memory, NetBootFileXferSize>>
handleVars == <<fs_mounted, dirfh, filefh, nfs_path, nfs_offset>>
portVars == <<NfsSrvMountPort, NfsSrvNfsPort>>
envVars == <<refuses, prompt>>
clientVars == <<NfsState, portVars, handleVars, NfsDownloadState, NfsTimeoutCount,
                netVars, fileVars>>
vars == <<clientVars, requests, replies, envVars, faults>>

Request == [newest: BOOLEAN, call: Calls, dir: Names \cup {NoHandle}, name: Names \cup {NoHandle},
            offset: Nat]
Reply == [newest: BOOLEAN, status: {"ok", "inval", "nfserr", "rpcerr"}, value: Nat, count: Nat]

\* Types; in particular time-outs and tries stay within NFS_RETRY_COUNT and netretry.
TypeOK ==
    /\ NfsState \in Calls
    /\ NfsSrvMountPort \in {0, 1} /\ NfsSrvNfsPort \in {0, 1}
    /\ fs_mounted \in BOOLEAN
    /\ dirfh \in Names \cup {NoHandle} /\ filefh \in Names \cup {NoHandle}
    /\ nfs_path \in Names
    /\ nfs_offset \in 0..FileSize
    /\ NfsDownloadState \in {"SUCCESS", "FAIL"}
    /\ NfsTimeoutCount \in 0..NFS_RETRY_COUNT + 1
    /\ packetHandler \in {"nfs", "ignore"}
    /\ NetState \in {"CONTINUE", "SUCCESS", "FAIL"}
    /\ NetTryCount \in 1..NetRetry + 1
    /\ DOMAIN memory \subseteq 0..FileSize - 1
    /\ \A o \in DOMAIN memory : memory[o] \in 0..FileSize - 1
    /\ NetBootFileXferSize \in 0..FileSize
    /\ requests \subseteq Request /\ Cardinality(requests) <= MaxInFlight
    /\ replies \subseteq Reply /\ Cardinality(replies) <= MaxInFlight
    /\ refuses \in Refusals /\ prompt \in BOOLEAN
    /\ faults \in 0..MaxFaults
-----------------------------------------------------------------------------
(* The network: any packet may overtake any other.  One that does not fit is *)
(* lost.                                                                     *)

Put(channel, m) == IF Cardinality(channel) < MaxInFlight THEN channel \cup {m} ELSE channel

Lose ==
    /\ faults < MaxFaults /\ faults' = faults + 1
    /\ \/ \E m \in requests : requests' = requests \ {m} /\ UNCHANGED replies
       \/ \E m \in replies : replies' = replies \ {m} /\ UNCHANGED requests
    /\ UNCHANGED <<clientVars, envVars>>
-----------------------------------------------------------------------------
(* The client. *)

\* ++rpc_id: the packets under way have the newest identifier no more.
Aged(channel) == {[m EXCEPT !.newest = FALSE] : m \in channel}

\* NfsSend and rpc_req, with the values the caller has just set.  Nothing is sent to
\* unmount if nothing is mounted; what is sent to port 0 arrives nowhere.  The
\* replies still waiting are for calls before this one.
NfsSend(waiting) ==
    LET port == CASE NfsState' \in PortmapCalls -> 1
                  [] NfsState' \in MountCalls   -> NfsSrvMountPort'
                  [] OTHER                      -> NfsSrvNfsPort'
        call == [newest |-> TRUE, call |-> NfsState', dir |-> dirfh',
                 name |-> IF NfsState' \in {"READ", "READLINK"} THEN filefh' ELSE nfs_path',
                 offset |-> nfs_offset']
    IN  IF NfsState' = "UMOUNT" /\ ~fs_mounted'
          THEN requests' = requests /\ replies' = waiting
          ELSE /\ requests' = IF port = 0 THEN Aged(requests) ELSE Put(Aged(requests), call)
               /\ replies' = Aged(waiting)

\* NfsStart; NetLoop has reset the size.
NfsStart(waiting) ==
    /\ NfsDownloadState' = "FAIL"
    /\ nfs_path' = 0
    /\ packetHandler' = "nfs"
    /\ NfsTimeoutCount' = 0
    /\ NfsState' = "PRCLOOKUP_PROG_MOUNT"
    /\ NetBootFileXferSize' = 0
    /\ UNCHANGED <<portVars, fs_mounted, dirfh, filefh, nfs_offset, NetState, NetTryCount, memory>>
    /\ NfsSend(waiting)

\* Mutant: the attempts are not counted.
NetStartAgainUncounted ==
    IF NetTryCount >= NetRetry
      THEN NetState' = "FAIL" /\ UNCHANGED <<NetTryCount, packetHandler>>
      ELSE packetHandler' = "ignore" /\ UNCHANGED <<NetTryCount, NetState>>

\* NetStartAgain with one network device.
NetStartAgain ==
    IF NetTryCount >= NetRetry
      THEN NetState' = "FAIL" /\ UNCHANGED <<NetTryCount, packetHandler>>
      ELSE /\ NetTryCount' = NetTryCount + 1
           /\ packetHandler' = "ignore"
           /\ UNCHANGED NetState

\* startAgainTimeout: NETLOOP_RESTART.
StartAgainTimeout ==
    /\ NetState = "CONTINUE" /\ packetHandler = "ignore"
    /\ NfsStart(replies)
    /\ UNCHANGED <<envVars, faults>>

NfsTimeout ==
    /\ NetState = "CONTINUE" /\ packetHandler = "nfs"
    /\ prompt => requests = {} /\ replies = {}
    /\ NfsTimeoutCount' = NfsTimeoutCount + 1
    /\ UNCHANGED <<NfsState, portVars, handleVars, NfsDownloadState, fileVars, envVars, faults>>
    /\ IF NfsTimeoutCount' > NFS_RETRY_COUNT
         THEN NetStartAgain /\ UNCHANGED <<requests, replies>>
         ELSE NfsSend(replies) /\ UNCHANGED netVars

\* Mutant: the identifier is not compared.
MatchesAny(m) == TRUE

\* The test on the identifier that every reply function starts with.
Matches(m) == m.newest
Good(m) == Matches(m) /\ m.status = "ok"

\* The port lookups: the next call is made whatever rpc_lookup_reply returns.
PortReply(m, waiting) ==
    /\ NfsState \in PortmapCalls
    /\ \/ /\ NfsState = "PRCLOOKUP_PROG_MOUNT"
          /\ NfsSrvMountPort' = IF Good(m) THEN m.value ELSE NfsSrvMountPort
          /\ NfsState' = "PRCLOOKUP_PROG_NFS"
          /\ UNCHANGED NfsSrvNfsPort
       \/ /\ NfsState = "PRCLOOKUP_PROG_NFS"
          /\ NfsSrvNfsPort' = IF Good(m) THEN m.value ELSE NfsSrvNfsPort
          /\ NfsState' = "MOUNT"
          /\ UNCHANGED NfsSrvMountPort
    /\ UNCHANGED <<handleVars, NfsDownloadState, NetState, fileVars>>
    /\ NfsSend(waiting)

\* An error of the mount, the lookup or the link: "just to be sure", unmount.
Abandon(waiting) ==
    /\ NfsState' = "UMOUNT"
    /\ UNCHANGED <<portVars, handleVars, NfsDownloadState, NetState, fileVars>>
    /\ NfsSend(waiting)

MountReply(m, waiting) ==
    /\ NfsState = "MOUNT"
    /\ IF ~Good(m) THEN Abandon(waiting)
       ELSE /\ fs_mounted' = TRUE
            /\ dirfh' = m.value
            /\ NfsState' = "LOOKUP"
            /\ UNCHANGED <<portVars, filefh, nfs_path, nfs_offset, NfsDownloadState, NetState,
                           fileVars>>
            /\ NfsSend(waiting)

LookupReply(m, waiting) ==
    /\ NfsState = "LOOKUP"
    /\ IF ~Good(m) THEN Abandon(waiting)
       ELSE /\ filefh' = m.value
            /\ NfsState' = "READ"
            /\ nfs_offset' = 0
            /\ UNCHANGED <<portVars, fs_mounted, dirfh, nfs_path, NfsDownloadState, NetState,
                           fileVars>>
            /\ NfsSend(waiting)

\* Mutant: something is mounted already, so the link is looked up there.
ReadlinkReplyMounted(m, waiting) ==
    /\ NfsState = "READLINK"
    /\ IF ~Good(m) THEN Abandon(waiting)
       ELSE /\ nfs_path' = m.value
            /\ NfsState' = "LOOKUP"
            /\ UNCHANGED <<portVars, fs_mounted, dirfh, filefh, nfs_offset, NfsDownloadState,
                           NetState, fileVars>>
            /\ NfsSend(waiting)

ReadlinkReply(m, waiting) ==
    /\ NfsState = "READLINK"
    /\ IF ~Good(m) THEN Abandon(waiting)
       ELSE /\ nfs_path' = m.value
            /\ NfsState' = "MOUNT"
            /\ UNCHANGED <<portVars, fs_mounted, dirfh, filefh, nfs_offset, NfsDownloadState,
                           NetState, fileVars>>
            /\ NfsSend(waiting)

\* store_block at nfs_offset.
StoreBlock(m) ==
    LET newsize == nfs_offset + m.count
        block == nfs_offset..newsize - 1
    IN  /\ memory' = [o \in DOMAIN memory \cup block |->
                         IF o \in block THEN m.value + (o - nfs_offset) ELSE memory[o]]
        /\ NetBootFileXferSize' = IF NetBootFileXferSize < newsize THEN newsize
                                  ELSE NetBootFileXferSize

\* Mutant: the test on rlen is inverted.
DownloadStateInverted(m) == IF Good(m) THEN NfsDownloadState ELSE "SUCCESS"

\* After a read without data: only rlen = 0, the end of the file, is a success.
DownloadState(m) == IF Good(m) THEN "SUCCESS" ELSE NfsDownloadState

\* A read: data, the end of the file, a link, or an error (a late reply is one too).
ReadReply(m, waiting) ==
    /\ NfsState = "READ"
    /\ UNCHANGED <<portVars, fs_mounted, dirfh, filefh, nfs_path, NetState>>
    /\ \/ /\ Good(m) /\ m.count > 0
          /\ StoreBlock(m)
          /\ nfs_offset' = nfs_offset + m.count
          /\ UNCHANGED <<NfsState, NfsDownloadState>>
       \/ /\ Matches(m) /\ m.status = "inval"
          /\ NfsState' = "READLINK"
          /\ UNCHANGED <<nfs_offset, NfsDownloadState, fileVars>>
       \/ /\ ~(Good(m) /\ m.count > 0) /\ ~(Matches(m) /\ m.status = "inval")
          /\ NfsDownloadState' = DownloadState(m)
          /\ NfsState' = "UMOUNT"
          /\ UNCHANGED <<nfs_offset, fileVars>>
    /\ NfsSend(waiting)

\* nfs_umountall_reply does not look at the status of the call itself.
UmountReply(m, waiting) ==
    /\ NfsState = "UMOUNT"
    /\ IF Matches(m) /\ m.status # "rpcerr"
         THEN /\ fs_mounted' = FALSE
              /\ dirfh' = NoHandle
              /\ NetState' = NfsDownloadState
         ELSE NetState' = "FAIL" /\ UNCHANGED <<fs_mounted, dirfh>>
    /\ replies' = waiting
    /\ UNCHANGED <<NfsState, portVars, filefh, nfs_path, nfs_offset, NfsDownloadState,
                   fileVars, requests>>

NfsHandler(m, waiting) ==
    /\ \/ PortReply(m, waiting) \/ MountReply(m, waiting) \/ LookupReply(m, waiting)
       \/ ReadReply(m, waiting)
       \/ ReadlinkReply(m, waiting) \/ UmountReply(m, waiting)
    /\ UNCHANGED <<NfsTimeoutCount, packetHandler, NetTryCount>>

\* A reply arrives; on a network that is not prompt it may arrive again.
ClientReceive ==
    /\ NetState = "CONTINUE"
    /\ \E m \in replies, again \in BOOLEAN :
          /\ again => ~prompt /\ faults < MaxFaults
          /\ faults' = IF again THEN faults + 1 ELSE faults
          /\ LET waiting == IF again THEN replies ELSE replies \ {m}
             IN  IF packetHandler = "nfs"
                   THEN NfsHandler(m, waiting)
                   ELSE replies' = waiting /\ UNCHANGED <<clientVars, requests>>
    /\ UNCHANGED envVars
-----------------------------------------------------------------------------
(* The server: a port mapper, a mount daemon and a stateless file server.  It *)
(* may return less than asked for.                                           *)

IsFile(name) == name = Links /\ ~Cyclic
LinkTarget(name) == IF name = Links THEN 0 ELSE name + 1

Answers(r) ==
    LET answer(status, value, count) ==
            [newest |-> r.newest, status |-> status, value |-> value, count |-> count]
        rest == IF r.offset < FileSize THEN FileSize - r.offset ELSE 0
    IN  IF r.call = refuses
          THEN {answer(IF r.call = "PRCLOOKUP_PROG_MOUNT" THEN "rpcerr" ELSE "nfserr", 0, 0)}
          ELSE CASE r.call \in PortmapCalls -> {answer("ok", 1, 0)}
                 [] r.call = "MOUNT" -> {answer("ok", r.name, 0)}
                 [] r.call = "UMOUNT" -> {answer("ok", 0, 0)}
                 [] r.call = "LOOKUP" ->
                      {IF r.dir = r.name THEN answer("ok", r.name, 0) ELSE answer("nfserr", 0, 0)}
                 [] r.call = "READLINK" ->
                      {IF IsFile(r.name) THEN answer("nfserr", 0, 0)
                       ELSE answer("ok", LinkTarget(r.name), 0)}
                 [] OTHER ->
                      IF ~IsFile(r.name) THEN {answer("inval", 0, 0)}
                      ELSE IF rest = 0 THEN {answer("ok", 0, 0)}
                      ELSE {answer("ok", r.offset, n) :
                              n \in {k \in 1..NFS_READ_SIZE : k <= rest}}

ServerReceive ==
    /\ \E r \in requests :
          /\ requests' = requests \ {r}
          /\ \E m \in Answers(r) : replies' = Put(replies, m)
    /\ UNCHANGED <<clientVars, envVars, faults>>
-----------------------------------------------------------------------------
\* The first NfsStart after power-up.
Init ==
    /\ NfsState = "PRCLOOKUP_PROG_MOUNT"
    /\ NfsSrvMountPort = 0 /\ NfsSrvNfsPort = 0
    /\ fs_mounted = FALSE /\ dirfh = NoHandle /\ filefh = NoHandle
    /\ nfs_path = 0 /\ nfs_offset = 0
    /\ NfsDownloadState = "FAIL" /\ NfsTimeoutCount = 0
    /\ packetHandler = "nfs" /\ NetState = "CONTINUE" /\ NetTryCount = 1
    /\ memory = <<>> /\ NetBootFileXferSize = 0
    /\ requests = {[newest |-> TRUE, call |-> "PRCLOOKUP_PROG_MOUNT", dir |-> NoHandle,
                     name |-> 0, offset |-> 0]}
    /\ replies = {}
    /\ refuses \in Refusals /\ prompt \in BOOLEAN
    /\ faults = 0

\* NetLoop has returned.
Over == NetState # "CONTINUE" /\ UNCHANGED vars

Next ==
    \/ ClientReceive \/ NfsTimeout \/ StartAgainTimeout
    \/ ServerReceive
    \/ Lose
    \/ Over

\* NetLoop polls for packets and looks at the timer in every round.
Fairness == /\ WF_vars(ClientReceive)
            /\ WF_vars(NfsTimeout)
            /\ WF_vars(StartAgainTimeout)
            /\ WF_vars(ServerReceive)

Spec == Init /\ [][Next]_vars /\ Fairness
-----------------------------------------------------------------------------
(* Properties. *)

\* A load reported as successful has the whole file in memory, and the right size,
\* whatever was late, repeated, lost or started again: the identifiers keep the
\* replies of other calls and of other attempts apart.
SuccessIsComplete ==
    NetState = "SUCCESS" =>
        /\ \A u \in 0..FileSize - 1 : u \in DOMAIN memory /\ memory[u] = u
        /\ NetBootFileXferSize = FileSize

\* A file is looked up in the directory mounted for it, and read or followed through
\* the handle of the name now wanted: no handle of an earlier link or attempt is used.
HandlesAreCurrent ==
    /\ NfsState = "LOOKUP" => fs_mounted /\ dirfh = nfs_path
    /\ NfsState \in {"READ", "READLINK"} => filefh = nfs_path /\ dirfh = nfs_path

\* The command ends.
Terminates == <>(NetState # "CONTINUE")

\* If replies come in time and once, a few packets may be lost and the file is still
\* loaded, through all links.
Completes == prompt /\ refuses = "none" => <>(NetState = "SUCCESS")
=============================================================================
