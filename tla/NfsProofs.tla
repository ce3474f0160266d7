------------------------------ MODULE NfsProofs ------------------------------
(***************************************************************************)
(* Nfs reads through the handle of the name it wants, and a load that it   *)
(* reports as successful is complete: for every file, every chain of links *)
(* (cyclic or not), every limit on time-outs and attempts, every server,   *)
(* and any number of packets lost, repeated or late.                       *)
(***************************************************************************)
EXTENDS Nfs, FiniteSetTheorems, TLAPS

\* The call the client has last sent, if it has sent one.
CurrentCall ==
    [newest |-> TRUE, call |-> NfsState, dir |-> dirfh,
     name |-> IF NfsState \in {"READ", "READLINK"} THEN filefh ELSE nfs_path,
     offset |-> nfs_offset]

\* It has: only an unmount with nothing mounted is not sent.
Awaiting == NetState = "CONTINUE" /\ (NfsState = "UMOUNT" => fs_mounted)

\* What the identifier promises: a request with the newest one is the current call,
\* a reply with the newest one answers it.
NewestIsCurrent ==
    Awaiting => /\ \A r \in requests : r.newest => r = CurrentCall
                /\ \A m \in replies : m.newest => m \in Answers(CurrentCall)

\* The units 0..n-1 of the file are in memory.
Loaded(n) == \A u \in 0..n - 1 : u \in DOMAIN memory /\ memory[u] = u

\* Nothing is stored before the file itself is read, then all up to nfs_offset is.
ReadIsPrefix ==
    /\ NfsState \notin {"READ", "UMOUNT"} => NetBootFileXferSize = 0
    /\ NfsState = "READ" =>
          /\ NetBootFileXferSize = nfs_offset
          /\ Loaded(nfs_offset)
          /\ nfs_offset > 0 => IsFile(filefh)

\* A success is the end of a read that stored everything.
SuccessIsEarned ==
    /\ NfsDownloadState = "SUCCESS" =>
          NfsState = "UMOUNT" /\ Loaded(FileSize) /\ NetBootFileXferSize = FileSize
    /\ NetState = "SUCCESS" => NfsDownloadState = "SUCCESS"

\* The packets under way are typed and fit.
Channels ==
    /\ requests \subseteq Request /\ IsFiniteSet(requests) /\ Cardinality(requests) <= MaxInFlight
    /\ replies \subseteq Reply /\ IsFiniteSet(replies) /\ Cardinality(replies) <= MaxInFlight

\* The inductive invariant.
IndInv ==
    /\ TypeOK
    /\ Channels
    /\ packetHandler = "nfs" /\ NetState = "CONTINUE" => NfsTimeoutCount <= NFS_RETRY_COUNT
    /\ HandlesAreCurrent
    /\ NewestIsCurrent
    /\ ReadIsPrefix
    /\ SuccessIsEarned
-----------------------------------------------------------------------------
(* The network and the server. *)

\* A channel is a finite set that never holds more than MaxInFlight packets; what is
\* put into it is the only new packet.
LEMMA PutFits ==
    ASSUME NEW S, NEW x, IsFiniteSet(S), Cardinality(S) <= MaxInFlight
    PROVE  /\ Put(S, x) \subseteq S \cup {x}
           /\ IsFiniteSet(Put(S, x))
           /\ Cardinality(Put(S, x)) <= MaxInFlight
<1>1. Cardinality(S) \in Nat
  BY FS_CardinalityType
<1>2. /\ IsFiniteSet(S \cup {x})
      /\ Cardinality(S \cup {x}) \in Nat
      /\ Cardinality(S \cup {x}) <= Cardinality(S) + 1
  BY <1>1, FS_AddElement
<1> QED
  BY <1>1, <1>2, NfsAssumption DEF Put

\* A part of a channel fits where the channel does.
LEMMA PartFits ==
    ASSUME NEW S, NEW T \in SUBSET S, IsFiniteSet(S), Cardinality(S) <= MaxInFlight
    PROVE  IsFiniteSet(T) /\ Cardinality(T) <= MaxInFlight
<1>1. IsFiniteSet(T) /\ Cardinality(T) <= Cardinality(S)
  BY FS_Subset
<1>2. Cardinality(T) \in Nat /\ Cardinality(S) \in Nat
  BY <1>1, FS_CardinalityType
<1> QED
  BY <1>1, <1>2, NfsAssumption

\* A new identifier: the packets stay, typed as they were, and none has the newest one.
LEMMA AgedChannel ==
    ASSUME NEW M, M \in {Request, Reply}, NEW S \in SUBSET M,
           IsFiniteSet(S), Cardinality(S) <= MaxInFlight
    PROVE  /\ Aged(S) \subseteq M
           /\ IsFiniteSet(Aged(S)) /\ Cardinality(Aged(S)) <= MaxInFlight
           /\ \A m \in Aged(S) : ~m.newest
<1>1. ASSUME NEW m \in S
      PROVE  [m EXCEPT !.newest = FALSE] \in M /\ ~[m EXCEPT !.newest = FALSE].newest
  <2>1. CASE M = Request
    BY <2>1 DEF Request
  <2>2. CASE M = Reply
    BY <2>2 DEF Reply
  <2> QED BY <2>1, <2>2
<1> DEFINE f == [m \in S |-> [m EXCEPT !.newest = FALSE]]
<1>2. f \in Surjection(S, Aged(S))
  BY DEF Surjection, Aged
<1>3. IsFiniteSet(Aged(S)) /\ Cardinality(Aged(S)) <= Cardinality(S)
  BY <1>2, FS_Surjection
<1>4. Cardinality(Aged(S)) \in Nat /\ Cardinality(S) \in Nat
  BY <1>3, FS_CardinalityType
<1>5. Aged(S) \subseteq M /\ \A m \in Aged(S) : ~m.newest
  BY <1>1 DEF Aged
<1> QED
  BY <1>3, <1>4, <1>5, NfsAssumption

\* The server answers with the identifier it was called with.
LEMMA AnswersTyped ==
    ASSUME NEW r \in Request
    PROVE  \A m \in Answers(r) : m \in Reply /\ m.newest = r.newest
BY NfsAssumption DEF Answers, Request, Reply, LinkTarget, Names, NoHandle

\* What an answer to the current call says, call by call.
LEMMA CurrentAnswer ==
    ASSUME TypeOK, NEW m \in Answers(CurrentCall)
    PROVE  /\ m \in Reply
           /\ m.status = "ok" =>
                 /\ NfsState \in PortmapCalls => m.value = 1
                 /\ NfsState \in {"MOUNT", "LOOKUP"} => m.value = nfs_path
                 /\ NfsState = "READLINK" => m.value = LinkTarget(filefh)
                 /\ NfsState = "READ" =>
                       /\ IsFile(filefh)
                       /\ \/ nfs_offset = FileSize /\ m.count = 0
                          \/ m.value = nfs_offset /\ m.count \in 1..FileSize - nfs_offset
           /\ m.status = "inval" /\ NfsState = "READ" => ~IsFile(filefh)
<1>1. CurrentCall \in Request
  BY NfsAssumption DEF CurrentCall, Request, TypeOK, Names
<1>2. m \in Reply
  BY <1>1, AnswersTyped
<1>3. NfsState = CurrentCall.call /\ nfs_offset = CurrentCall.offset /\ dirfh = CurrentCall.dir
      /\ CurrentCall.name = IF NfsState \in {"READ", "READLINK"} THEN filefh ELSE nfs_path
  BY DEF CurrentCall
<1>4. CASE NfsState \in PortmapCalls
  BY <1>2, <1>3, <1>4 DEF Answers, PortmapCalls
<1>5. CASE NfsState = "MOUNT"
  BY <1>2, <1>3, <1>5 DEF Answers, PortmapCalls
<1>6. CASE NfsState = "LOOKUP"
  BY <1>2, <1>3, <1>6 DEF Answers, PortmapCalls
<1>7. CASE NfsState = "UMOUNT"
  BY <1>2, <1>3, <1>7 DEF Answers, PortmapCalls
<1>8. CASE NfsState = "READLINK"
  BY <1>2, <1>3, <1>8 DEF Answers, PortmapCalls
<1>9. CASE NfsState = "READ"
  BY <1>2, <1>3, <1>9, NfsAssumption DEF Answers, PortmapCalls, TypeOK
<1> QED
  BY <1>4, <1>5, <1>6, <1>7, <1>8, <1>9 DEF TypeOK, Calls, PortmapCalls, MountCalls, NfsCalls
-----------------------------------------------------------------------------
(* The client. *)

\* After NfsSend whatever has the newest identifier belongs to the call just made.
LEMMA Sent ==
    ASSUME Channels, NEW waiting \in SUBSET replies, NfsSend(waiting),
           NfsState' \in Calls, nfs_offset' \in Nat, nfs_path' \in Names,
           dirfh' \in Names \cup {NoHandle}, filefh' \in Names \cup {NoHandle}
    PROVE  Channels' /\ NewestIsCurrent'
<1>1. /\ waiting \subseteq Reply
      /\ IsFiniteSet(waiting) /\ Cardinality(waiting) <= MaxInFlight
  BY PartFits DEF Channels
<1>2. /\ Aged(waiting) \subseteq Reply
      /\ IsFiniteSet(Aged(waiting)) /\ Cardinality(Aged(waiting)) <= MaxInFlight
      /\ \A m \in Aged(waiting) : ~m.newest
  BY <1>1, AgedChannel
<1>3. /\ Aged(requests) \subseteq Request
      /\ IsFiniteSet(Aged(requests)) /\ Cardinality(Aged(requests)) <= MaxInFlight
      /\ \A r \in Aged(requests) : ~r.newest
  BY AgedChannel DEF Channels
<1>4. CurrentCall' \in Request
  BY DEF CurrentCall, Request
<1>5. /\ Put(Aged(requests), CurrentCall') \subseteq Aged(requests) \cup {CurrentCall'}
      /\ IsFiniteSet(Put(Aged(requests), CurrentCall'))
      /\ Cardinality(Put(Aged(requests), CurrentCall')) <= MaxInFlight
  BY <1>3, PutFits
<1>6. \/ NfsState' = "UMOUNT" /\ ~fs_mounted' /\ requests' = requests /\ replies' = waiting
      \/ /\ requests' \in {Aged(requests), Put(Aged(requests), CurrentCall')}
         /\ replies' = Aged(waiting)
  BY Zenon DEF NfsSend, CurrentCall
<1>7. CASE NfsState' = "UMOUNT" /\ ~fs_mounted' /\ requests' = requests /\ replies' = waiting
  BY <1>1, <1>7 DEF Channels, NewestIsCurrent, Awaiting
<1>8. CASE /\ requests' \in {Aged(requests), Put(Aged(requests), CurrentCall')}
           /\ replies' = Aged(waiting)
  <2>1. Channels'
    BY <1>2, <1>3, <1>4, <1>5, <1>8 DEF Channels
  <2>2. /\ \A r \in requests' : r.newest => r = CurrentCall'
        /\ \A m \in replies' : ~m.newest
    BY <1>2, <1>3, <1>5, <1>8
  <2> QED
    BY <2>1, <2>2 DEF NewestIsCurrent
<1> QED
  BY <1>6, <1>7, <1>8

\* Where the packets and the current call stay, or only lose some, the identifiers
\* keep their promise.
LEMMA NothingSent ==
    ASSUME Channels, NewestIsCurrent, requests' \subseteq requests, replies' \subseteq replies,
           UNCHANGED <<NfsState, handleVars, NetState, refuses>> \/ NetState' # "CONTINUE"
    PROVE  Channels' /\ NewestIsCurrent'
<1>1. Channels'
  BY PartFits DEF Channels
<1>2. CASE NetState' # "CONTINUE"
  BY <1>1, <1>2 DEF NewestIsCurrent, Awaiting
<1>3. CASE UNCHANGED <<NfsState, handleVars, NetState, refuses>>
  <2>1. CurrentCall' = CurrentCall /\ (Awaiting' <=> Awaiting)
    BY <1>3 DEF CurrentCall, Awaiting, handleVars
  <2>2. Answers(CurrentCall)' = Answers(CurrentCall)
    BY <1>3, <2>1 DEF Answers
  <2> QED
    BY <1>1, <2>1, <2>2 DEF NewestIsCurrent
<1> QED
  BY <1>2, <1>3
\* A reply that is taken for a good one answers the current call.
LEMMA GoodAnswers ==
    ASSUME IndInv, NetState = "CONTINUE", NfsState # "UMOUNT", NEW m \in replies, Matches(m)
    PROVE  m \in Answers(CurrentCall)
BY DEF IndInv, NewestIsCurrent, Awaiting, Matches

\* Each of the six reply functions preserves the invariant.
LEMMA HandlerStep ==
    ASSUME IndInv, NetState = "CONTINUE", packetHandler = "nfs",
           NEW m \in replies, NEW waiting \in SUBSET replies, NfsHandler(m, waiting),
           UNCHANGED envVars, faults' \in 0..MaxFaults
    PROVE  IndInv'
<1> USE NfsAssumption
<1> USE DEF IndInv
<1>t. UNCHANGED <<NfsTimeoutCount, packetHandler, NetTryCount, refuses, prompt>>
  BY DEF NfsHandler, envVars
<1>m. m.status \in {"ok", "inval", "nfserr", "rpcerr"} /\ m.newest \in BOOLEAN
  BY DEF Channels, Reply
<1>a. ASSUME NfsState \in {"MOUNT", "LOOKUP", "READLINK"}, Abandon(waiting)
      PROVE  IndInv'
  <2>1. Channels' /\ NewestIsCurrent'
    BY <1>a, Sent DEF Abandon, TypeOK, Calls, MountCalls, handleVars
  <2>2. TypeOK'
    BY <1>a, <1>t, <2>1 DEF Abandon, TypeOK, Channels, Calls, MountCalls, handleVars, portVars, fileVars
  <2>3. HandlesAreCurrent' /\ ReadIsPrefix' /\ SuccessIsEarned'
    BY <1>a DEF Abandon, HandlesAreCurrent, ReadIsPrefix, SuccessIsEarned
  <2> QED
    BY <1>a, <1>t, <2>1, <2>2, <2>3 DEF Abandon
<1>1. CASE PortReply(m, waiting)
  <2>1. NfsState \in PortmapCalls /\ NfsState' \in {"PRCLOOKUP_PROG_NFS", "MOUNT"}
    BY <1>1 DEF PortReply, PortmapCalls
  <2>2. Good(m) => m.value = 1
    BY <2>1, GoodAnswers, CurrentAnswer DEF Good, PortmapCalls
  <2>3. Channels' /\ NewestIsCurrent'
    BY <1>1, <2>1, Sent DEF PortReply, TypeOK, Calls, PortmapCalls, MountCalls, handleVars
  <2>4. TypeOK'
    BY <1>1, <1>t, <2>1, <2>2, <2>3 DEF PortReply, TypeOK, Channels, Calls, PortmapCalls, MountCalls,
       handleVars, fileVars
  <2>5. HandlesAreCurrent' /\ ReadIsPrefix' /\ SuccessIsEarned'
    BY <1>1, <2>1 DEF PortReply, PortmapCalls, HandlesAreCurrent, ReadIsPrefix, SuccessIsEarned,
       handleVars, fileVars
  <2> QED
    BY <1>1, <1>t, <2>3, <2>4, <2>5 DEF PortReply
<1>2. CASE MountReply(m, waiting)
  <2>1. CASE ~Good(m)
    BY <1>2, <1>a, <2>1 DEF MountReply
  <2>2. CASE Good(m)
    <3>1. m.value = nfs_path
      BY <1>2, <2>2, GoodAnswers, CurrentAnswer DEF Good, MountReply
    <3>2. Channels' /\ NewestIsCurrent'
      BY <1>2, <2>2, <3>1, Sent DEF MountReply, TypeOK, Calls, NfsCalls
    <3>3. TypeOK'
      BY <1>2, <1>t, <2>2, <3>1, <3>2 DEF MountReply, TypeOK, Channels, Calls, NfsCalls,
         portVars, fileVars
    <3>4. HandlesAreCurrent' /\ ReadIsPrefix' /\ SuccessIsEarned'
      BY <1>2, <2>2, <3>1 DEF MountReply, HandlesAreCurrent, ReadIsPrefix, SuccessIsEarned,
         fileVars
    <3> QED
      BY <1>2, <1>t, <2>2, <3>2, <3>3, <3>4 DEF MountReply
  <2> QED BY <2>1, <2>2
<1>3. CASE LookupReply(m, waiting)
  <2>1. CASE ~Good(m)
    BY <1>3, <1>a, <2>1 DEF LookupReply
  <2>2. CASE Good(m)
    <3>1. m.value = nfs_path
      BY <1>3, <2>2, GoodAnswers, CurrentAnswer DEF Good, LookupReply
    <3>2. Channels' /\ NewestIsCurrent'
      BY <1>3, <2>2, <3>1, Sent DEF LookupReply, TypeOK, Calls, NfsCalls
    <3>3. TypeOK'
      BY <1>3, <1>t, <2>2, <3>1, <3>2 DEF LookupReply, TypeOK, Channels, Calls, NfsCalls,
         portVars, fileVars
    <3>4. HandlesAreCurrent' /\ ReadIsPrefix' /\ SuccessIsEarned'
      BY <1>3, <2>2, <3>1 DEF LookupReply, HandlesAreCurrent, ReadIsPrefix, Loaded,
         SuccessIsEarned, fileVars
    <3> QED
      BY <1>3, <1>t, <2>2, <3>2, <3>3, <3>4 DEF LookupReply
  <2> QED BY <2>1, <2>2
<1>4. CASE ReadReply(m, waiting)
  <2>0. /\ NfsState = "READ" /\ filefh = nfs_path /\ dirfh = nfs_path
        /\ NfsDownloadState = "FAIL"
    BY <1>4 DEF ReadReply, HandlesAreCurrent, SuccessIsEarned, TypeOK
  <2>1. CASE Good(m) /\ m.count > 0
    <3>1. m.value = nfs_offset /\ m.count \in 1..FileSize - nfs_offset /\ IsFile(filefh)
      BY <2>0, <2>1, GoodAnswers, CurrentAnswer DEF Good
    <3> DEFINE newsize == nfs_offset + m.count
    <3>2. /\ nfs_offset' = newsize /\ NfsState' = "READ" /\ NfsDownloadState' = "FAIL"
          /\ StoreBlock(m)
          /\ UNCHANGED <<portVars, fs_mounted, dirfh, filefh, nfs_path, NetState>>
          /\ NfsSend(waiting)
      BY <1>4, <2>0, <2>1 DEF ReadReply, Good
    <3>3. newsize \in 0..FileSize /\ nfs_offset \in Nat
      BY <3>1 DEF TypeOK
    <3>4. Channels' /\ NewestIsCurrent'
      BY <2>0, <3>2, <3>3, Sent DEF TypeOK, Calls, NfsCalls
    <3>5. NetBootFileXferSize' = newsize
      BY <2>0, <3>1, <3>2, <3>3 DEF StoreBlock, ReadIsPrefix
    <3>6. /\ DOMAIN memory' = DOMAIN memory \cup (nfs_offset..newsize - 1)
          /\ \A o \in DOMAIN memory' :
                memory'[o] = IF o \in nfs_offset..newsize - 1 THEN o ELSE memory[o]
      BY <3>1, <3>2, <3>3 DEF StoreBlock
    <3>7. TypeOK'
      BY <1>t, <2>0, <3>2, <3>3, <3>4, <3>5, <3>6 DEF TypeOK, Channels, portVars
    <3>8. Loaded(nfs_offset)'
      BY <2>0, <3>2, <3>3, <3>6 DEF ReadIsPrefix, Loaded
    <3>9. HandlesAreCurrent' /\ ReadIsPrefix' /\ SuccessIsEarned'
      BY <2>0, <3>1, <3>2, <3>5, <3>8 DEF HandlesAreCurrent, ReadIsPrefix, SuccessIsEarned,
         IsFile, Loaded
    <3> QED
      BY <1>t, <3>2, <3>4, <3>7, <3>9
  <2>2. CASE Matches(m) /\ m.status = "inval"
    <3>1. ~IsFile(filefh)
      BY <2>0, <2>2, GoodAnswers, CurrentAnswer
    <3>2. /\ NfsState' = "READLINK"
          /\ UNCHANGED <<nfs_offset, NfsDownloadState, fileVars>>
          /\ UNCHANGED <<portVars, fs_mounted, dirfh, filefh, nfs_path, NetState>>
          /\ NfsSend(waiting)
      BY <1>4, <2>2 DEF ReadReply, Good
    <3>3. Channels' /\ NewestIsCurrent'
      BY <3>2, Sent DEF TypeOK, Calls, NfsCalls
    <3>4. TypeOK'
      BY <1>t, <3>2, <3>3 DEF TypeOK, Channels, Calls, NfsCalls, portVars, fileVars
    <3>5. nfs_offset = 0 /\ NetBootFileXferSize = 0
      BY <2>0, <3>1 DEF ReadIsPrefix, TypeOK
    <3>6. HandlesAreCurrent' /\ ReadIsPrefix' /\ SuccessIsEarned'
      BY <2>0, <3>2, <3>5 DEF HandlesAreCurrent, ReadIsPrefix, SuccessIsEarned, fileVars
    <3> QED
      BY <1>t, <3>2, <3>3, <3>4, <3>6
  <2>3. CASE ~(Good(m) /\ m.count > 0) /\ ~(Matches(m) /\ m.status = "inval")
    <3>1. /\ NfsDownloadState' = DownloadState(m)
          /\ NfsState' = "UMOUNT"
          /\ UNCHANGED <<nfs_offset, fileVars>>
          /\ UNCHANGED <<portVars, fs_mounted, dirfh, filefh, nfs_path, NetState>>
          /\ NfsSend(waiting)
      BY <1>4, <2>3 DEF ReadReply
    <3>2. Channels' /\ NewestIsCurrent'
      BY <3>1, Sent DEF TypeOK, Calls, MountCalls
    <3>3. TypeOK'
      BY <1>t, <3>1, <3>2 DEF TypeOK, Channels, Calls, MountCalls, portVars, fileVars, DownloadState
    <3>4. Good(m) => nfs_offset = FileSize
      BY <2>0, <2>3, GoodAnswers, CurrentAnswer DEF Good
    <3>5. SuccessIsEarned'
      BY <2>0, <3>1, <3>4 DEF SuccessIsEarned, DownloadState, ReadIsPrefix, Loaded, fileVars
    <3>6. HandlesAreCurrent' /\ ReadIsPrefix'
      BY <3>1 DEF HandlesAreCurrent, ReadIsPrefix
    <3> QED
      BY <1>t, <3>1, <3>2, <3>3, <3>5, <3>6
  <2> QED BY <2>1, <2>2, <2>3
<1>5. CASE ReadlinkReply(m, waiting)
  <2>1. CASE ~Good(m)
    BY <1>5, <1>a, <2>1 DEF ReadlinkReply
  <2>2. CASE Good(m)
    <3>1. m.value = LinkTarget(filefh) /\ filefh = nfs_path
      BY <1>5, <2>2, GoodAnswers, CurrentAnswer DEF Good, ReadlinkReply, HandlesAreCurrent
    <3>2. m.value \in Names
      BY <3>1 DEF LinkTarget, Names, TypeOK
    <3>3. Channels' /\ NewestIsCurrent'
      BY <1>5, <2>2, <3>2, Sent DEF ReadlinkReply, TypeOK, Calls, MountCalls
    <3>4. TypeOK'
      BY <1>5, <1>t, <2>2, <3>2, <3>3 DEF ReadlinkReply, TypeOK, Channels, Calls, MountCalls,
         portVars, fileVars
    <3>5. HandlesAreCurrent' /\ ReadIsPrefix' /\ SuccessIsEarned'
      BY <1>5, <2>2 DEF ReadlinkReply, HandlesAreCurrent, ReadIsPrefix, SuccessIsEarned,
         fileVars
    <3> QED
      BY <1>5, <1>t, <2>2, <3>3, <3>4, <3>5 DEF ReadlinkReply
  <2> QED BY <2>1, <2>2
<1>6. CASE UmountReply(m, waiting)
  <2>1. /\ NfsState = "UMOUNT" /\ NetState' \in {NfsDownloadState, "FAIL"}
        /\ dirfh' \in {dirfh, NoHandle} /\ fs_mounted' \in BOOLEAN
        /\ requests' = requests /\ replies' = waiting
        /\ UNCHANGED <<NfsState, portVars, filefh, nfs_path, nfs_offset, NfsDownloadState, fileVars>>
    BY <1>6 DEF UmountReply, TypeOK
  <2>2. NetState' \in {"SUCCESS", "FAIL"}
    BY <2>1 DEF TypeOK
  <2>3. Channels' /\ NewestIsCurrent'
    BY <2>1, <2>2, NothingSent
  <2>4. TypeOK'
    BY <1>t, <2>1, <2>2, <2>3 DEF TypeOK, Channels, portVars, fileVars
  <2>5. HandlesAreCurrent' /\ ReadIsPrefix' /\ SuccessIsEarned'
    BY <2>1, <2>2 DEF HandlesAreCurrent, ReadIsPrefix, SuccessIsEarned, Loaded, fileVars
  <2> QED
    BY <2>2, <2>3, <2>4, <2>5
<1> QED
  BY <1>1, <1>2, <1>3, <1>4, <1>5, <1>6 DEF NfsHandler
\* Every step does.
LEMMA InductiveStep == IndInv /\ [Next]_vars => IndInv'
<1> SUFFICES ASSUME IndInv, [Next]_vars PROVE IndInv'
  OBVIOUS
<1> USE NfsAssumption
<1> USE DEF IndInv
<1>k. ASSUME requests' \subseteq requests, replies' \subseteq replies, faults' \in 0..MaxFaults,
             UNCHANGED <<clientVars, envVars>>
      PROVE  IndInv'
  <2>1. Channels' /\ NewestIsCurrent'
    BY <1>k, NothingSent DEF clientVars, envVars, netVars
  <2>2. TypeOK'
    BY <1>k, <2>1 DEF TypeOK, Channels, clientVars, envVars, netVars, handleVars, portVars, fileVars
  <2> QED
    BY <1>k, <2>1, <2>2 DEF clientVars, netVars, handleVars, fileVars, HandlesAreCurrent,
       ReadIsPrefix, SuccessIsEarned, Loaded
<1>1. CASE ClientReceive
  <2>1. PICK m \in replies, again \in BOOLEAN :
          /\ again => ~prompt /\ faults < MaxFaults
          /\ faults' = IF again THEN faults + 1 ELSE faults
          /\ LET waiting == IF again THEN replies ELSE replies \ {m}
             IN  IF packetHandler = "nfs"
                   THEN NfsHandler(m, waiting)
                   ELSE replies' = waiting /\ UNCHANGED <<clientVars, requests>>
    BY <1>1 DEF ClientReceive
  <2> DEFINE waiting == IF again THEN replies ELSE replies \ {m}
  <2>2. waiting \subseteq replies /\ faults' \in 0..MaxFaults
    BY <2>1 DEF TypeOK
  <2>3. CASE packetHandler = "nfs"
    BY <1>1, <2>1, <2>2, <2>3, HandlerStep DEF ClientReceive
  <2>4. CASE packetHandler # "nfs"
    BY <1>1, <1>k, <2>1, <2>2, <2>4 DEF ClientReceive
  <2> QED BY <2>3, <2>4
<1>2. CASE NfsTimeout
  <2>1. CASE NfsTimeoutCount' > NFS_RETRY_COUNT
    <3>1. /\ NetStartAgain
          /\ UNCHANGED <<NfsState, portVars, handleVars, NfsDownloadState, fileVars, envVars,
                         faults, requests, replies>>
      BY <1>2, <2>1 DEF NfsTimeout
    <3>2. /\ NetState' \in {NetState, "FAIL"} /\ NetTryCount' \in 1..NetRetry + 1
          /\ NetState' = "CONTINUE" => packetHandler' = "ignore"
          /\ packetHandler' \in {"nfs", "ignore"}
      BY <1>2, <3>1 DEF NetStartAgain, NfsTimeout, TypeOK
    <3>3. Channels' /\ NewestIsCurrent'
      BY <3>1, <3>2, NothingSent DEF envVars, TypeOK
    <3>4. TypeOK'
      BY <1>2, <3>1, <3>2, <3>3 DEF NfsTimeout, TypeOK, Channels, handleVars, portVars, fileVars, envVars
    <3> QED
      BY <3>1, <3>2, <3>3, <3>4 DEF handleVars, fileVars, HandlesAreCurrent, ReadIsPrefix,
         SuccessIsEarned, Loaded
  <2>2. CASE ~(NfsTimeoutCount' > NFS_RETRY_COUNT)
    <3>1. /\ NfsSend(replies) /\ NfsTimeoutCount' \in 0..NFS_RETRY_COUNT
          /\ UNCHANGED <<NfsState, portVars, handleVars, NfsDownloadState, fileVars, envVars,
                         faults, netVars>>
      BY <1>2, <2>2 DEF NfsTimeout, TypeOK
    <3>2. Channels' /\ NewestIsCurrent'
      BY <3>1, Sent DEF TypeOK, handleVars
    <3>3. TypeOK'
      BY <3>1, <3>2 DEF TypeOK, Channels, handleVars, portVars, fileVars, netVars, envVars
    <3> QED
      BY <3>1, <3>2, <3>3 DEF handleVars, fileVars, netVars, HandlesAreCurrent, ReadIsPrefix,
         SuccessIsEarned, Loaded
  <2> QED BY <2>1, <2>2
<1>3. CASE StartAgainTimeout
  <2>1. /\ NetState' = "CONTINUE" /\ NfsStart(replies)
        /\ UNCHANGED <<envVars, faults>>
    BY <1>3 DEF StartAgainTimeout, NfsStart
  <2>2. Channels' /\ NewestIsCurrent'
    BY <2>1, Sent DEF NfsStart, TypeOK, Calls, PortmapCalls, Names
  <2>3. TypeOK'
    BY <2>1, <2>2 DEF NfsStart, TypeOK, Channels, Calls, PortmapCalls, Names, portVars, envVars
  <2> QED
    BY <2>1, <2>2, <2>3 DEF NfsStart, HandlesAreCurrent, ReadIsPrefix, SuccessIsEarned
<1>4. CASE ServerReceive
  <2>0. PICK r \in requests :
          /\ requests' = requests \ {r}
          /\ \E m \in Answers(r) : replies' = Put(replies, m)
          /\ UNCHANGED <<clientVars, envVars, faults>>
    BY <1>4 DEF ServerReceive
  <2>1. PICK m \in Answers(r) :
          /\ requests' = requests \ {r}
          /\ replies' = Put(replies, m)
          /\ UNCHANGED <<clientVars, envVars, faults>>
    BY <2>0
  <2>2. m \in Reply /\ m.newest = r.newest
    BY AnswersTyped DEF Channels
  <2>3. /\ replies' \subseteq replies \cup {m}
        /\ IsFiniteSet(replies') /\ Cardinality(replies') <= MaxInFlight
    BY <2>1, PutFits DEF Channels
  <2>4. requests' \subseteq requests /\ IsFiniteSet(requests') /\ Cardinality(requests') <= MaxInFlight
    BY <2>1, PartFits DEF Channels
  <2>5. Channels'
    BY <2>2, <2>3, <2>4 DEF Channels
  <2>6. CurrentCall' = CurrentCall /\ (Awaiting' <=> Awaiting)
    BY <2>1 DEF CurrentCall, Awaiting, clientVars, handleVars, netVars
  <2>7. Answers(CurrentCall)' = Answers(CurrentCall)
    BY <2>1, <2>6 DEF Answers, envVars
  <2>8. NewestIsCurrent'
    BY <2>2, <2>3, <2>4, <2>6, <2>7 DEF NewestIsCurrent
  <2>9. TypeOK'
    BY <2>1, <2>5 DEF TypeOK, Channels, clientVars, envVars, netVars, handleVars, portVars, fileVars
  <2> QED
    BY <2>1, <2>5, <2>8, <2>9 DEF clientVars, netVars, handleVars, fileVars, HandlesAreCurrent,
       ReadIsPrefix, SuccessIsEarned, Loaded
<1>5. CASE Lose
  BY <1>5, <1>k DEF Lose, TypeOK
<1>6. CASE Over \/ UNCHANGED vars
  BY <1>6, <1>k DEF Over, vars, TypeOK
<1> QED
  BY <1>1, <1>2, <1>3, <1>4, <1>5, <1>6 DEF Next

\* The first NfsStart establishes the invariant.
LEMMA Inductive == Spec => []IndInv
<1>1. Init => IndInv
  <2> SUFFICES ASSUME Init PROVE IndInv
    OBVIOUS
  <2>1. requests = {CurrentCall} /\ CurrentCall \in Request
    BY NfsAssumption DEF Init, CurrentCall, Request, Calls, PortmapCalls, Names, NoHandle
  <2>2. IsFiniteSet(requests) /\ Cardinality(requests) = 1
    BY <2>1, FS_Singleton
  <2>3. replies = {} /\ IsFiniteSet(replies) /\ Cardinality(replies) = 0
    BY FS_EmptySet DEF Init
  <2>4. Channels
    BY <2>1, <2>2, <2>3, NfsAssumption DEF Channels
  <2>5. NewestIsCurrent
    BY <2>1, <2>3 DEF NewestIsCurrent
  <2>6. DOMAIN memory = {}
    BY DEF Init
  <2>7. TypeOK
    <3>1. NfsState \in Calls /\ 0 \in Names
      BY NfsAssumption DEF Init, Calls, PortmapCalls, Names
    <3>2. /\ nfs_offset \in 0..FileSize /\ NetBootFileXferSize \in 0..FileSize
          /\ NfsTimeoutCount \in 0..NFS_RETRY_COUNT + 1 /\ NetTryCount \in 1..NetRetry + 1
          /\ faults \in 0..MaxFaults
      BY NfsAssumption DEF Init
    <3> QED
      BY <2>4, <2>6, <3>1, <3>2 DEF Init, TypeOK, Channels
  <2> QED
    BY <2>4, <2>5, <2>7, NfsAssumption DEF Init, IndInv, HandlesAreCurrent, ReadIsPrefix,
       SuccessIsEarned
<1> QED
  BY <1>1, InductiveStep, PTL DEF Spec
-----------------------------------------------------------------------------
(* What nfs.c achieves. *)

\* Types: in particular nfs_offset and the size never pass the end of the file, the
\* time-outs never pass NFS_RETRY_COUNT by more than one, nor the attempts netretry.
THEOREM TypeCorrect == Spec => []TypeOK
BY Inductive, PTL DEF IndInv

\* nfs_read_reply and nfs_readlink_reply always concern the name now wanted: the handles
\* that nfs_mount_reply and nfs_lookup_reply left are never those of an earlier link or
\* of an attempt that was given up.
THEOREM Handles == Spec => []HandlesAreCurrent
BY Inductive, PTL DEF IndInv

\* When the nfs command reports success the whole file is in memory and the size is its
\* size: rpc_id keeps out what is late, repeated, or answers another attempt.
THEOREM Complete == Spec => []SuccessIsComplete
<1>1. IndInv => SuccessIsComplete
  BY DEF IndInv, SuccessIsEarned, SuccessIsComplete, Loaded
<1> QED
  BY <1>1, Inductive, PTL
=============================================================================
