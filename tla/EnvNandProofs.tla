---------------------------- MODULE EnvNandProofs ----------------------------
(***************************************************************************)
(* EnvNand keeps every durable value, for any set of environments and any  *)
(* range of serial numbers, as long as the only thing that stops a save is *)
(* the loss of power.                                                      *)
(***************************************************************************)
EXTENDS EnvNand, TLAPS

\* No operation reports an error, so every serial number is one that was written.
NoErrors == FailingOps = {}

\* Of two consecutive serial numbers the comparison finds the later one, across
\* the wrap as well.
LEMMA LaterIsSuccessor ==
    ASSUME NEW s \in Serials
    PROVE  /\ Succ(s) \in Serials
           /\ LaterCopy(Succ(s), s) = 1
           /\ LaterCopy(s, Succ(s)) = 2
<1>1. MaxSerial \in Nat /\ MaxSerial >= 2
  BY EnvNandAssumption, Zenon
<1> QED
  BY <1>1 DEF Serials, Succ, LaterCopy

\* A boot takes the copy in use when the other one is invalid or older.
LEMMA ChoiceOf ==
    ASSUME NEW n \in [Copies -> Copy], NEW c \in Copies, n[c].ok = TRUE,
           n[Other(c)].ok = TRUE => n[c].flags = Succ(n[Other(c)].flags)
    PROVE  RelocateChoice(n) = c /\ BootValue(n) = n[c].data
<1>1. /\ c \in {1, 2} /\ Other(1) = 2 /\ Other(2) = 1
      /\ n[1].flags \in Serials /\ n[2].flags \in Serials
      /\ n[1].ok \in BOOLEAN /\ n[2].ok \in BOOLEAN
  BY DEF Copies, Other, Copy
<1>2. RelocateChoice(n) = c
  <2>1. CASE c = 1
    BY <1>1, <2>1, LaterIsSuccessor DEF RelocateChoice
  <2>2. CASE c = 2
    BY <1>1, <2>2, LaterIsSuccessor DEF RelocateChoice
  <2> QED BY <1>1, <2>1, <2>2
<1>3. c # 0
  BY <1>1
<1> QED
  BY <1>2, <1>3 DEF BootValue

\* With no valid copy a boot comes up with the default environment.
LEMMA NoChoice ==
    ASSUME NEW n \in [Copies -> Copy], NEW c \in Copies,
           n[c].ok = FALSE, n[Other(c)].ok = FALSE
    PROVE  RelocateChoice(n) = 0 /\ BootValue(n) = DefaultEnv
<1>1. n[1].ok = FALSE /\ n[2].ok = FALSE
  BY DEF Copies, Other
<1>2. RelocateChoice(n) = 0
  BY <1>1 DEF RelocateChoice
<1> QED
  BY <1>2 DEF BootValue

\* Every variable keeps its type.
THEOREM TypeCorrect == Spec => []TypeOK
<1>a. /\ DefaultEnv \in Values /\ MaxSerial \in Serials /\ 0 \in Serials
      /\ BadCopy \in Copy
  BY EnvNandAssumption, SMT DEF Serials, BadCopy, Copy
<1>1. Init => TypeOK
  BY <1>a DEF Init, TypeOK, Copies
<1>2. TypeOK /\ [Next]_vars => TypeOK'
  <2> SUFFICES ASSUME TypeOK, [Next]_vars PROVE TypeOK'
    OBVIOUS
  <2>a. Other(env_valid) \in Copies /\ Written \in [Copies -> Copy] /\ Erased \in [Copies -> Copy]
    BY <1>a DEF TypeOK, Other, Copies, Written, Erased, Copy
  <2>1. ASSUME NEW bad \in SUBSET Copies, Relocate(bad) PROVE TypeOK'
    <3>1. AsRead(bad) \in [Copies -> Copy]
      BY <1>a DEF AsRead, TypeOK
    <3>2. RelocateChoice(AsRead(bad)) \in {0, 1, 2}
      BY DEF RelocateChoice, LaterCopy
    <3>3. BootValue(AsRead(bad)) \in Values
      BY <1>a, <3>1, <3>2 DEF BootValue, Copy, Copies
    <3> QED
      BY <1>a, <2>1, <3>2, <3>3 DEF Relocate, TypeOK, Copies, Copy
  <2>2. CASE SetEnv
    BY <2>2 DEF SetEnv, TypeOK
  <2>3. CASE SaveBegin
    BY <2>3, LaterIsSuccessor DEF SaveBegin, TypeOK
  <2>4. CASE SaveErase
    BY <2>4, <2>a DEF SaveErase, TypeOK
  <2>5. CASE SaveWrite
    BY <2>5, <2>a DEF SaveWrite, TypeOK
  <2>6. CASE PowerFail
    BY <2>6, <2>a, <1>a DEF PowerFail, TypeOK, Copies
  <2>7. CASE UNCHANGED vars
    BY <2>7 DEF vars, TypeOK
  <2> QED
    BY <2>1, <2>2, <2>3, <2>4, <2>5, <2>6, <2>7 DEF Next
<1> QED
  BY <1>1, <1>2, PTL DEF Spec
-----------------------------------------------------------------------------
(* Durability. *)

\* A state off the power is safe when the copies are consecutive and a boot finds
\* a candidate; a running state when the copy in use is the later one as well.
LEMMA InductiveStep ==
    ASSUME NoErrors, IndInv, TypeOK', Next PROVE IndInv'
<1>a. /\ nand \in [Copies -> Copy] /\ nand' \in [Copies -> Copy]
      /\ env_valid \in Copies /\ Other(env_valid) \in Copies
      /\ Other(env_valid) # env_valid /\ Other(Other(env_valid)) = env_valid
      /\ \A c \in Copies : c \in {env_valid, Other(env_valid)}
      /\ \A c \in Copies : nand[c].ok \in BOOLEAN /\ nand'[c].ok \in BOOLEAN
  BY DEF IndInv, TypeOK, Other, Copies, Copy
\* What makes up the invariant after a step, in terms of the copy in use.
<1>b. ASSUME NEW c \in Copies,
             \/ /\ nand'[c].ok = TRUE
                /\ nand'[c].data \in {durable'} \cup attempts'
                /\ nand'[Other(c)].ok = TRUE =>
                      nand'[c].flags = Succ(nand'[Other(c)].flags)
             \/ /\ nand'[c].ok = FALSE /\ nand'[Other(c)].ok = FALSE
                /\ durable' = DefaultEnv
      PROVE  Durability' /\ ConsecutiveSerials'
  <2>1. c \in Copies /\ Other(c) \in Copies /\ Copies = {c, Other(c)}
    BY DEF Copies, Other
  <2>2. BootValue(nand') \in {durable'} \cup attempts'
    BY <1>a, <1>b, ChoiceOf, NoChoice
  <2>3. Durability'
    BY <2>2 DEF Durability, BootValue, RelocateChoice
  <2>4. ConsecutiveSerials'
    BY <1>b, <2>1 DEF ConsecutiveSerials
  <2> QED BY <2>3, <2>4
\* The invariant before the step, in the same terms.
<1>c. ASSUME pc # "off"
      PROVE  \/ /\ nand[env_valid].ok = TRUE
                /\ nand[env_valid].data = durable
                /\ flags = IF pc = "run" THEN nand[env_valid].flags
                           ELSE Succ(nand[env_valid].flags)
                /\ nand[Other(env_valid)].ok = TRUE =>
                      nand[env_valid].flags = Succ(nand[Other(env_valid)].flags)
             \/ /\ nand[env_valid].ok = FALSE /\ nand[Other(env_valid)].ok = FALSE
                /\ durable = DefaultEnv
  BY <1>a, <1>c DEF IndInv, CopyInUse
<1>1. ASSUME NEW bad \in SUBSET Copies, Relocate(bad) PROVE IndInv'
  <2>1. AsRead(bad) = nand
    BY <1>1, <1>a DEF Relocate, AsRead, NoErrors
  <2>2. Durability' /\ ConsecutiveSerials'
    BY <1>1, <2>1 DEF Relocate, IndInv, Durability, BootValue, RelocateChoice,
       ConsecutiveSerials
  <2>3. RelocateChoice(nand) \in {0, 1, 2}
    BY DEF RelocateChoice, LaterCopy
  <2>4. CASE RelocateChoice(nand) = 0
    <3>1. \A c \in Copies : nand[c].ok = FALSE
      BY <1>a, <2>4 DEF RelocateChoice, LaterCopy, Copies
    <3>2. env_valid' = 1 /\ nand' = nand /\ pc' = "run" /\ durable' = DefaultEnv
      BY <1>1, <2>1, <2>4 DEF Relocate, BootValue
    <3> QED
      BY <2>2, <3>1, <3>2 DEF IndInv, CopyInUse, Other, Copies
  <2>5. CASE RelocateChoice(nand) # 0
    <3>1. /\ env_valid' = RelocateChoice(nand) /\ env_valid' \in Copies
          /\ nand' = nand /\ pc' = "run"
          /\ durable' = nand[env_valid'].data /\ flags' = nand[env_valid'].flags
      BY <1>1, <2>1, <2>3, <2>5 DEF Relocate, BootValue, Copies
    <3>2. nand[env_valid'].ok = TRUE
      <4>1. nand[1].ok \in BOOLEAN /\ nand[2].ok \in BOOLEAN
        BY <1>a DEF Copies
      <4>2. /\ RelocateChoice(nand) = 1 => nand[1].ok = TRUE
            /\ RelocateChoice(nand) = 2 => nand[2].ok = TRUE
        BY <4>1 DEF RelocateChoice
      <4> QED
        BY <2>3, <2>5, <3>1, <4>2
    <3>3. nand[Other(env_valid')].ok = TRUE =>
             nand[env_valid'].flags = Succ(nand[Other(env_valid')].flags)
      <4> SUFFICES ASSUME nand[Other(env_valid')].ok = TRUE
                   PROVE  nand[env_valid'].flags = Succ(nand[Other(env_valid')].flags)
        OBVIOUS
      <4>1. Other(env_valid') \in Copies /\ Copies = {env_valid', Other(env_valid')}
            /\ Other(Other(env_valid')) = env_valid'
        BY <3>1 DEF Other, Copies
      <4>2. PICK d \in Copies : nand[d].flags = Succ(nand[Other(d)].flags)
        BY <3>2, <4>1 DEF IndInv, ConsecutiveSerials
      <4>3. CASE d = env_valid'
        BY <4>2, <4>3
      <4>4. CASE d = Other(env_valid')
        <5>1. RelocateChoice(nand) = d
          BY <1>a, <3>2, <4>1, <4>2, <4>4, ChoiceOf
        <5> QED BY <3>1, <4>4, <5>1 DEF Other, Copies
      <4> QED BY <4>1, <4>3, <4>4
    <3> QED
      BY <2>2, <3>1, <3>2, <3>3 DEF IndInv, CopyInUse
  <2> QED BY <2>4, <2>5
<1>2. CASE SetEnv
  <2>1. /\ nand' = nand /\ env_valid' = env_valid /\ durable' = durable
        /\ attempts' = attempts /\ pc = "run" /\ pc' = "run" /\ flags' = flags
    BY <1>2 DEF SetEnv
  <2>2. Durability' /\ ConsecutiveSerials'
    BY <2>1 DEF IndInv, Durability, BootValue, RelocateChoice, ConsecutiveSerials
  <2> QED
    BY <2>1, <2>2 DEF IndInv, CopyInUse
<1>3. CASE SaveBegin
  <2>1. /\ nand' = nand /\ env_valid' = env_valid /\ durable' = durable
        /\ attempts' = attempts \cup {ram} /\ pc = "run" /\ pc' = "erase"
        /\ flags' = Succ(flags) /\ ram' = ram
    BY <1>3 DEF SaveBegin
  <2>2. Durability' /\ ConsecutiveSerials'
    BY <2>1 DEF IndInv, Durability, BootValue, RelocateChoice, ConsecutiveSerials
  <2> QED
    BY <2>1, <2>2 DEF IndInv, CopyInUse
<1>4. CASE SaveErase
  <2>1. /\ pc = "erase" /\ pc' = "write" /\ nand' = Erased
        /\ UNCHANGED <<env_valid, ram, flags, durable, attempts>>
    BY <1>4 DEF SaveErase, NoErrors
  <2>2. nand'[env_valid] = nand[env_valid] /\ nand'[Other(env_valid)].ok = FALSE
    BY <1>a, <2>1 DEF Erased, BadCopy
  <2>3. Durability' /\ ConsecutiveSerials'
    BY <1>a, <1>b, <1>c, <2>1, <2>2
  <2> QED
    BY <1>a, <1>c, <2>1, <2>2, <2>3 DEF IndInv, CopyInUse
<1>5. CASE SaveWrite
  <2>1. /\ pc = "write" /\ pc' = "run" /\ nand' = Written
        /\ env_valid' = Other(env_valid) /\ durable' = ram /\ flags' = flags
    BY <1>5 DEF SaveWrite, NoErrors
  <2>2. /\ nand'[env_valid] = nand[env_valid]
        /\ nand'[Other(env_valid)] = [ok |-> TRUE, data |-> ram, flags |-> flags]
    BY <1>a, <2>1 DEF Written
  <2>3. nand'[env_valid].ok = TRUE => flags = Succ(nand'[env_valid].flags)
    BY <1>c, <2>1, <2>2
  <2>4. Durability' /\ ConsecutiveSerials'
    <3>1. /\ nand'[Other(env_valid)].ok = TRUE
          /\ nand'[Other(env_valid)].data \in {durable'} \cup attempts'
          /\ nand'[Other(env_valid)].flags = flags
      BY <2>1, <2>2
    <3>2. nand'[Other(Other(env_valid))].ok = TRUE =>
             nand'[Other(env_valid)].flags = Succ(nand'[Other(Other(env_valid))].flags)
      BY <1>a, <2>3, <3>1
    <3> QED
      BY <1>a, <1>b, <3>1, <3>2
  <2> QED
    BY <1>a, <2>1, <2>2, <2>3, <2>4 DEF IndInv, CopyInUse
<1>6. CASE PowerFail
  <2>1. /\ pc' = "off" /\ durable' = durable /\ attempts' = attempts
        /\ \/ nand' = nand
           \/ pc = "erase" /\ nand' = Erased
           \/ pc = "write" /\ nand' = Written
        /\ pc # "off"
    BY <1>6 DEF PowerFail
  <2>2. Durability' /\ ConsecutiveSerials'
    <3>1. CASE nand' = nand
      BY <2>1, <3>1 DEF IndInv, Durability, BootValue, RelocateChoice, ConsecutiveSerials
    <3>2. CASE pc = "erase" /\ nand' = Erased
      <4>1. nand'[env_valid] = nand[env_valid] /\ nand'[Other(env_valid)].ok = FALSE
        BY <1>a, <3>2 DEF Erased, BadCopy
      <4> QED
        BY <1>a, <1>b, <1>c, <2>1, <4>1
    <3>3. CASE pc = "write" /\ nand' = Written
      <4>1. /\ nand'[env_valid] = nand[env_valid]
            /\ nand'[Other(env_valid)] = [ok |-> TRUE, data |-> ram, flags |-> flags]
        BY <1>a, <3>3 DEF Written
      <4>2. ram \in attempts
        BY <3>3 DEF IndInv, CopyInUse
      <4>3. nand'[env_valid].ok = TRUE => flags = Succ(nand'[env_valid].flags)
        BY <1>c, <3>3, <4>1
      <4>4. /\ nand'[Other(env_valid)].ok = TRUE
            /\ nand'[Other(env_valid)].data \in {durable'} \cup attempts'
            /\ nand'[Other(env_valid)].flags = flags
        BY <2>1, <4>1, <4>2
      <4>5. nand'[Other(Other(env_valid))].ok = TRUE =>
               nand'[Other(env_valid)].flags = Succ(nand'[Other(Other(env_valid))].flags)
        BY <1>a, <4>3, <4>4
      <4> QED
        BY <1>a, <1>b, <4>4, <4>5
    <3> QED BY <2>1, <3>1, <3>2, <3>3
  <2> QED
    BY <2>1, <2>2 DEF IndInv, CopyInUse
<1> QED
  BY <1>1, <1>2, <1>3, <1>4, <1>5, <1>6 DEF Next

\* The inductive invariant holds throughout.
LEMMA Inductive == ASSUME NoErrors PROVE Spec => []IndInv
<1>1. Init => IndInv
  <2> SUFFICES ASSUME Init PROVE IndInv
    OBVIOUS
  <2>1. TypeOK
    <3>1. 0 \in Serials /\ DefaultEnv \in Values
      BY EnvNandAssumption, SMT DEF Serials
    <3> QED
      BY <3>1 DEF Init, TypeOK, Copies, Copy, BadCopy
  <2>2. nand[1].ok = FALSE /\ nand[2].ok = FALSE
    BY DEF Init, BadCopy, Copies
  <2>3. Durability /\ ConsecutiveSerials
    BY <2>2 DEF Init, Durability, BootValue, RelocateChoice, ConsecutiveSerials, Copies
  <2> QED
    BY <2>1, <2>3 DEF Init, IndInv, CopyInUse
<1>2. IndInv /\ TypeOK' /\ [Next]_vars => IndInv'
  <2> SUFFICES ASSUME IndInv, TypeOK', [Next]_vars PROVE IndInv'
    OBVIOUS
  <2>1. CASE Next
    BY <2>1, InductiveStep
  <2>2. CASE UNCHANGED vars
    BY <2>2 DEF vars, IndInv, TypeOK, Durability, BootValue, RelocateChoice,
       ConsecutiveSerials, CopyInUse
  <2> QED BY <2>1, <2>2
<1> QED
  BY <1>1, <1>2, TypeCorrect, PTL DEF Spec

\* The redundant NAND environment (env_nand.c) survives a power failure at any
\* point of saveenv, however often its 8-bit serial number wraps.
THEOREM Durable == ASSUME NoErrors PROVE Spec => []Durability
BY Inductive, PTL DEF IndInv

\* Two valid copies always carry consecutive serial numbers, so that the special
\* case of env_relocate_spec for the wrap is the only one it needs.
THEOREM Consecutive == ASSUME NoErrors PROVE Spec => []ConsecutiveSerials
BY Inductive, PTL DEF IndInv

\* Every step of the NAND environment is a step of the store its users rely on,
\* or invisible to them.
THEOREM Implements == ASSUME NoErrors PROVE Spec => ImplementsStore
<1>1. Init => Store!Init
  BY DEF Init, Store!Init, AbstractPhase
<1>2. IndInv /\ [Next]_vars => [Store!Next]_(Store!vars)
  <2> SUFFICES ASSUME IndInv, [Next]_vars PROVE [Store!Next]_(Store!vars)
    OBVIOUS
  <2> USE DEF Store!vars, AbstractPhase
  <2>1. ASSUME NEW bad \in SUBSET Copies, Relocate(bad) PROVE Store!Next
    <3>1. AsRead(bad) = nand
      BY <2>1 DEF Relocate, AsRead, NoErrors, IndInv, TypeOK
    <3> QED
      BY <2>1, <3>1 DEF Relocate, IndInv, Durability, Store!Next, Store!Boot
  <2>2. CASE SetEnv
    BY <2>2 DEF SetEnv, Store!Next, Store!SetEnv
  <2>3. CASE SaveBegin
    BY <2>3 DEF SaveBegin, Store!Next, Store!BeginSave
  <2>4. CASE SaveErase
    BY <2>4 DEF SaveErase, NoErrors
  <2>5. CASE SaveWrite
    BY <2>5 DEF SaveWrite, NoErrors, Store!Next, Store!SaveSucceeds
  <2>6. CASE PowerFail
    BY <2>6 DEF PowerFail, Store!Next, Store!PowerFail
  <2>7. CASE UNCHANGED vars
    BY <2>7 DEF vars
  <2> QED
    BY <2>1, <2>2, <2>3, <2>4, <2>5, <2>6, <2>7 DEF Next
<1> QED
  BY <1>1, <1>2, Inductive, PTL DEF Spec, ImplementsStore, Store!Spec
=============================================================================
