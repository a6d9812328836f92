------------------------- MODULE WorkerStoreProofs -------------------------
(***************************************************************************)
(* The worker is a linearizable register for any number of overlapping     *)
(* requests and any set of configurations.                                 *)
(***************************************************************************)
EXTENDS WorkerStore, TLAPS

Pairs == {<<u, u>> : u \in Urls}

Writing == {"drain", "store1", "store2", "storeFlag", "unlock"}
Reading == {"load1", "load2", "loadFlag", "runlock", "healthFlag", "healthRunlock"}

\* The RWMutex does its work: one writer, and no reader once it stores.
Exclusive ==
  /\ \A c \in Clients : pc[c] \in Writing <=> writer = c
  /\ \A c \in Clients : c \in readers <=> pc[c] \in Reading
  /\ \A c \in Clients : pc[c] \in Writing \ {"drain"} => readers = {}

\* What an update in progress has stored so far; otherwise memory is whole.
HalfStored ==
  /\ \A c \in Clients : pc[c] \in Posting \ {"stored"} => copy[c] \in Pairs
  /\ \A c \in Clients :
       /\ pc[c] = "store2" => config[1] = copy[c][1]
       /\ pc[c] = "storeFlag" => config = copy[c]
       /\ pc[c] = "unlock" => config = copy[c] /\ hasConfig
  /\ (hasConfig /\ \A c \in Clients : ~Storing(c)) => config \in Pairs

\* What a reader has copied so far is what memory still holds.
HalfLoaded ==
  \A c \in Clients :
    /\ pc[c] = "load2" => copy[c][1] = config[1]
    /\ pc[c] = "loadFlag" => copy[c] = config

IInv == TypeOK /\ Exclusive /\ HalfStored /\ HalfLoaded

LEMMA PairsType == Pairs \subseteq Urls \X Urls /\ Urls \X Urls \subseteq Words \X Words
BY DEF Pairs, Words

LEMMA InitInv == Init => IInv
<1> SUFFICES ASSUME Init PROVE IInv
  OBVIOUS
<1> USE DEF Init
<1>1. TypeOK
  BY DEF TypeOK, Words, Zero
<1>2. Exclusive
  BY NoOneAssumption DEF Exclusive, Writing, Reading
<1>3. HalfStored /\ HalfLoaded
  BY DEF HalfStored, HalfLoaded, Posting
<1> QED
  BY <1>1, <1>2, <1>3 DEF IInv

LEMMA FreshInv == Fresh /\ run' \in {"up", "down"} => IInv'
<1> SUFFICES ASSUME Fresh, run' \in {"up", "down"} PROVE IInv'
  OBVIOUS
<1> USE DEF Fresh
<1>1. TypeOK'
  BY DEF TypeOK, Words, Zero
<1>2. Exclusive'
  BY NoOneAssumption DEF Exclusive, Writing, Reading
<1>3. HalfStored' /\ HalfLoaded'
  BY DEF HalfStored, HalfLoaded, Posting
<1> QED
  BY <1>1, <1>2, <1>3 DEF IInv

PcType == [Clients -> {"idle"} \cup Posting \cup Hitting \cup Checking]

\* A step that leaves memory alone.
LEMMA TypeFrame ==
  ASSUME TypeOK, run' = run, config' = config, hasConfig' = hasConfig,
         writer' \in Clients \cup {NoOne}, readers' \subseteq Clients,
         pc' \in PcType, copy' \in [Clients -> Words \X Words],
         has' \in [Clients -> BOOLEAN]
  PROVE  TypeOK'
<1>1. /\ run' = run /\ run' \in {"up", "stopping", "down"}
      /\ config' \in Words \X Words
      /\ hasConfig' \in BOOLEAN
      /\ hasConfig' => config' \in Urls \X Urls
  BY Zenon DEF TypeOK
<1> QED
  BY <1>1, Zenon DEF TypeOK, PcType

LEMMA DoneType ==
  ASSUME TypeOK, NEW c \in Clients, Done(c)
  PROVE  /\ pc' \in PcType
         /\ copy' \in [Clients -> Words \X Words]
         /\ has' \in [Clients -> BOOLEAN]
<1>1. pc' \in PcType /\ copy' \in [Clients -> Words \X Words]
  BY DEF Done, Goto, TypeOK, PcType, Words, Zero
<1>2. has' \in [Clients -> BOOLEAN]
  BY Zenon DEF Done, TypeOK
<1> QED
  BY <1>1, <1>2

LEMMA TypeStep == IInv /\ [Next]_vars => TypeOK'
<1> SUFFICES ASSUME IInv, [Next]_vars PROVE TypeOK'
  OBVIOUS
<1>t. TypeOK
  BY DEF IInv
<1> USE DEF TypeOK, Posting, Hitting, Checking, Goto, Move, Done, RUnlock, Words, Zero,
            memory, lock, locals, PcType
<1>1. CASE Boot \/ Exit
  BY <1>1, FreshInv DEF Boot, Exit, IInv
<1>2. CASE Stop
  BY <1>2, <1>t DEF Stop
<1>3. ASSUME NEW c \in Clients, Begin(c) PROVE TypeOK'
  <2>1. CASE RejectConfig(c)
    BY <2>1, <1>t DEF RejectConfig, vars
  <2>2. CASE UpdateConfig(c)
    <3>1. copy' \in [Clients -> Words \X Words]
      BY <2>2, <1>t DEF UpdateConfig
    <3>2. pc' \in PcType
      BY <2>2, <1>t DEF UpdateConfig
    <3>3. UNCHANGED <<run, config, hasConfig, writer, readers, has>>
      BY <2>2 DEF UpdateConfig
    <3>4. writer' \in Clients \cup {NoOne} /\ readers' \subseteq Clients
      BY <3>3, <1>t
    <3>5. has' \in [Clients -> BOOLEAN]
      BY <3>3, <1>t, Zenon
    <3> QED
      BY <3>1, <3>2, <3>3, <3>4, <3>5, <1>t, TypeFrame, Zenon
  <2>3. CASE Hit(c) \/ HealthCheck(c)
    BY <2>3, <1>t DEF Hit, HealthCheck
  <2> QED
    BY <1>3, <2>1, <2>2, <2>3 DEF Begin
<1>4. ASSUME NEW c \in Clients, Lock(c) PROVE TypeOK'
  BY <1>4, <1>t DEF Lock
<1>5. ASSUME NEW c \in Clients, Step(c) PROVE TypeOK'
  <2>1. CASE Drain(c) \/ RespondUpdated(c)
    <3>1. CASE Drain(c)
      BY <3>1, <1>t DEF Drain
    <3>2. CASE RespondUpdated(c)
      BY <3>2, <1>t, DoneType, TypeFrame DEF RespondUpdated
    <3> QED
      BY <2>1, <3>1, <3>2
  <2>2. CASE Store1(c) \/ Store2(c)
    <3>1. copy[c] \in Urls \X Urls
      BY <2>2, PairsType DEF Store1, Store2, IInv, HalfStored
    <3> QED
      BY <2>2, <3>1, <1>t DEF Store1, Store2
  <2>3. CASE StoreFlag(c)
    <3>1. config \in Urls \X Urls
      BY <2>3, PairsType DEF StoreFlag, IInv, HalfStored
    <3> QED
      BY <2>3, <3>1, <1>t DEF StoreFlag
  <2>4. CASE Unlock(c)
    BY <2>4, <1>t DEF Unlock, Blocked
  <2>5. CASE GetConfig(c) \/ HasConfig(c)
    <3>1. readers' \subseteq Clients
      BY <2>5, <1>t DEF GetConfig, HasConfig, RLock
    <3>2. pc' \in PcType
      BY <2>5, <1>t DEF GetConfig, HasConfig, RLock
    <3>3. UNCHANGED <<run, config, hasConfig, writer, copy, has>>
      BY <2>5 DEF GetConfig, HasConfig, RLock
    <3>4. writer' \in Clients \cup {NoOne} /\ copy' \in [Clients -> Words \X Words]
      BY <3>3, <1>t
    <3>5. has' \in [Clients -> BOOLEAN]
      BY <3>3, <1>t, Zenon
    <3> QED
      BY <3>1, <3>2, <3>3, <3>4, <3>5, <1>t, TypeFrame, Zenon
  <2>6. CASE Load1(c) \/ Load2(c)
    <3>1. CASE Load1(c)
      BY <3>1, <1>t DEF Load1
    <3>2. CASE Load2(c)
      BY <3>2, <1>t DEF Load2
    <3> QED
      BY <2>6, <3>1, <3>2
  <2>7. CASE LoadFlag(c) \/ HealthFlag(c)
    <3>1. has' \in [Clients -> BOOLEAN]
      BY <2>7, <1>t, Zenon DEF LoadFlag, HealthFlag
    <3>2. pc' \in PcType
      BY <2>7, <1>t DEF LoadFlag, HealthFlag
    <3>3. UNCHANGED <<run, config, hasConfig, writer, readers, copy>>
      BY <2>7 DEF LoadFlag, HealthFlag
    <3> QED
      BY <3>1, <3>2, <3>3, <1>t
  <2>8. CASE ReleaseConfig(c) \/ RespondHealth(c)
    <3>1. readers' \subseteq Clients
      BY <2>8, <1>t DEF ReleaseConfig, RespondHealth
    <3>2. pc' \in PcType
      BY <2>8, <1>t DEF ReleaseConfig, RespondHealth
    <3>3. copy' \in [Clients -> Words \X Words]
      BY <2>8, <1>t DEF ReleaseConfig, RespondHealth
    <3>4. has' \in [Clients -> BOOLEAN]
      BY <2>8, <1>t, Zenon DEF ReleaseConfig, RespondHealth
    <3>5. UNCHANGED <<run, config, hasConfig, writer>>
      BY <2>8 DEF ReleaseConfig, RespondHealth
    <3>6. writer' \in Clients \cup {NoOne}
      BY <3>5, <1>t
    <3> QED
      BY <3>1, <3>2, <3>3, <3>4, <3>5, <3>6, <1>t, TypeFrame, Zenon
  <2>9. CASE Unavailable(c) \/ ExecuteRequest(c) \/ RespondHit(c)
    <3>1. CASE Unavailable(c)
      BY <3>1, <1>t, DoneType, TypeFrame DEF Unavailable
    <3>2. CASE ExecuteRequest(c)
      BY <3>2, <1>t DEF ExecuteRequest
    <3>3. CASE RespondHit(c)
      BY <3>3, <1>t, DoneType, TypeFrame DEF RespondHit
    <3> QED
      BY <2>9, <3>1, <3>2, <3>3
  <2> QED
    BY <1>5, <2>1, <2>2, <2>3, <2>4, <2>5, <2>6, <2>7, <2>8, <2>9 DEF Step
<1>6. CASE UNCHANGED vars
  BY <1>6, <1>t DEF vars
<1> QED
  BY <1>1, <1>2, <1>3, <1>4, <1>5, <1>6 DEF Next

-----------------------------------------------------------------------------
\* A step of one goroutine that takes no part in the locking.
LEMMA ExclusiveFrame ==
  ASSUME IInv, NEW c \in Clients, NEW l, UNCHANGED lock, Goto(c, l),
         pc[c] \in Writing <=> l \in Writing,
         pc[c] \in Reading <=> l \in Reading,
         l \in Writing \ {"drain"} => readers = {}
  PROVE  Exclusive'
BY DEF IInv, TypeOK, Exclusive, Goto, lock

LEMMA ExclusiveStep == IInv /\ [Next]_vars => Exclusive'
<1> SUFFICES ASSUME IInv, [Next]_vars PROVE Exclusive'
  OBVIOUS
<1> USE DEF Writing, Reading, Move
<1>t. pc \in [Clients -> {"idle"} \cup Posting \cup Hitting \cup Checking]
  BY DEF IInv, TypeOK
<1>x. Exclusive
  BY DEF IInv
<1>1. CASE Boot \/ Exit
  BY <1>1, FreshInv DEF Boot, Exit, IInv
<1>2. CASE Stop
  BY <1>2, <1>x DEF Stop, lock, Exclusive
<1>3. ASSUME NEW c \in Clients, Begin(c) PROVE Exclusive'
  BY <1>3, <1>x, ExclusiveFrame
     DEF Begin, RejectConfig, UpdateConfig, Hit, HealthCheck, vars, lock, Exclusive
<1>4. ASSUME NEW c \in Clients, Lock(c) PROVE Exclusive'
  BY <1>4, <1>t, <1>x, NoOneAssumption DEF Lock, Exclusive, Goto
<1>5. ASSUME NEW c \in Clients, Step(c) PROVE Exclusive'
  <2>1. CASE Drain(c)
    BY <2>1, ExclusiveFrame DEF Drain
  <2>2. CASE Store1(c) \/ Store2(c) \/ StoreFlag(c)
    BY <2>2, <1>x, ExclusiveFrame DEF Store1, Store2, StoreFlag, Exclusive
  <2>3. CASE Unlock(c)
    BY <2>3, <1>t, <1>x, NoOneAssumption
       DEF Unlock, Blocked, Exclusive, Posting, Hitting, Checking
  <2>4. CASE RespondUpdated(c)
    BY <2>4, ExclusiveFrame DEF RespondUpdated, Done
  <2>5. CASE GetConfig(c)
    BY <2>5, <1>t, <1>x, NoOneAssumption DEF GetConfig, RLock, Exclusive, Goto
  <2>6. CASE HasConfig(c)
    BY <2>6, <1>t, <1>x, NoOneAssumption DEF HasConfig, RLock, Exclusive, Goto
  <2>7. CASE Load1(c) \/ Load2(c) \/ LoadFlag(c) \/ HealthFlag(c)
    BY <2>7, ExclusiveFrame DEF Load1, Load2, LoadFlag, HealthFlag
  <2>8. CASE ReleaseConfig(c)
    BY <2>8, <1>t, <1>x DEF ReleaseConfig, RUnlock, Exclusive, Goto
  <2>9. CASE RespondHealth(c)
    BY <2>9, <1>t, <1>x DEF RespondHealth, RUnlock, Done, Exclusive, Goto
  <2>10. CASE Unavailable(c) \/ ExecuteRequest(c) \/ RespondHit(c)
    BY <2>10, ExclusiveFrame DEF Unavailable, ExecuteRequest, RespondHit, Done
  <2> QED
    BY <1>5, <2>1, <2>2, <2>3, <2>4, <2>5, <2>6, <2>7, <2>8, <2>9, <2>10 DEF Step
<1>6. CASE UNCHANGED vars
  BY <1>6, <1>x DEF vars, lock, Exclusive
<1> QED
  BY <1>1, <1>2, <1>3, <1>4, <1>5, <1>6 DEF Next

-----------------------------------------------------------------------------
\* A step of one goroutine that stores nothing.
LEMMA StoredFrame ==
  ASSUME IInv, NEW c \in Clients, NEW l, NEW from, UNCHANGED memory, Move(c, from, l),
         copy' \in [Clients -> Words \X Words],
         \A d \in Clients \ {c} : copy'[d] = copy[d],
         from \notin {"store2", "storeFlag", "unlock"},
         l \notin {"store2", "storeFlag", "unlock"},
         l \in Posting \ {"stored"} => copy'[c] \in Pairs
  PROVE  HalfStored'
BY DEF IInv, TypeOK, HalfStored, Storing, Move, Goto, memory, Posting

LEMMA StoredStep == IInv /\ [Next]_vars => HalfStored'
<1> SUFFICES ASSUME IInv, [Next]_vars PROVE HalfStored'
  OBVIOUS
<1> USE DEF Posting
<1>t. TypeOK
  BY DEF IInv
<1>x. Exclusive /\ HalfStored
  BY DEF IInv
<1>c. copy' = copy => copy' \in [Clients -> Words \X Words]
  BY <1>t DEF TypeOK
<1>1. CASE Boot \/ Exit
  BY <1>1, FreshInv DEF Boot, Exit, IInv
<1>2. CASE Stop
  BY <1>2, <1>x DEF Stop, memory, locals, HalfStored, Storing
<1>3. ASSUME NEW c \in Clients, Begin(c) PROVE HalfStored'
  <2>1. CASE RejectConfig(c)
    BY <2>1, <1>x DEF RejectConfig, vars, memory, locals, HalfStored, Storing
  <2>2. CASE UpdateConfig(c)
    <3>1. PICK u \in Urls : copy' = [copy EXCEPT ![c] = <<u, u>>]
      BY <2>2 DEF UpdateConfig
    <3>2. copy' \in [Clients -> Words \X Words] /\ copy'[c] \in Pairs
      BY <3>1, <1>t DEF TypeOK, Pairs, Words
    <3> QED
      BY <2>2, <3>1, <3>2, StoredFrame DEF UpdateConfig
  <2>3. CASE Hit(c) \/ HealthCheck(c)
    BY <2>3, <1>c, StoredFrame DEF Hit, HealthCheck, locals
  <2> QED
    BY <1>3, <2>1, <2>2, <2>3 DEF Begin
<1>4. ASSUME NEW c \in Clients, Lock(c) PROVE HalfStored'
  <2>1. copy[c] \in Pairs
    BY <1>4, <1>x DEF Lock, Move, HalfStored
  <2> QED
    BY <1>4, <2>1, <1>c, StoredFrame DEF Lock, locals
<1>5. ASSUME NEW c \in Clients, Step(c) PROVE HalfStored'
  <2>1. CASE Drain(c)
    <3>1. copy[c] \in Pairs
      BY <2>1, <1>x DEF Drain, Move, HalfStored
    <3> QED
      BY <2>1, <3>1, <1>c, StoredFrame DEF Drain, locals
  <2>2. CASE Store1(c)
    BY <2>2, <1>t, <1>x DEF Store1, Move, Goto, locals, TypeOK, HalfStored, Storing,
                            Exclusive, Writing
  <2>3. CASE Store2(c)
    BY <2>3, <1>t, <1>x DEF Store2, Move, Goto, locals, TypeOK, HalfStored, Storing,
                            Exclusive, Writing
  <2>4. CASE StoreFlag(c)
    BY <2>4, <1>t, <1>x DEF StoreFlag, Move, Goto, locals, TypeOK, HalfStored, Storing,
                            Exclusive, Writing
  <2>5. CASE Unlock(c)
    BY <2>5, <1>t, <1>x DEF Unlock, memory, locals, TypeOK, HalfStored, Storing,
                            Exclusive, Writing
  <2>6. CASE RespondUpdated(c)
    BY <2>6, <1>t, DoneType, StoredFrame DEF RespondUpdated, Done, Move, TypeOK
  <2>7. CASE GetConfig(c)
    BY <2>7, <1>c, StoredFrame DEF GetConfig, RLock, Move, locals
  <2>8. CASE HasConfig(c)
    BY <2>8, <1>c, StoredFrame DEF HasConfig, RLock, Move, locals
  <2>9. CASE Load1(c) \/ Load2(c)
    <3>1. copy' \in [Clients -> Words \X Words]
      BY <2>9, <1>t DEF Load1, Load2, TypeOK
    <3>2. \A d \in Clients \ {c} : copy'[d] = copy[d]
      BY <2>9, <1>t DEF Load1, Load2, TypeOK
    <3> QED
      BY <2>9, <3>1, <3>2, StoredFrame DEF Load1, Load2
  <2>10. CASE LoadFlag(c) \/ HealthFlag(c)
    BY <2>10, <1>c, StoredFrame DEF LoadFlag, HealthFlag
  <2>11. CASE ReleaseConfig(c) \/ ExecuteRequest(c)
    BY <2>11, <1>c, StoredFrame DEF ReleaseConfig, ExecuteRequest, locals
  <2>12. CASE RespondHealth(c) \/ Unavailable(c) \/ RespondHit(c)
    BY <2>12, <1>t, DoneType, StoredFrame
       DEF RespondHealth, Unavailable, RespondHit, Done, Move, TypeOK
  <2> QED
    BY <1>5, <2>1, <2>2, <2>3, <2>4, <2>5, <2>6, <2>7, <2>8, <2>9, <2>10, <2>11,
       <2>12 DEF Step
<1>6. CASE UNCHANGED vars
  BY <1>6, <1>x DEF vars, memory, locals, HalfStored, Storing
<1> QED
  BY <1>1, <1>2, <1>3, <1>4, <1>5, <1>6 DEF Next

-----------------------------------------------------------------------------
\* A step that leaves the configuration alone.
LEMMA LoadedFrame ==
  ASSUME IInv, NEW c \in Clients, NEW l, config' = config, Goto(c, l),
         copy' \in [Clients -> Words \X Words],
         \A d \in Clients \ {c} : copy'[d] = copy[d],
         l = "load2" => copy'[c][1] = config[1],
         l = "loadFlag" => copy'[c] = config
  PROVE  HalfLoaded'
BY DEF IInv, TypeOK, HalfLoaded, Goto

LEMMA LoadedStep == IInv /\ [Next]_vars => HalfLoaded'
<1> SUFFICES ASSUME IInv, [Next]_vars PROVE HalfLoaded'
  OBVIOUS
<1> USE DEF Move
<1>t. TypeOK
  BY DEF IInv
<1>x. Exclusive /\ HalfLoaded
  BY DEF IInv
<1>c. copy' = copy => copy' \in [Clients -> Words \X Words]
  BY <1>t DEF TypeOK
<1>1. CASE Boot \/ Exit
  BY <1>1, FreshInv DEF Boot, Exit, IInv
<1>2. CASE Stop
  BY <1>2, <1>x DEF Stop, memory, locals, HalfLoaded
<1>3. ASSUME NEW c \in Clients, Begin(c) PROVE HalfLoaded'
  <2>1. CASE RejectConfig(c)
    BY <2>1, <1>x DEF RejectConfig, vars, memory, locals, HalfLoaded
  <2>2. CASE UpdateConfig(c)
    <3>1. PICK u \in Urls : copy' = [copy EXCEPT ![c] = <<u, u>>]
      BY <2>2 DEF UpdateConfig
    <3>2. copy' \in [Clients -> Words \X Words]
      BY <3>1, <1>t DEF TypeOK, Words
    <3> QED
      BY <2>2, <3>1, <3>2, LoadedFrame DEF UpdateConfig, memory
  <2>3. CASE Hit(c) \/ HealthCheck(c)
    BY <2>3, <1>c, LoadedFrame DEF Hit, HealthCheck, memory, locals
  <2> QED
    BY <1>3, <2>1, <2>2, <2>3 DEF Begin
<1>4. ASSUME NEW c \in Clients, Lock(c) PROVE HalfLoaded'
  BY <1>4, <1>c, LoadedFrame DEF Lock, memory, locals
<1>5. ASSUME NEW c \in Clients, Step(c) PROVE HalfLoaded'
  <2>1. CASE Drain(c) \/ StoreFlag(c)
    BY <2>1, <1>c, LoadedFrame DEF Drain, StoreFlag, memory, locals
  <2>2. CASE Store1(c) \/ Store2(c)
    <3>1. readers = {} /\ copy' = copy
      BY <2>2, <1>x DEF Store1, Store2, Exclusive, Writing, locals
    <3>2. \A d \in Clients : pc[d] \notin {"load2", "loadFlag"}
      BY <3>1, <1>x DEF Exclusive, Reading
    <3>3. \A d \in Clients : pc'[d] \notin {"load2", "loadFlag"}
      BY <2>2, <3>2, <1>t DEF Store1, Store2, Goto, TypeOK
    <3> QED
      BY <3>3 DEF HalfLoaded
  <2>3. CASE Unlock(c)
    BY <2>3, <1>x, <1>t DEF Unlock, memory, locals, HalfLoaded, TypeOK
  <2>4. CASE RespondUpdated(c)
    BY <2>4, <1>t, DoneType, LoadedFrame DEF RespondUpdated, Done, memory, TypeOK
  <2>5. CASE GetConfig(c)
    BY <2>5, <1>c, LoadedFrame DEF GetConfig, RLock, memory, locals
  <2>6. CASE HasConfig(c)
    BY <2>6, <1>c, LoadedFrame DEF HasConfig, RLock, memory, locals
  <2>7. CASE Load1(c)
    <3>1. copy' = [copy EXCEPT ![c] = <<config[1], copy[c][2]>>]
      BY <2>7 DEF Load1
    <3> QED
      BY <2>7, <3>1, <1>t, LoadedFrame DEF Load1, memory, TypeOK
  <2>8. CASE Load2(c)
    <3>1. copy' = [copy EXCEPT ![c] = <<copy[c][1], config[2]>>]
      BY <2>8 DEF Load2
    <3>2. copy[c][1] = config[1]
      BY <2>8, <1>x DEF Load2, HalfLoaded
    <3> QED
      BY <2>8, <3>1, <3>2, <1>t, LoadedFrame DEF Load2, memory, TypeOK
  <2>9. CASE LoadFlag(c) \/ HealthFlag(c)
    BY <2>9, <1>c, LoadedFrame DEF LoadFlag, HealthFlag, memory
  <2>10. CASE ReleaseConfig(c) \/ ExecuteRequest(c)
    BY <2>10, <1>c, LoadedFrame DEF ReleaseConfig, ExecuteRequest, memory, locals
  <2>11. CASE RespondHealth(c) \/ Unavailable(c) \/ RespondHit(c)
    BY <2>11, <1>t, DoneType, LoadedFrame
       DEF RespondHealth, Unavailable, RespondHit, Done, memory, TypeOK
  <2> QED
    BY <1>5, <2>1, <2>2, <2>3, <2>4, <2>5, <2>6, <2>7, <2>8, <2>9, <2>10, <2>11
       DEF Step
<1>6. CASE UNCHANGED vars
  BY <1>6, <1>x DEF vars, memory, locals, HalfLoaded
<1> QED
  BY <1>1, <1>2, <1>3, <1>4, <1>5, <1>6 DEF Next

LEMMA Invariant == Spec => []IInv
<1>1. IInv /\ [Next]_vars => IInv'
  BY TypeStep, ExclusiveStep, StoredStep, LoadedStep DEF IInv
<1> QED
  BY <1>1, InitInv, PTL DEF Spec

\* Type correctness; in particular what hits use is always a posted configuration.
THEOREM TypeCorrect == Spec => []TypeOK
BY Invariant, PTL DEF IInv

-----------------------------------------------------------------------------
(* Whoever waits for the lock waits for somebody who will release it.        *)

\* A reader only sleeps while a writer is there to wake it up.
Awaited ==
  \A c \in Clients : pc[c] \in {"blocked", "healthBlocked"} => writer # NoOne

LEMMA AwaitedFrame ==
  ASSUME IInv, Awaited, NEW c \in Clients, NEW l, Goto(c, l), UNCHANGED writer,
         l \in {"blocked", "healthBlocked"} => writer # NoOne
  PROVE  Awaited'
BY DEF IInv, TypeOK, Awaited, Goto

LEMMA AwaitedStep == IInv /\ Awaited /\ [Next]_vars => Awaited'
<1> SUFFICES ASSUME IInv, Awaited, [Next]_vars PROVE Awaited'
  OBVIOUS
<1> USE DEF Move, lock
<1>t. pc \in [Clients -> {"idle"} \cup Posting \cup Hitting \cup Checking]
  BY DEF IInv, TypeOK
<1>1. CASE Boot \/ Exit
  BY <1>1 DEF Boot, Exit, Fresh, Awaited
<1>2. CASE Stop
  BY <1>2 DEF Stop, Awaited
<1>3. ASSUME NEW c \in Clients, Begin(c) PROVE Awaited'
  BY <1>3, AwaitedFrame DEF Begin, RejectConfig, UpdateConfig, Hit, HealthCheck, vars, Awaited
<1>4. ASSUME NEW c \in Clients, Lock(c) PROVE Awaited'
  BY <1>4, NoOneAssumption DEF Lock, Awaited
<1>5. ASSUME NEW c \in Clients, Step(c) PROVE Awaited'
  <2>1. CASE Unlock(c)
    BY <2>1, <1>t DEF Unlock, Awaited
  <2>2. CASE GetConfig(c) \/ HasConfig(c)
    BY <2>2, AwaitedFrame DEF GetConfig, HasConfig, RLock
  <2>3. CASE Drain(c) \/ Store1(c) \/ Store2(c) \/ StoreFlag(c) \/ RespondUpdated(c)
    BY <2>3, AwaitedFrame DEF Drain, Store1, Store2, StoreFlag, RespondUpdated, Done
  <2>4. CASE Load1(c) \/ Load2(c) \/ LoadFlag(c) \/ ReleaseConfig(c) \/ HealthFlag(c)
    BY <2>4, AwaitedFrame DEF Load1, Load2, LoadFlag, ReleaseConfig, HealthFlag
  <2>5. CASE Unavailable(c) \/ ExecuteRequest(c) \/ RespondHit(c) \/ RespondHealth(c)
    BY <2>5, AwaitedFrame DEF Unavailable, ExecuteRequest, RespondHit, RespondHealth, Done
  <2> QED
    BY <1>5, <2>1, <2>2, <2>3, <2>4, <2>5 DEF Step
<1>6. CASE UNCHANGED vars
  BY <1>6 DEF vars, Awaited
<1> QED
  BY <1>1, <1>2, <1>3, <1>4, <1>5, <1>6 DEF Next

\* However many requests overlap, they never all wait for the lock: the writer that
\* has announced itself or one of the readers it waits for can go on, and every
\* path through the handlers of the worker leads to the unlock (the deferred calls
\* in config.go).
THEOREM LockIsReleased == Spec => []LockComesFree
<1>1. ASSUME IInv, Awaited PROVE LockComesFree
  <2> SUFFICES ASSUME NEW c \in Clients, Waits(c)
               PROVE  \E d \in readers \cup {writer} :
                        d # NoOne /\ pc[d] \in Inside /\ ~Waits(d)
    BY DEF LockComesFree
  <2>x. Exclusive /\ writer \in Clients \cup {NoOne} /\ readers \subseteq Clients
    BY <1>1 DEF IInv, TypeOK
  <2>1. writer # NoOne
    BY <1>1, <2>x, NoOneAssumption DEF Waits, Awaited, Exclusive, Writing
  <2>2. writer \in Clients /\ pc[writer] \in Writing
    BY <2>1, <2>x DEF Exclusive
  <2>3. CASE pc[writer] = "drain" /\ readers # {}
    <3>1. PICK d \in readers : TRUE
      BY <2>3
    <3>2. d \in Clients /\ pc[d] \in Reading /\ d # NoOne
      BY <2>x, <3>1, NoOneAssumption DEF Exclusive
    <3> QED
      BY <3>2 DEF Reading, Inside, Waits
  <2>4. CASE ~(pc[writer] = "drain" /\ readers # {})
    BY <2>1, <2>2, <2>4 DEF Writing, Inside, Waits
  <2> QED
    BY <2>3, <2>4
<1>2. Init => Awaited
  BY DEF Init, Awaited
<1>3. IInv /\ Awaited /\ [Next]_vars => Awaited'
  BY AwaitedStep
<1> QED
  BY <1>1, <1>2, <1>3, Invariant, PTL DEF Spec

-----------------------------------------------------------------------------
(* Every step is a step of the register or none.                             *)

calls == [c \in Clients |-> CallOf(c)]

LEMMA StoredIs ==
  ASSUME IInv
  PROVE  /\ \A c \in Clients : Storing(c) => Stored = copy[c]
         /\ (\A c \in Clients : ~Storing(c))
              => Stored = IF hasConfig THEN config ELSE Nothing
<1>1. \A c, d \in Clients : Storing(c) /\ Storing(d) => c = d
  BY DEF IInv, Exclusive, Writing, Storing
<1> QED
  BY <1>1 DEF Stored

LEMMA StoredIsNext ==
  ASSUME IInv'
  PROVE  /\ \A c \in Clients : Storing(c)' => Stored' = copy'[c]
         /\ (\A c \in Clients : ~Storing(c)')
              => Stored' = IF hasConfig' THEN config' ELSE Nothing
<1>1. \A c, d \in Clients : Storing(c)' /\ Storing(d)' => c = d
  BY DEF IInv, Exclusive, Writing, Storing
<1> QED
  BY <1>1 DEF Stored

\* Memory and who stores into it are as before: so is the register.
LEMMA SameStored ==
  ASSUME IInv, IInv', UNCHANGED memory,
         \A c \in Clients : Storing(c)' <=> Storing(c),
         \A c \in Clients : Storing(c) => copy'[c] = copy[c]
  PROVE  UNCHANGED Stored
<1>1. CASE \E c \in Clients : Storing(c)
  BY <1>1, StoredIs, StoredIsNext
<1>2. CASE \A c \in Clients : ~Storing(c)
  BY <1>2, StoredIs, StoredIsNext DEF memory
<1> QED
  BY <1>1, <1>2

\* Only the request of c moves.
LEMMA CallMoves ==
  ASSUME NEW c \in Clients, NEW a, CallOf(c)' = a,
         \A d \in Clients \ {c} : CallOf(d)' = CallOf(d)
  PROVE  calls' = [calls EXCEPT ![c] = a]
BY DEF calls

LEMMA OthersStay ==
  ASSUME NEW c, NEW d,
         pc'[d] = pc[d] \/ (pc[d] = "blocked" /\ pc'[d] = "load1")
                        \/ (pc[d] = "healthBlocked" /\ pc'[d] = "healthFlag"),
         copy'[d] = copy[d], has'[d] = has[d]
  PROVE  CallOf(d)' = CallOf(d)
BY DEF CallOf, Storing

RegisterStep == Register!Next \/ (UNCHANGED Stored /\ UNCHANGED calls)

LEMMA RegisterInits == Init => Register!Init
<1> SUFFICES ASSUME Init PROVE Register!Init
  OBVIOUS
<1>1. Stored = Nothing
  BY DEF Init, Stored, Storing
<1>2. \A c \in Clients : CallOf(c) = [at |-> "idle", val |-> Nothing]
  BY DEF Init, CallOf, Storing
<1> QED
  BY <1>1, <1>2 DEF Register!Init, Register!Idle, Register!At

LEMMA FreshRestarts == Fresh => Register!Restart
<1> SUFFICES ASSUME Fresh PROVE Register!Restart
  OBVIOUS
<1>1. Stored' = Nothing
  BY DEF Fresh, Stored, Storing
<1>2. \A c \in Clients : CallOf(c)' = [at |-> "idle", val |-> Nothing]
  BY DEF Fresh, CallOf, Storing
<1> QED
  BY <1>1, <1>2 DEF Register!Restart, Register!Idle, Register!At

\* A step of c inside one phase of its request is no step of the register.
LEMMA Stutters ==
  ASSUME NEW c \in Clients, UNCHANGED Stored, CallOf(c)' = CallOf(c),
         \A d \in Clients \ {c} : CallOf(d)' = CallOf(d)
  PROVE  RegisterStep
BY DEF RegisterStep, calls

LEMMA RegisterSteps == IInv /\ IInv' /\ [Next]_vars => RegisterStep
<1> SUFFICES ASSUME IInv, IInv', [Next]_vars PROVE RegisterStep
  OBVIOUS
<1> USE DEF Move
<1>t. TypeOK /\ TypeOK'
  BY DEF IInv
<1>p. pc \in [Clients -> {"idle"} \cup Posting \cup Hitting \cup Checking]
      /\ copy \in [Clients -> Words \X Words] /\ DOMAIN has = Clients
  BY <1>t DEF TypeOK
<1>1. CASE Boot \/ Exit
  BY <1>1, FreshRestarts DEF Boot, Exit, RegisterStep, Register!Next
<1>2. CASE Stop \/ UNCHANGED vars
  <2>1. UNCHANGED <<memory, pc, locals>>
    BY <1>2 DEF Stop, vars
  <2>2. UNCHANGED Stored
    BY <2>1 DEF Stored, Storing, memory, locals
  <2>3. \A c \in Clients : CallOf(c)' = CallOf(c)
    BY <2>1 DEF CallOf, Storing, locals
  <2> QED
    BY <2>2, <2>3 DEF RegisterStep, calls
<1>3. ASSUME NEW c \in Clients, Begin(c) \/ Lock(c) \/ Step(c) PROVE RegisterStep
  <2> DEFINE Others == \A d \in Clients \ {c} :
                         CallOf(d)' = CallOf(d) /\ (Storing(d)' <=> Storing(d))
                         /\ copy'[d] = copy[d]
  <2>o. ASSUME NEW l, Goto(c, l), \A d \in Clients \ {c} : copy'[d] = copy[d],
               \A d \in Clients \ {c} : has'[d] = has[d]
        PROVE  Others
    BY <2>o, <1>p, OthersStay DEF Goto, Storing
  <2>d. ASSUME Done(c) PROVE Others
    BY <2>d, <2>o, <1>p DEF Done
  <2>s. ASSUME UNCHANGED memory, Others, ~Storing(c), ~Storing(c)' PROVE UNCHANGED Stored
    BY <2>s, SameStored
  <2>u. ASSUME UNCHANGED memory, Others, ~Storing(c), ~Storing(c)',
               CallOf(c)' = CallOf(c)
        PROVE  RegisterStep
    BY <2>u, <2>s, Stutters
  <2>l. UNCHANGED locals => \A d \in Clients : copy'[d] = copy[d] /\ has'[d] = has[d]
    BY DEF locals
  <2>1. CASE RejectConfig(c)
    <3>1. UNCHANGED <<memory, pc, locals>>
      BY <2>1 DEF RejectConfig, vars
    <3>2. UNCHANGED Stored
      BY <3>1 DEF Stored, Storing, memory, locals
    <3>3. \A d \in Clients : CallOf(d)' = CallOf(d)
      BY <3>1 DEF CallOf, Storing, locals
    <3> QED
      BY <3>2, <3>3 DEF RegisterStep, calls
  <2>2. CASE UpdateConfig(c)
    <3>1. PICK u \in Urls : copy' = [copy EXCEPT ![c] = <<u, u>>]
      BY <2>2 DEF UpdateConfig
    <3>2. pc[c] = "idle" /\ pc'[c] = "lock" /\ copy'[c] = <<u, u>>
      BY <2>2, <3>1, <1>p DEF UpdateConfig, Goto
    <3>3. Others
      BY <2>2, <3>1, <1>p, <2>o DEF UpdateConfig
    <3>4. UNCHANGED Stored
      BY <2>2, <3>2, <3>3, <2>s DEF UpdateConfig, Storing
    <3>5. CallOf(c).at = "idle" /\ CallOf(c)' = [at |-> "set", val |-> <<u, u>>]
      BY <3>2 DEF CallOf, Storing
    <3>6. calls' = [calls EXCEPT ![c] = [at |-> "set", val |-> <<u, u>>]]
      BY <3>3, <3>5, CallMoves
    <3>7. Register!CallSet(c)
      BY <3>4, <3>5, <3>6
         DEF Register!CallSet, Register!Is, Register!Becomes, Register!At, calls
    <3> QED
      BY <3>7 DEF RegisterStep, Register!Next
  <2>3. CASE Hit(c)
    <3>1. pc[c] = "idle" /\ pc'[c] = "rlock"
      BY <2>3, <1>p DEF Hit, Goto
    <3>2. Others
      BY <2>3, <2>l, <2>o DEF Hit
    <3>3. UNCHANGED Stored
      BY <2>3, <3>1, <3>2, <2>s DEF Hit, Storing
    <3>4. CallOf(c).at = "idle" /\ CallOf(c)' = [at |-> "get", val |-> Nothing]
      BY <3>1 DEF CallOf, Storing
    <3>5. calls' = [calls EXCEPT ![c] = [at |-> "get", val |-> Nothing]]
      BY <3>2, <3>4, CallMoves
    <3>6. Register!CallGet(c)
      BY <3>3, <3>4, <3>5
         DEF Register!CallGet, Register!Is, Register!Becomes, Register!At, calls
    <3> QED
      BY <3>6 DEF RegisterStep, Register!Next
  <2>4. CASE HealthCheck(c)
    <3>1. pc[c] = "idle" /\ pc'[c] = "health"
      BY <2>4, <1>p DEF HealthCheck, Goto
    <3>2. Others
      BY <2>4, <2>l, <2>o DEF HealthCheck
    <3>3. CallOf(c)' = CallOf(c)
      BY <2>4, <3>1, <1>p DEF CallOf, Storing, HealthCheck, locals
    <3> QED
      BY <2>4, <3>1, <3>2, <3>3, <2>u DEF HealthCheck, Storing
  <2>5. CASE Lock(c)
    <3>1. pc[c] = "lock" /\ pc'[c] = "drain"
      BY <2>5, <1>p DEF Lock, Goto
    <3>2. Others
      BY <2>5, <2>l, <2>o DEF Lock
    <3>3. CallOf(c)' = CallOf(c)
      BY <2>5, <3>1, <1>p DEF CallOf, Storing, Lock, locals
    <3> QED
      BY <2>5, <3>1, <3>2, <3>3, <2>u DEF Lock, Storing
  <2>6. CASE Drain(c)
    <3>1. pc[c] = "drain" /\ pc'[c] = "store1"
      BY <2>6, <1>p DEF Drain, Goto
    <3>2. Others
      BY <2>6, <2>l, <2>o DEF Drain
    <3>3. CallOf(c)' = CallOf(c)
      BY <2>6, <3>1, <1>p DEF CallOf, Storing, Drain, locals
    <3> QED
      BY <2>6, <3>1, <3>2, <3>3, <2>u DEF Drain, Storing
  <2>7. CASE Store1(c)
    <3>1. pc[c] = "store1" /\ pc'[c] = "store2" /\ copy'[c] = copy[c]
      BY <2>7, <1>p DEF Store1, Goto, locals
    <3>2. Others
      BY <2>7, <2>l, <2>o DEF Store1
    <3>3. Stored' = copy[c]
      BY <3>1, StoredIsNext DEF Storing
    <3>4. CallOf(c) = [at |-> "set", val |-> copy[c]]
          /\ CallOf(c)' = [at |-> "stored", val |-> Nothing]
      BY <3>1 DEF CallOf, Storing
    <3>5. calls' = [calls EXCEPT ![c] = [at |-> "stored", val |-> Nothing]]
      BY <3>2, <3>4, CallMoves
    <3>6. Register!Store(c)
      BY <3>3, <3>4, <3>5
         DEF Register!Store, Register!Is, Register!Becomes, Register!At, calls
    <3> QED
      BY <3>6 DEF RegisterStep, Register!Next
  <2>8. CASE Store2(c) \/ StoreFlag(c)
    <3>1. Storing(c) /\ Storing(c)' /\ copy'[c] = copy[c]
      BY <2>8, <1>p DEF Store2, StoreFlag, Goto, locals, Storing
    <3>2. Others
      BY <2>8, <2>l, <2>o DEF Store2, StoreFlag
    <3>3. UNCHANGED Stored
      BY <3>1, StoredIs, StoredIsNext
    <3>4. CallOf(c)' = CallOf(c)
      BY <3>1 DEF CallOf, Storing
    <3> QED
      BY <3>2, <3>3, <3>4, Stutters
  <2>9. CASE Unlock(c)
    <3>1. pc[c] = "unlock" /\ pc'[c] = "stored"
      BY <2>9, <1>p DEF Unlock
    <3>2. \A d \in Clients \ {c} :
            pc'[d] = pc[d] \/ (pc[d] = "blocked" /\ pc'[d] = "load1")
                          \/ (pc[d] = "healthBlocked" /\ pc'[d] = "healthFlag")
      BY <2>9, <1>p DEF Unlock
    <3>3. Others
      BY <2>9, <3>2, <2>l, OthersStay DEF Unlock, Storing
    <3>4. Stored = copy[c]
      BY <3>1, StoredIs DEF Storing
    <3>5. \A d \in Clients \ {c} : ~Storing(d)
      BY <3>1 DEF IInv, Exclusive, Writing, Storing
    <3>6. Stored' = IF hasConfig THEN config ELSE Nothing
      BY <2>9, <3>1, <3>3, <3>5, StoredIsNext DEF Unlock, Storing, memory
    <3>7. hasConfig /\ config = copy[c]
      BY <3>1 DEF IInv, HalfStored
    <3>8. CallOf(c)' = CallOf(c)
      BY <3>1 DEF CallOf, Storing
    <3> QED
      BY <3>3, <3>4, <3>6, <3>7, <3>8, Stutters
  <2>10. CASE RespondUpdated(c)
    <3>1. pc[c] = "stored" /\ pc'[c] = "idle"
      BY <2>10, <1>p DEF RespondUpdated, Done, Goto
    <3>2. Others
      BY <2>10, <2>d DEF RespondUpdated
    <3>3. UNCHANGED Stored
      BY <2>10, <3>1, <3>2, <2>s DEF RespondUpdated, Storing
    <3>4. CallOf(c).at = "stored" /\ CallOf(c)' = [at |-> "idle", val |-> Nothing]
      BY <3>1 DEF CallOf, Storing
    <3>5. calls' = [calls EXCEPT ![c] = [at |-> "idle", val |-> Nothing]]
      BY <3>2, <3>4, CallMoves
    <3>6. Register!Return(c)
      BY <3>3, <3>4, <3>5
         DEF Register!Return, Register!Becomes, Register!Idle, Register!At, calls
    <3> QED
      BY <3>6 DEF RegisterStep, Register!Next
  <2>11. CASE GetConfig(c)
    <3>1. pc[c] = "rlock" /\ pc'[c] \in {"blocked", "load1"}
      BY <2>11, <1>p DEF GetConfig, RLock, Goto
    <3>2. Others
      BY <2>11, <2>l, <2>o DEF GetConfig, RLock
    <3>3. CallOf(c)' = CallOf(c)
      BY <2>11, <3>1, <1>p DEF CallOf, Storing, GetConfig, RLock, locals
    <3> QED
      BY <2>11, <3>1, <3>2, <3>3, <2>u DEF GetConfig, RLock, Storing
  <2>12. CASE HasConfig(c)
    <3>1. pc[c] = "health" /\ pc'[c] \in {"healthBlocked", "healthFlag"}
      BY <2>12, <1>p DEF HasConfig, RLock, Goto
    <3>2. Others
      BY <2>12, <2>l, <2>o DEF HasConfig, RLock
    <3>3. CallOf(c)' = CallOf(c)
      BY <2>12, <3>1, <1>p DEF CallOf, Storing, HasConfig, RLock, locals
    <3> QED
      BY <2>12, <3>1, <3>2, <3>3, <2>u DEF HasConfig, RLock, Storing
  <2>13. CASE Load1(c)
    <3>1. pc[c] = "load1" /\ pc'[c] = "load2"
      BY <2>13, <1>p DEF Load1, Goto
    <3>2. Others
      BY <2>13, <1>p, <2>o DEF Load1
    <3>3. CallOf(c)' = CallOf(c)
      BY <2>13, <3>1, <1>p DEF CallOf, Storing, Load1, locals
    <3> QED
      BY <2>13, <3>1, <3>2, <3>3, <2>u DEF Load1, Storing
  <2>14. CASE Load2(c)
    <3>1. pc[c] = "load2" /\ pc'[c] = "loadFlag"
      BY <2>14, <1>p DEF Load2, Goto
    <3>2. Others
      BY <2>14, <1>p, <2>o DEF Load2
    <3>3. CallOf(c)' = CallOf(c)
      BY <2>14, <3>1, <1>p DEF CallOf, Storing, Load2, locals
    <3> QED
      BY <2>14, <3>1, <3>2, <3>3, <2>u DEF Load2, Storing
  <2>15. CASE LoadFlag(c)
    <3>1. pc[c] = "loadFlag" /\ pc'[c] = "runlock" /\ copy'[c] = copy[c]
      BY <2>15, <1>p DEF LoadFlag, Goto
    <3>2. has'[c] = hasConfig
      BY <2>15, <1>p, Zenon DEF LoadFlag
    <3>3. Others
      BY <2>15, <1>p, <2>o DEF LoadFlag
    <3>4. UNCHANGED Stored
      BY <2>15, <3>1, <3>3, <2>s DEF LoadFlag, Storing
    <3>5. readers # {}
      BY <3>1 DEF IInv, Exclusive, Reading
    <3>6. \A d \in Clients : ~Storing(d)
      BY <3>5 DEF IInv, Exclusive, Writing, Storing
    <3>7. Stored = IF hasConfig THEN copy[c] ELSE Nothing
      BY <3>1, <3>6, StoredIs DEF IInv, HalfLoaded
    <3>8. CallOf(c).at = "get" /\ CallOf(c)' = [at |-> "got", val |-> Stored]
      BY <3>1, <3>2, <3>7 DEF CallOf, Storing
    <3>9. calls' = [calls EXCEPT ![c] = [at |-> "got", val |-> Stored]]
      BY <3>3, <3>8, CallMoves
    <3>10. Register!Read(c)
      BY <3>4, <3>8, <3>9
         DEF Register!Read, Register!Is, Register!Becomes, Register!At, calls
    <3> QED
      BY <3>10 DEF RegisterStep, Register!Next
  <2>16. CASE HealthFlag(c)
    <3>1. pc[c] = "healthFlag" /\ pc'[c] = "healthRunlock"
      BY <2>16, <1>p DEF HealthFlag, Goto
    <3>2. Others
      BY <2>16, <1>p, <2>o DEF HealthFlag
    <3>3. CallOf(c)' = CallOf(c)
      BY <2>16, <3>1, <1>p DEF CallOf, Storing, HealthFlag, locals
    <3> QED
      BY <2>16, <3>1, <3>2, <3>3, <2>u DEF HealthFlag, Storing
  <2>17. CASE ReleaseConfig(c)
    <3>1. pc[c] = "runlock" /\ pc'[c] = "loaded"
      BY <2>17, <1>p DEF ReleaseConfig, Goto
    <3>2. Others
      BY <2>17, <2>l, <2>o DEF ReleaseConfig
    <3>3. CallOf(c)' = CallOf(c)
      BY <2>17, <3>1, <1>p DEF CallOf, Storing, ReleaseConfig, locals
    <3> QED
      BY <2>17, <3>1, <3>2, <3>3, <2>u DEF ReleaseConfig, Storing
  <2>18. CASE Unavailable(c)
    <3>1. pc[c] = "loaded" /\ pc'[c] = "idle"
      BY <2>18, <1>p DEF Unavailable, Done, Goto
    <3>2. Others
      BY <2>18, <2>d DEF Unavailable
    <3>3. UNCHANGED Stored
      BY <2>18, <3>1, <3>2, <2>s DEF Unavailable, Storing
    <3>4. CallOf(c).at = "got" /\ CallOf(c)' = [at |-> "idle", val |-> Nothing]
      BY <3>1 DEF CallOf, Storing
    <3>5. calls' = [calls EXCEPT ![c] = [at |-> "idle", val |-> Nothing]]
      BY <3>2, <3>4, CallMoves
    <3>6. Register!Return(c)
      BY <3>3, <3>4, <3>5
         DEF Register!Return, Register!Becomes, Register!Idle, Register!At, calls
    <3> QED
      BY <3>6 DEF RegisterStep, Register!Next
  <2>19. CASE ExecuteRequest(c)
    <3>1. pc[c] = "loaded" /\ pc'[c] = "fetch"
      BY <2>19, <1>p DEF ExecuteRequest, Goto
    <3>2. Others
      BY <2>19, <2>l, <2>o DEF ExecuteRequest
    <3>3. CallOf(c)' = CallOf(c)
      BY <2>19, <3>1, <1>p DEF CallOf, Storing, ExecuteRequest, locals
    <3> QED
      BY <2>19, <3>1, <3>2, <3>3, <2>u DEF ExecuteRequest, Storing
  <2>20. CASE RespondHit(c)
    <3>1. pc[c] = "fetch" /\ pc'[c] = "idle"
      BY <2>20, <1>p DEF RespondHit, Done, Goto
    <3>2. Others
      BY <2>20, <2>d DEF RespondHit
    <3>3. UNCHANGED Stored
      BY <2>20, <3>1, <3>2, <2>s DEF RespondHit, Storing
    <3>4. CallOf(c).at = "got" /\ CallOf(c)' = [at |-> "idle", val |-> Nothing]
      BY <3>1 DEF CallOf, Storing
    <3>5. calls' = [calls EXCEPT ![c] = [at |-> "idle", val |-> Nothing]]
      BY <3>2, <3>4, CallMoves
    <3>6. Register!Return(c)
      BY <3>3, <3>4, <3>5
         DEF Register!Return, Register!Becomes, Register!Idle, Register!At, calls
    <3> QED
      BY <3>6 DEF RegisterStep, Register!Next
  <2>21. CASE RespondHealth(c)
    <3>1. pc[c] = "healthRunlock" /\ pc'[c] = "idle"
      BY <2>21, <1>p DEF RespondHealth, Done, Goto
    <3>2. Others
      BY <2>21, <2>d DEF RespondHealth, Done
    <3>3. CallOf(c)' = CallOf(c)
      BY <2>21, <3>1, <1>p DEF CallOf, Storing, RespondHealth, Done, locals
    <3> QED
      BY <2>21, <3>1, <3>2, <3>3, <2>u DEF RespondHealth, Done, Storing
  <2> QED
    BY <1>3, <2>1, <2>2, <2>3, <2>4, <2>5, <2>6, <2>7, <2>8, <2>9, <2>10, <2>11, <2>12,
       <2>13, <2>14, <2>15, <2>16, <2>17, <2>18, <2>19, <2>20, <2>21 DEF Begin, Step
<1> QED
  BY <1>1, <1>2, <1>3 DEF Next

\* For any number of overlapping requests, through stops and restarts, the worker
\* is one register: every hit uses one whole configuration, the last one stored
\* when it read it.
THEOREM IsLinearizable == Spec => Linearizable
<1>1. IInv /\ IInv' /\ [Next]_vars => [Register!Next]_<<Stored, calls>>
  BY RegisterSteps DEF RegisterStep
<1>2. [][Register!Next]_<<Stored, calls>> /\ Register!Init => Linearizable
  BY DEF Linearizable, Register!Spec, calls
<1> QED
  BY <1>1, <1>2, RegisterInits, Invariant, PTL DEF Spec
=============================================================================
