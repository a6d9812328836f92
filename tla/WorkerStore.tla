---------------------------- MODULE WorkerStore ----------------------------
(***************************************************************************)
(* The worker: worker/internal/config/config.go behind the handlers of     *)
(* worker/internal/api/handlers.go, proxy.ExecuteRequest, and the start    *)
(* and stop of worker/cmd/main.go.                                         *)
(*                                                                         *)
(* gin runs every request in a goroutine of its own.  The configuration is *)
(* a Go string, which is two words in memory (address and length), and a   *)
(* flag; they are read and written one after the other, and only the       *)
(* RWMutex keeps a reader from seeing half of an update.  GET /hit works   *)
(* on a copy it took before it released the lock.                          *)
(***************************************************************************)
CONSTANTS Clients,   \* goroutines that serve requests, one request at a time
          Urls,      \* configurations; the validate tag of models.WorkerConfig
                     \* is one gin does not read, so any string is accepted
          Nothing,   \* the zero string
          NoOne      \* no writer

ASSUME UrlsAssumption  == Nothing \notin {<<u, u>> : u \in Urls} \cup Urls
ASSUME NoOneAssumption == NoOne \notin Clients

VARIABLES
  run,        \* "up", "stopping" (Shutdown was called) or "down"
  config,     \* Manager.config: its two words
  hasConfig,  \* Manager.hasConfig
  writer,     \* who has announced itself to the RWMutex as its writer
  readers,    \* who holds the RWMutex for reading
  pc,         \* where each goroutine is
  copy,       \* the local variable config of the handlers, word by word
  has         \* the local variable hasConfig of the handlers

memory == <<config, hasConfig>>
lock   == <<writer, readers>>
locals == <<copy, has>>
vars   == <<run, memory, lock, pc, locals>>

Words == Urls \cup {Nothing}
Zero  == <<Nothing, Nothing>>

Posting == {"lock", "drain", "store1", "store2", "storeFlag", "unlock", "stored"}
Hitting == {"rlock", "blocked", "load1", "load2", "loadFlag", "runlock", "loaded",
            "fetch"}
Checking == {"health", "healthBlocked", "healthFlag", "healthRunlock"}

TypeOK ==
  /\ run \in {"up", "stopping", "down"}
  /\ config \in Words \X Words
  /\ hasConfig \in BOOLEAN
  /\ hasConfig => config \in Urls \X Urls
  /\ writer \in Clients \cup {NoOne}
  /\ readers \subseteq Clients
  /\ pc \in [Clients -> {"idle"} \cup Posting \cup Hitting \cup Checking]
  /\ copy \in [Clients -> Words \X Words]
  /\ has \in [Clients -> BOOLEAN]

-----------------------------------------------------------------------------
\* A process that has just started.
Fresh ==
  /\ config' = Zero
  /\ hasConfig' = FALSE
  /\ writer' = NoOne
  /\ readers' = {}
  /\ pc' = [c \in Clients |-> "idle"]
  /\ copy' = [c \in Clients |-> Zero]
  /\ has' = [c \in Clients |-> FALSE]

Init ==
  /\ run = "down"
  /\ config = Zero
  /\ hasConfig = FALSE
  /\ writer = NoOne
  /\ readers = {}
  /\ pc = [c \in Clients |-> "idle"]
  /\ copy = [c \in Clients |-> Zero]
  /\ has = [c \in Clients |-> FALSE]

Goto(c, l) == pc' = [pc EXCEPT ![c] = l]
Move(c, from, to) == pc[c] = from /\ Goto(c, to)

\* The goroutine ends and its local variables with it.
Done(c) ==
  /\ Goto(c, "idle")
  /\ copy' = [copy EXCEPT ![c] = Zero]
  /\ has' = [has EXCEPT ![c] = FALSE]

\* The readers that wait for the writer to unlock.
Blocked(l) == {c \in Clients : pc[c] = l}

\* RLock: a reader waits for a writer that is there, or that is itself waiting
\* for readers to leave.
RLock(c, from, blocked, to) ==
  /\ pc[c] = from
  /\ IF writer = NoOne
       THEN readers' = readers \cup {c} /\ Goto(c, to)
       ELSE UNCHANGED readers /\ Goto(c, blocked)
  /\ UNCHANGED <<run, memory, writer, locals>>

RUnlock(c) == readers' = readers \ {c}

-----------------------------------------------------------------------------
(* Faulty variants of actions below, one plausible slip each.  No            *)
(* specification uses them; each shows that a property would notice it.      *)

\* The answer to a malformed body is not followed by a return.
RejectConfigNoReturn(c) ==
  /\ run = "up"
  /\ Move(c, "idle", "lock")
  /\ UNCHANGED <<run, memory, lock, locals>>

\* GetConfig reads without the lock.
GetConfigUnlocked(c) ==
  /\ pc[c] = "rlock"
  /\ Goto(c, "load1")
  /\ UNCHANGED <<run, memory, lock, locals>>

\* GetConfig unlocks by hand, and not on the path without a configuration.
ReleaseConfigIfPresent(c) ==
  /\ Move(c, "runlock", "loaded")
  /\ IF has[c] THEN RUnlock(c) ELSE UNCHANGED readers
  /\ UNCHANGED <<run, memory, writer, locals>>

-----------------------------------------------------------------------------
(* The process.                                                             *)

Boot == run = "down" /\ run' = "up" /\ Fresh

\* SIGTERM: the listener is closed, requests in flight go on.
Stop == run = "up" /\ run' = "stopping" /\ UNCHANGED <<memory, lock, pc, locals>>

\* Shutdown has returned, with every request answered or after five seconds
\* without them; or the process is killed.  The configuration was in memory.
Exit == run # "down" /\ run' = "down" /\ Fresh

-----------------------------------------------------------------------------
(* POST /config.                                                            *)

RejectConfig(c) == run = "up" /\ pc[c] = "idle" /\ UNCHANGED vars

UpdateConfig(c) ==
  /\ run = "up"
  /\ Move(c, "idle", "lock")
  /\ \E u \in Urls : copy' = [copy EXCEPT ![c] = <<u, u>>]
  /\ UNCHANGED <<run, memory, lock, has>>

\* Lock: one writer at a time gets past the mutex inside, then it waits for the
\* readers that were there before it.
Lock(c) ==
  /\ writer = NoOne
  /\ Move(c, "lock", "drain")
  /\ writer' = c
  /\ UNCHANGED <<run, memory, readers, locals>>

Drain(c) ==
  /\ readers = {}
  /\ Move(c, "drain", "store1")
  /\ UNCHANGED <<run, memory, lock, locals>>

Store1(c) ==
  /\ Move(c, "store1", "store2")
  /\ config' = <<copy[c][1], config[2]>>
  /\ UNCHANGED <<run, hasConfig, lock, locals>>

Store2(c) ==
  /\ Move(c, "store2", "storeFlag")
  /\ config' = <<config[1], copy[c][2]>>
  /\ UNCHANGED <<run, hasConfig, lock, locals>>

StoreFlag(c) ==
  /\ Move(c, "storeFlag", "unlock")
  /\ hasConfig' = TRUE
  /\ UNCHANGED <<run, config, lock, locals>>

\* Unlock: every reader that waits gets in before the next writer.
Unlock(c) ==
  /\ pc[c] = "unlock"
  /\ writer' = NoOne
  /\ readers' = readers \cup Blocked("blocked") \cup Blocked("healthBlocked")
  /\ pc' = [d \in Clients |-> IF d = c THEN "stored"
                              ELSE IF pc[d] = "blocked" THEN "load1"
                              ELSE IF pc[d] = "healthBlocked" THEN "healthFlag"
                              ELSE pc[d]]
  /\ UNCHANGED <<run, memory, locals>>

\* 200 "Configuration updated".
RespondUpdated(c) ==
  /\ pc[c] = "stored"
  /\ Done(c)
  /\ UNCHANGED <<run, memory, lock>>

-----------------------------------------------------------------------------
(* GET /hit.                                                                *)

Hit(c) ==
  /\ run = "up"
  /\ Move(c, "idle", "rlock")
  /\ UNCHANGED <<run, memory, lock, locals>>

GetConfig(c) == RLock(c, "rlock", "blocked", "load1")

Load1(c) ==
  /\ Move(c, "load1", "load2")
  /\ copy' = [copy EXCEPT ![c] = <<config[1], @[2]>>]
  /\ UNCHANGED <<run, memory, lock, has>>

Load2(c) ==
  /\ Move(c, "load2", "loadFlag")
  /\ copy' = [copy EXCEPT ![c] = <<@[1], config[2]>>]
  /\ UNCHANGED <<run, memory, lock, has>>

LoadFlag(c) ==
  /\ Move(c, "loadFlag", "runlock")
  /\ has' = [has EXCEPT ![c] = hasConfig]
  /\ UNCHANGED <<run, memory, lock, copy>>

ReleaseConfig(c) ==
  /\ Move(c, "runlock", "loaded")
  /\ RUnlock(c)
  /\ UNCHANGED <<run, memory, writer, locals>>

\* 503, or the request to the configured URL.
Unavailable(c) ==
  /\ pc[c] = "loaded"
  /\ ~has[c]
  /\ Done(c)
  /\ UNCHANGED <<run, memory, lock>>

ExecuteRequest(c) ==
  /\ has[c]
  /\ Move(c, "loaded", "fetch")
  /\ UNCHANGED <<run, memory, lock, locals>>

\* The target's answer is passed on, or 500 after an error; the client waits for
\* at most thirty seconds.
RespondHit(c) ==
  /\ pc[c] = "fetch"
  /\ Done(c)
  /\ UNCHANGED <<run, memory, lock>>

-----------------------------------------------------------------------------
(* GET /health.                                                             *)

HealthCheck(c) ==
  /\ run = "up"
  /\ Move(c, "idle", "health")
  /\ UNCHANGED <<run, memory, lock, locals>>

HasConfig(c) == RLock(c, "health", "healthBlocked", "healthFlag")

HealthFlag(c) ==
  /\ Move(c, "healthFlag", "healthRunlock")
  /\ has' = [has EXCEPT ![c] = hasConfig]
  /\ UNCHANGED <<run, memory, lock, copy>>

RespondHealth(c) ==
  /\ pc[c] = "healthRunlock"
  /\ RUnlock(c)
  /\ Done(c)
  /\ UNCHANGED <<run, memory, writer>>

-----------------------------------------------------------------------------
Begin(c) == RejectConfig(c) \/ UpdateConfig(c) \/ Hit(c) \/ HealthCheck(c)

Step(c) ==
  \/ Drain(c) \/ Store1(c) \/ Store2(c) \/ StoreFlag(c) \/ Unlock(c)
  \/ RespondUpdated(c)
  \/ GetConfig(c) \/ Load1(c) \/ Load2(c) \/ LoadFlag(c) \/ ReleaseConfig(c)
  \/ Unavailable(c) \/ ExecuteRequest(c) \/ RespondHit(c)
  \/ HasConfig(c) \/ HealthFlag(c) \/ RespondHealth(c)

Next == Boot \/ Stop \/ Exit \/ \E c \in Clients : Begin(c) \/ Lock(c) \/ Step(c)

\* A goroutine that can run runs; the mutex inside RWMutex hands itself over to
\* a waiter that is overtaken for long (its starvation mode).
Fairness == \A c \in Clients : WF_vars(Step(c)) /\ SF_vars(Lock(c))

Spec == Init /\ [][Next]_vars /\ Fairness

-----------------------------------------------------------------------------
(* Properties.                                                              *)

\* The callers see one register: an update takes effect at its first store, since
\* no reader is in by then, and a read when it has loaded its last field.
Storing(c) == pc[c] \in {"store2", "storeFlag", "unlock"}

Stored ==
  IF \E c \in Clients : Storing(c)
    THEN copy[CHOOSE c \in Clients : Storing(c)]
    ELSE IF hasConfig THEN config ELSE Nothing

CallOf(c) ==
  CASE pc[c] \in {"lock", "drain", "store1"} -> [at |-> "set", val |-> copy[c]]
    [] Storing(c) \/ pc[c] = "stored" -> [at |-> "stored", val |-> Nothing]
    [] pc[c] \in {"rlock", "blocked", "load1", "load2", "loadFlag"} ->
         [at |-> "get", val |-> Nothing]
    [] pc[c] \in {"runlock", "loaded", "fetch"} ->
         [at |-> "got", val |-> IF has[c] THEN copy[c] ELSE Nothing]
    [] OTHER -> [at |-> "idle", val |-> Nothing]

Register == INSTANCE ConfigRegister
  WITH Configs <- {<<u, u>> : u \in Urls},
       cfg     <- Stored,
       call    <- [c \in Clients |-> CallOf(c)]

\* However requests overlap, every hit uses one whole configuration: the last one
\* stored when it read it, so never an older one than any update or hit that was
\* answered before it began.
Linearizable == Register!Spec

\* Whose turn has not come: RWMutex makes them wait.
Waits(c) ==
  \/ pc[c] = "lock" /\ writer # NoOne
  \/ pc[c] = "drain" /\ readers # {}
  \/ pc[c] \in {"blocked", "healthBlocked"}

\* Between a lock and its unlock.
Inside == {"drain", "store1", "store2", "storeFlag", "unlock", "load1", "load2",
           "loadFlag", "runlock", "healthFlag", "healthRunlock"}

\* Requests never end up all waiting for each other, nor for a lock that a request
\* took with it: while one waits, another one has the lock and can go on to the
\* point where it releases it.
LockComesFree ==
  (\E c \in Clients : Waits(c))
    => \E d \in readers \cup {writer} : d # NoOne /\ pc[d] \in Inside /\ ~Waits(d)

\* An update is answered however many hits and health checks keep coming, unless
\* the process ends.
UpdateEnds == \A c \in Clients : (pc[c] = "lock") ~> (pc[c] = "idle")
=============================================================================
