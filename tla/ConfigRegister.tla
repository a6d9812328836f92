--------------------------- MODULE ConfigRegister ---------------------------
(***************************************************************************)
(* What the worker promises its callers: one register that holds the       *)
(* configuration.  However many requests overlap, each POST /config stores *)
(* and each GET /hit reads at one moment between its call and its answer.  *)
(* A worker that restarts is empty and the requests in flight are gone.    *)
(* WorkerStore implements it.                                              *)
(***************************************************************************)
CONSTANTS Clients,   \* requests in flight, each in a goroutine of its own
          Configs,   \* configurations that may be posted
          Nothing    \* nothing stored yet

VARIABLES cfg,       \* the register
          call       \* of each client: where its request is, and its value

At(where, value) == [at |-> where, val |-> value]
Idle == At("idle", Nothing)

Init == cfg = Nothing /\ call = [c \in Clients |-> Idle]

Is(c, where) == call[c].at = where
Becomes(c, a) == call' = [call EXCEPT ![c] = a]

CallSet(c) == /\ Is(c, "idle")
              /\ \E d \in Configs : Becomes(c, At("set", d))
              /\ UNCHANGED cfg

Store(c) == Is(c, "set") /\ cfg' = call[c].val /\ Becomes(c, At("stored", Nothing))

CallGet(c) == Is(c, "idle") /\ Becomes(c, At("get", Nothing)) /\ UNCHANGED cfg

Read(c) == Is(c, "get") /\ Becomes(c, At("got", cfg)) /\ UNCHANGED cfg

Return(c) == call[c].at \in {"stored", "got"} /\ Becomes(c, Idle) /\ UNCHANGED cfg

Restart == cfg' = Nothing /\ call' = [c \in Clients |-> Idle]

Next ==
  \/ Restart
  \/ \E c \in Clients : CallSet(c) \/ Store(c) \/ CallGet(c) \/ Read(c) \/ Return(c)

Spec == Init /\ [][Next]_<<cfg, call>>
=============================================================================
