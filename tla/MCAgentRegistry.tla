-------------------------- MODULE MCAgentRegistry --------------------------
(* Two agents; characters are numbers, 0 is the colon.                       *)
EXTENDS AgentRegistry

MCDefaults == [user |-> <<1>>, password |-> <<1>>, strategy |-> "POLLER",
               broker |-> "b0", subject |-> "s0"]

None == [k \in Keys |-> Unset]
Only(k, v) == [None EXCEPT ![k] = v]
Nats(subject) == [None EXCEPT !["strategy"] = "NATS", !["subject"] = subject]
Creds(u, p) == [None EXCEPT !["user"] = u, !["password"] = p]
Redis == Only("strategy", "REDIS")

\* Two pairs of credentials that make the same header.
LongUser == Creds(<<2, 0, 1>>, <<1>>)
LongPassword == Creds(<<2>>, <<1, 0, 1>>)

Environments ==
  {None, Nats(Unset), Nats("s1"), Redis, Only("strategy", "redis"), LongUser, LongPassword}

\* The first agent has the environment env and the file f; the second one has a
\* config.yaml that it never gets past.
One(c, env, f) ==
  [controller |-> c,
   agents |-> [a \in Agents |-> IF a = "a1" THEN [env |-> env, file |-> f]
                                ELSE [env |-> None, file |-> Malformed]]]
MCDeployments ==
  {One(e, e, None) : e \in Environments} \cup
  {One(Redis, None, Redis), One(None, None, Redis), One(Redis, Redis, Only("strategy", "NATS")),
   One(Nats(Unset), Nats("s s"), None), One(None, Creds(<<1>>, <<2>>), None),
   One(LongUser, LongPassword, None),
   One(LongPassword, LongUser, None), One(LongUser, None, None)} \cup
  {[controller |-> None, agents |-> [a \in Agents |-> [env |-> None, file |-> None]]]}
=============================================================================
