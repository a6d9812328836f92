------------------------ MODULE AgentRegistryProofs ------------------------
(***************************************************************************)
(* Registration, for any number of agents, rows, faults and deployments:   *)
(* who gets past Basic authentication, whether what is answered is in the  *)
(* table, what a listing holds, and who listens where.                     *)
(***************************************************************************)
EXTENDS AgentRegistry, SequenceTheorems, TLAPS

-----------------------------------------------------------------------------
(* The header is undone by the split unless the user name has a colon.       *)

\* Two sequences with one element between them.
LEMMA JoinedBy ==
  ASSUME NEW s \in Seq(Nat), NEW t \in Seq(Nat), NEW x \in Nat,
         NEW m \in Nat, NEW n \in Nat, m = Len(s), n = Len(t),
         NEW h, h = (s \o <<x>>) \o t
  PROVE  /\ h \in Seq(Nat) /\ Len(h) = m + 1 + n
         /\ \A i \in 1..m : h[i] = s[i]
         /\ h[m + 1] = x
         /\ \A i \in 1..n : h[m + 1 + i] = t[i]
<1>1. PICK c \in Seq(Nat) : c = <<x>> /\ Len(c) = 1 /\ c[1] = x
  <2>1. <<x>> \in Seq(Nat) /\ Len(<<x>>) = 1 /\ <<x>>[1] = x
    OBVIOUS
  <2> QED
    BY <2>1
<1>2. PICK sc \in Seq(Nat) : sc = s \o c
  BY ConcatProperties
<1>3. Len(sc) = m + 1 /\ \A i \in 1..(m + 1) : sc[i] = IF i <= m THEN s[i] ELSE c[i - m]
  BY <1>1, <1>2, ConcatProperties
<1>4. h = sc \o t
  BY <1>1, <1>2
<1>5. /\ h \in Seq(Nat) /\ Len(h) = m + 1 + n
      /\ \A i \in 1..(m + 1 + n) : h[i] = IF i <= m + 1 THEN sc[i] ELSE t[i - (m + 1)]
  <2>1. /\ sc \o t \in Seq(Nat) /\ Len(sc \o t) = Len(sc) + Len(t)
        /\ \A i \in 1..(Len(sc) + Len(t)) :
             (sc \o t)[i] = IF i <= Len(sc) THEN sc[i] ELSE t[i - Len(sc)]
    BY ConcatProperties, Zenon
  <2> QED
    BY <1>3, <1>4, <2>1
<1>6. \A i \in 1..m : h[i] = s[i]
  <2>1. \A i \in 1..m : i \in 1..(m + 1 + n) /\ i \in 1..(m + 1) /\ i <= m + 1 /\ i <= m
    OBVIOUS
  <2> QED
    BY <1>3, <1>5, <2>1
<1>7. h[m + 1] = x
  <2>1. m + 1 \in 1..(m + 1 + n) /\ m + 1 \in 1..(m + 1) /\ ~(m + 1 <= m) /\ (m + 1) - m = 1
    OBVIOUS
  <2> QED
    BY <1>1, <1>3, <1>5, <2>1
<1>8. ASSUME NEW i \in 1..n PROVE h[m + 1 + i] = t[i]
  <2>1. /\ m + 1 + i \in 1..(m + 1 + n) /\ ~(m + 1 + i <= m + 1)
        /\ (m + 1 + i) - (m + 1) = i
    OBVIOUS
  <2> QED
    BY <1>5, <2>1
<1> QED
  BY <1>5, <1>6, <1>7, <1>8

LEMMA HeaderSplits ==
  ASSUME NEW user \in Seq(Nat), NEW password \in Seq(Nat),
         NEW u \in Seq(Nat), NEW p \in Seq(Nat),
         \A j \in 1..Len(user) : user[j] # Colon,
         ValidateBasicAuth(CreateBasicAuthHeader(user, password), u, p)
  PROVE  user = u /\ password = p
<1>1. PICK m \in Nat, n \in Nat : m = Len(user) /\ n = Len(password)
  BY LenProperties
<1>h. PICK h : h = CreateBasicAuthHeader(user, password)
  OBVIOUS
<1>2. /\ h \in Seq(Nat) /\ Len(h) = m + 1 + n
      /\ \A i \in 1..m : h[i] = user[i]
      /\ h[m + 1] = Colon
      /\ \A i \in 1..n : h[m + 1 + i] = password[i]
  <2>1. h = (user \o <<Colon>>) \o password
    BY <1>h DEF CreateBasicAuthHeader
  <2> QED
    BY <1>1, <2>1, ColonAssumption, JoinedBy
<1>3. PICK i \in 1..(m + 1 + n) :
        /\ h[i] = Colon /\ \A j \in 1..(i - 1) : h[j] # Colon
        /\ SubSeq(h, 1, i - 1) = u
        /\ SubSeq(h, i + 1, m + 1 + n) = p
  BY <1>h, <1>2 DEF ValidateBasicAuth, EndsUser
<1>4. i = m + 1
  <2>1. ~(i <= m)
    BY <1>1, <1>2, <1>3
  <2>2. ~(m + 1 < i)
    <3>1. m + 1 < i => m + 1 \in 1..(i - 1)
      OBVIOUS
    <3> QED
      BY <1>2, <1>3, <3>1
  <2> QED
    BY <2>1, <2>2
<1>5. u = user
  <2>1. u = SubSeq(h, 1, m)
    BY <1>3, <1>4
  <2>2. \A k \in 1..m : h[k] \in Nat
    BY <1>2, ElementOfSeq
  <2>3. /\ Len(u) = IF 1 <= m THEN m - 1 + 1 ELSE 0
        /\ \A k \in 1..(m - 1 + 1) : u[k] = h[1 + k - 1]
    BY <2>1, <2>2, SubSeqProperties
  <2>4. Len(u) = m
    BY <2>3
  <2>5. ASSUME NEW k \in 1..m PROVE u[k] = user[k]
    <3>1. k \in 1..(m - 1 + 1) /\ 1 + k - 1 = k
      OBVIOUS
    <3> QED
      BY <1>2, <2>3, <3>1
  <2> QED
    BY <1>1, <2>4, <2>5, SeqEqual
<1>6. p = password
  <2>1. p = SubSeq(h, m + 2, m + 1 + n)
    BY <1>3, <1>4
  <2>2. \A k \in (m + 2)..(m + 1 + n) : h[k] \in Nat
    BY <1>2, ElementOfSeq
  <2>3. /\ Len(p) = IF m + 2 <= m + 1 + n THEN m + 1 + n - (m + 2) + 1 ELSE 0
        /\ \A k \in 1..(m + 1 + n - (m + 2) + 1) : p[k] = h[m + 2 + k - 1]
    BY <2>1, <2>2, SubSeqProperties
  <2>4. Len(p) = n
    BY <2>3
  <2>5. ASSUME NEW k \in 1..n PROVE p[k] = password[k]
    <3>1. k \in 1..(m + 1 + n - (m + 2) + 1) /\ m + 2 + k - 1 = m + 1 + k
      OBVIOUS
    <3> QED
      BY <1>2, <2>3, <3>1
  <2> QED
    BY <1>1, <2>4, <2>5, SeqEqual
<1> QED
  BY <1>5, <1>6

\* The right header is let in: the first colon is the one after the user name.
LEMMA HeaderFits ==
  ASSUME NEW user \in Seq(Nat), NEW password \in Seq(Nat),
         \A j \in 1..Len(user) : user[j] # Colon
  PROVE  ValidateBasicAuth(CreateBasicAuthHeader(user, password), user, password)
<1>1. PICK m \in Nat, n \in Nat : m = Len(user) /\ n = Len(password)
  BY LenProperties
<1>h. PICK h : h = CreateBasicAuthHeader(user, password)
  OBVIOUS
<1>2. /\ h \in Seq(Nat) /\ Len(h) = m + 1 + n
      /\ \A i \in 1..m : h[i] = user[i]
      /\ h[m + 1] = Colon
      /\ \A i \in 1..n : h[m + 1 + i] = password[i]
  <2>1. h = (user \o <<Colon>>) \o password
    BY <1>h DEF CreateBasicAuthHeader
  <2> QED
    BY <1>1, <2>1, ColonAssumption, JoinedBy
<1>3. EndsUser(h, m + 1)
  <2>1. \A j \in 1..(m + 1 - 1) : j \in 1..m
    OBVIOUS
  <2> QED
    BY <1>1, <1>2, <2>1 DEF EndsUser
<1>4. \A k \in 1..(m + 1 + n) : h[k] \in Nat
  BY <1>2, ElementOfSeq
<1>5. SubSeq(h, 1, m) = user
  <2>1. \A k \in 1..m : h[k] \in Nat
    BY <1>4
  <2>2. /\ SubSeq(h, 1, m) \in Seq(Nat)
        /\ Len(SubSeq(h, 1, m)) = IF 1 <= m THEN m - 1 + 1 ELSE 0
        /\ \A k \in 1..(m - 1 + 1) : SubSeq(h, 1, m)[k] = h[1 + k - 1]
    BY <2>1, SubSeqProperties
  <2>3. Len(SubSeq(h, 1, m)) = m
    BY <2>2
  <2>4. ASSUME NEW k \in 1..m PROVE SubSeq(h, 1, m)[k] = user[k]
    <3>1. k \in 1..(m - 1 + 1) /\ 1 + k - 1 = k
      OBVIOUS
    <3> QED
      BY <1>2, <2>2, <3>1
  <2> QED
    BY <1>1, <2>2, <2>3, <2>4, SeqEqual
<1>6. SubSeq(h, m + 2, m + 1 + n) = password
  <2>1. \A k \in (m + 2)..(m + 1 + n) : h[k] \in Nat
    BY <1>4
  <2>2. /\ SubSeq(h, m + 2, m + 1 + n) \in Seq(Nat)
        /\ Len(SubSeq(h, m + 2, m + 1 + n))
             = IF m + 2 <= m + 1 + n THEN m + 1 + n - (m + 2) + 1 ELSE 0
        /\ \A k \in 1..(m + 1 + n - (m + 2) + 1) :
             SubSeq(h, m + 2, m + 1 + n)[k] = h[m + 2 + k - 1]
    BY <2>1, SubSeqProperties
  <2>3. Len(SubSeq(h, m + 2, m + 1 + n)) = n
    BY <2>2
  <2>4. ASSUME NEW k \in 1..n PROVE SubSeq(h, m + 2, m + 1 + n)[k] = password[k]
    <3>1. k \in 1..(m + 1 + n - (m + 2) + 1) /\ m + 2 + k - 1 = m + 1 + k
      OBVIOUS
    <3> QED
      BY <1>2, <2>2, <3>1
  <2> QED
    BY <1>1, <2>2, <2>3, <2>4, SeqEqual
<1>7. /\ m + 1 \in 1..Len(h) /\ (m + 1) - 1 = m /\ (m + 1) + 1 = m + 2
      /\ Len(h) = m + 1 + n
  BY <1>2
<1>8. ValidateBasicAuth(h, user, password)
  BY <1>3, <1>5, <1>6, <1>7, Zenon DEF ValidateBasicAuth
<1> QED
  BY <1>h, <1>8

-----------------------------------------------------------------------------
(* The inductive invariant.                                                  *)

\* Whoever got past the middleware had the right header, from a file that parses.
Admitted ==
  \A a \in Agents :
    /\ pc[a] # "down" => settings[a].file # Malformed
    /\ pc[a] \in Registered => Authorized(a)

\* An id is in the table before it is answered.
Ids ==
  \A a \in Agents : /\ granted[a] # 0 <=> handler[a] = "answer"
                    /\ granted[a] # 0 => granted[a] \in rows

\* What the cursor has still to reach.
Listing ==
  /\ lister = "next" => asked \subseteq list \cup rest
  /\ (lister = "answer" /\ ~cut) => asked \subseteq list

IInv == TypeOK /\ Admitted /\ Ids /\ Listing

\* ConnectionIsReturned is inductive beside it.
LEMMA ConnectionInit == Init => ConnectionIsReturned
BY DEF Init, ConnectionIsReturned

LEMMA ConnectionStep == ConnectionIsReturned /\ [Next]_vars => ConnectionIsReturned'
<1> SUFFICES ASSUME ConnectionIsReturned, [Next]_vars PROVE ConnectionIsReturned'
  OBVIOUS
<1> USE DEF ConnectionIsReturned
<1>1. CASE ControllerStops
  BY <1>1, Zenon DEF ControllerStops, ListDone
<1>2. CASE Query
  BY <1>2, Zenon DEF Query
<1>3. CASE ListAgents \/ ListSteps
  <2>1. CASE ListAgents
    BY <2>1 DEF ListAgents
  <2>2. CASE QueryFails
    BY <2>2 DEF QueryFails
  <2>3. CASE NextRow
    BY <2>3 DEF NextRow
  <2>4. CASE LastRow \/ CursorBreaks \/ ScanFails
    BY <2>4, Zenon DEF LastRow, CursorBreaks, ScanFails
  <2>5. CASE AnswerList
    BY <2>5 DEF AnswerList, ListDone
  <2> QED
    BY <1>3, <2>1, <2>2, <2>3, <2>4, <2>5 DEF ListSteps
<1>4. CASE ControllerStarts \/ ControllerGivesUp \/ BrokerStops \/ BrokerStarts
  BY <1>4 DEF ControllerStarts, ControllerGivesUp, BrokerStops, BrokerStarts, listing
<1>5. ASSUME NEW a \in Agents,
             \/ AgentStart(a) \/ AgentCrash(a) \/ LinkGivesUp(a) \/ AgentSteps(a)
             \/ Insert(a) \/ ServeSteps(a)
      PROVE  ConnectionIsReturned'
  BY <1>5 DEF AgentStart, AgentCrash, LinkGivesUp, AgentSteps, Register, RegisterFails, Create,
              CreateFails, Start, Insert, ServeSteps, InsertFails, Answer, AnswerError, listing
<1>6. CASE UNCHANGED vars
  BY <1>6 DEF vars, listing
<1> QED
  BY <1>1, <1>2, <1>3, <1>4, <1>5, <1>6 DEF Next

\* TypeOK by the groups of variables that the actions leave alone together.
TypeFixed == [controller |-> ctl, agents |-> settings] \in Deployments
TypeOutside ==
  /\ up \in BOOLEAN /\ connected \in BOOLEAN /\ broker \in BOOLEAN
  /\ closed \in [Agents -> BOOLEAN]
  /\ budget \in 0..MaxFaults
TypeAgent ==
  /\ pc \in [Agents -> {"down", "register"} \cup Registered]
  /\ id \in [Agents -> 0..MaxRows]
TypeServing ==
  /\ handler \in [Agents -> {"none", "insert", "answer", "error"}]
  /\ granted \in [Agents -> 0..MaxRows]
TypeTable == issued \in 0..MaxRows /\ rows \subseteq 1..issued /\ answered \subseteq rows
TypeListing ==
  /\ busy \in BOOLEAN /\ cut \in BOOLEAN
  /\ lister \in {"idle", "query", "next", "answer", "error"}
  /\ rest \subseteq rows /\ list \subseteq rows /\ asked \subseteq answered

LEMMA TypeParts ==
  /\ TypeOK <=> TypeFixed /\ TypeOutside /\ TypeAgent /\ TypeServing /\ TypeTable /\ TypeListing
  /\ TypeFixed' /\ TypeOutside' /\ TypeAgent' /\ TypeServing' /\ TypeTable' /\ TypeListing'
       => TypeOK'
BY Zenon DEF TypeOK, TypeFixed, TypeOutside, TypeAgent, TypeServing, TypeTable, TypeListing

LEMMA InitInv == Init => IInv
<1> SUFFICES ASSUME Init PROVE IInv
  OBVIOUS
<1> USE DEF Init
<1>1. TypeFixed
  BY DeploymentsAssumption DEF TypeFixed
<1>2. TypeOutside
  <2>1. budget \in 0..MaxFaults /\ closed \in [Agents -> BOOLEAN]
    BY BoundsAssumption
  <2> QED
    BY <2>1, Zenon DEF TypeOutside
<1>7. TypeListing
  <2>1. rest \subseteq rows /\ list \subseteq rows /\ asked \subseteq answered
    OBVIOUS
  <2> QED
    BY <2>1, Zenon DEF TypeListing
<1>3. TypeAgent /\ TypeServing /\ TypeTable
  BY BoundsAssumption DEF TypeAgent, TypeServing, TypeTable
<1>4. Admitted
  BY DEF Admitted, Registered
<1>5. Ids
  BY DEF Ids
<1>6. Listing
  BY DEF Listing
<1> QED
  BY <1>1, <1>2, <1>3, <1>4, <1>5, <1>6, <1>7, TypeParts DEF IInv

-----------------------------------------------------------------------------
(* What each part of the invariant reads.                                    *)

LEMMA FixedFrame ==
  ASSUME TypeOK, UNCHANGED fixed
  PROVE  TypeFixed'
<1>1. TypeFixed
  BY TypeParts
<1> QED
  BY <1>1 DEF TypeFixed, fixed

LEMMA ListingFrame ==
  ASSUME TypeOK, Listing, UNCHANGED listing, rows \subseteq rows', answered \subseteq answered'
  PROVE  TypeListing' /\ Listing'
<1>1. TypeListing
  BY TypeParts
<1>2. /\ busy' = busy /\ cut' = cut /\ lister' = lister
      /\ rest' = rest /\ list' = list /\ asked' = asked
  BY DEF listing
<1>3. rest' \subseteq rows' /\ list' \subseteq rows' /\ asked' \subseteq answered'
  BY <1>1, <1>2 DEF TypeListing
<1>4. TypeListing'
  BY <1>1, <1>2, <1>3, Zenon DEF TypeListing
<1>5. Listing'
  BY <1>2, Zenon DEF Listing
<1> QED
  BY <1>4, <1>5

LEMMA IdsFrame ==
  ASSUME TypeOK, Ids, UNCHANGED <<serving, table>>
  PROVE  TypeServing' /\ TypeTable' /\ Ids'
<1>1. TypeServing /\ TypeTable
  BY TypeParts
<1> QED
  BY <1>1 DEF TypeServing, TypeTable, Ids, serving, table

\* An agent that forgets its id, or a handler that does not hold one.
LEMMA IdsMove ==
  ASSUME TypeOK, Ids, UNCHANGED <<granted, table>>, NEW a \in Agents,
         id' = id \/ id' = [id EXCEPT ![a] = 0],
         \/ handler' = handler
         \/ /\ handler[a] # "answer"
            /\ \E to \in {"none", "insert", "error"} : handler' = [handler EXCEPT ![a] = to]
  PROVE  id' \in [Agents -> 0..MaxRows] /\ TypeServing' /\ TypeTable' /\ Ids'
<1>1. TypeAgent /\ TypeServing /\ TypeTable
  BY TypeParts
<1>2. /\ id' \in [Agents -> 0..MaxRows]
      /\ \A b \in Agents : id'[b] \in {id[b], 0}
  BY <1>1, BoundsAssumption DEF TypeAgent
<1>3. /\ handler' \in [Agents -> {"none", "insert", "answer", "error"}]
      /\ \A b \in Agents : handler'[b] = "answer" <=> handler[b] = "answer"
  BY <1>1 DEF TypeServing
<1>4. TypeServing' /\ TypeTable'
  BY <1>1, <1>3 DEF TypeServing, TypeTable, table
<1>5. Ids'
  BY <1>2, <1>3 DEF Ids, table
<1> QED
  BY <1>2, <1>4, <1>5

\* An agent that moves on inside its registration, or goes back before it.
LEMMA AdmittedMove ==
  ASSUME TypeOK, Admitted, UNCHANGED fixed, NEW a \in Agents,
         NEW to \in {"down", "register"} \cup Registered,
         pc' = [pc EXCEPT ![a] = to],
         to # "down" => settings[a].file # Malformed,
         to \in Registered => Authorized(a)
  PROVE  Admitted' /\ pc' \in [Agents -> {"down", "register"} \cup Registered]
<1>1. TypeAgent
  BY TypeParts
<1>2. pc' \in [Agents -> {"down", "register"} \cup Registered]
  BY <1>1 DEF TypeAgent
<1>3. \A b \in Agents : Authorized(b)' = Authorized(b)
  BY DEF fixed, Authorized, LoadConfig, Lookup, Controller
<1>4. \A b \in Agents : pc'[b] = IF b = a THEN to ELSE pc[b]
  BY <1>1 DEF TypeAgent
<1> QED
  BY <1>2, <1>3, <1>4 DEF Admitted, fixed

LEMMA AdmittedFrame ==
  ASSUME TypeOK, Admitted, UNCHANGED <<fixed, pc>>
  PROVE  Admitted'
<1>1. \A b \in Agents : Authorized(b)' = Authorized(b)
  BY DEF fixed, Authorized, LoadConfig, Lookup, Controller
<1> QED
  BY <1>1 DEF Admitted, fixed

-----------------------------------------------------------------------------
(* The steps.                                                                *)

\* Steps of the controller's and the brokers' processes and of the connections.
LEMMA OutsideStep ==
  ASSUME IInv,
         \/ ControllerStarts \/ ControllerGivesUp \/ ControllerStops
         \/ BrokerStops \/ BrokerStarts
         \/ \E a \in Agents : LinkGivesUp(a)
  PROVE  IInv'
<1> USE DEF IInv
<1>1. TypeOutside /\ TypeAgent /\ TypeServing /\ TypeTable /\ TypeListing
  BY TypeParts
<1>2. TypeFixed'
  BY FixedFrame DEF ControllerStarts, ControllerGivesUp, ControllerStops, BrokerStops,
                    BrokerStarts, LinkGivesUp, fixed
<1>3. TypeOutside'
  <2>1. up' \in BOOLEAN /\ broker' \in BOOLEAN /\ connected' \in BOOLEAN
    BY <1>1, Zenon DEF TypeOutside, ControllerStarts, ControllerGivesUp, ControllerStops,
                       BrokerStops, BrokerStarts, LinkGivesUp
  <2>2. budget' \in 0..MaxFaults
    BY <1>1, BoundsAssumption DEF TypeOutside, ControllerStarts, ControllerGivesUp,
                                  ControllerStops, BrokerStops, BrokerStarts, LinkGivesUp,
                                  Fault
  <2>3. closed' \in [Agents -> BOOLEAN]
    BY <1>1 DEF TypeOutside, ControllerStarts, ControllerGivesUp, ControllerStops,
                BrokerStops, BrokerStarts, LinkGivesUp
  <2> QED
    BY <2>1, <2>2, <2>3, Zenon DEF TypeOutside
<1>4. CASE ControllerStops
  <2> USE <1>4 DEF ControllerStops
  <2>1. /\ pc' \in [Agents -> {"down", "register"} \cup Registered]
        /\ \A a \in Agents : pc'[a] \in {pc[a], "down"}
    BY <1>1 DEF TypeAgent, Registered
  <2>2. TypeAgent'
    BY <2>1, <1>1 DEF TypeAgent
  <2>3. Admitted'
    <3>1. \A a \in Agents : Authorized(a)' = Authorized(a)
      BY DEF fixed, Authorized, LoadConfig, Lookup, Controller
    <3>2. \A a \in Agents : pc'[a] \in {pc[a], "down"}
      BY <2>1
    <3> QED
      BY <3>1, <3>2 DEF Admitted, fixed, Registered
  <2>4. TypeServing' /\ TypeTable' /\ Ids'
    BY <1>1, BoundsAssumption DEF TypeServing, TypeTable, Ids, table
  <2>5. TypeListing'
    <3>1. rest' \subseteq rows' /\ list' \subseteq rows' /\ asked' \subseteq answered'
      BY DEF ListDone
    <3>2. busy' \in BOOLEAN /\ cut' \in BOOLEAN /\ lister' = "idle"
      BY Zenon DEF ListDone
    <3> QED
      BY <3>1, <3>2, Zenon DEF TypeListing
  <2>6. Listing'
    BY DEF Listing, ListDone
  <2> QED
    BY <1>2, <1>3, <2>2, <2>3, <2>4, <2>5, <2>6, TypeParts
<1>5. CASE \/ ControllerStarts \/ ControllerGivesUp \/ BrokerStops \/ BrokerStarts
           \/ \E a \in Agents : LinkGivesUp(a)
  <2>1. UNCHANGED <<fixed, agent, serving, table, listing>>
    BY <1>5 DEF ControllerStarts, ControllerGivesUp, BrokerStops, BrokerStarts, LinkGivesUp
  <2>2. TypeAgent' /\ Admitted'
    BY <1>1, <2>1, AdmittedFrame DEF TypeAgent, agent
  <2>3. TypeServing' /\ TypeTable' /\ Ids'
    BY <2>1, IdsFrame DEF agent
  <2>4. TypeListing' /\ Listing'
    BY <2>1, ListingFrame DEF table
  <2> QED
    BY <1>2, <1>3, <2>2, <2>3, <2>4, TypeParts
<1> QED
  BY <1>4, <1>5

LEMMA OutsideFrame ==
  ASSUME TypeOK, UNCHANGED <<up, connected, broker>>,
         closed' = closed \/ \E a \in Agents : closed' = [closed EXCEPT ![a] = FALSE],
         budget' = budget \/ Fault
  PROVE  TypeOutside'
<1>1. TypeOutside
  BY TypeParts
<1>2. up' \in BOOLEAN /\ connected' \in BOOLEAN /\ broker' \in BOOLEAN
  BY <1>1, Zenon DEF TypeOutside
<1>3. budget' \in 0..MaxFaults
  BY <1>1, BoundsAssumption DEF TypeOutside, Fault
<1>4. closed' \in [Agents -> BOOLEAN]
  BY <1>1 DEF TypeOutside
<1> QED
  BY <1>2, <1>3, <1>4, Zenon DEF TypeOutside

\* Steps of an agent process.
LEMMA AgentStep ==
  ASSUME IInv, NEW a \in Agents, AgentStart(a) \/ AgentCrash(a) \/ AgentSteps(a)
  PROVE  IInv'
<1> USE DEF IInv
<1> DEFINE To == {"down", "register"} \cup Registered
<1>1. /\ UNCHANGED <<up, connected, broker, fixed, granted, table, listing>>
      /\ budget' = budget \/ Fault
      /\ closed' = closed \/ closed' = [closed EXCEPT ![a] = FALSE]
      /\ id' = id \/ id' = [id EXCEPT ![a] = 0]
      /\ \/ handler' = handler
         \/ handler[a] = "none" /\ handler' = [handler EXCEPT ![a] = "insert"]
  BY DEF AgentStart, AgentCrash, AgentSteps, Register, RegisterFails, Create, CreateFails,
         Start, Serve, serving
<1>2. \E to \in To : /\ pc' = [pc EXCEPT ![a] = to]
                     /\ to # "down" => settings[a].file # Malformed
                     /\ to \in Registered => Authorized(a)
  <2>1. CASE AgentStart(a)
    BY <2>1 DEF AgentStart, Move, Registered
  <2>2. CASE AgentCrash(a)
    BY <2>2 DEF AgentCrash, Registered
  <2>3. CASE Register(a)
    BY <2>3 DEF Register, Move, Registered, Admitted
  <2>4. CASE RegisterFails(a)
    BY <2>4 DEF RegisterFails, Move, Registered
  <2>5. CASE Create(a)
    BY <2>5 DEF Create, Move, Registered, Admitted
  <2>6. CASE CreateFails(a)
    BY <2>6 DEF CreateFails, Move, Registered
  <2>7. CASE Start(a)
    BY <2>7 DEF Start, Move, Registered, Admitted
  <2> QED
    BY <2>1, <2>2, <2>3, <2>4, <2>5, <2>6, <2>7 DEF AgentSteps
<1>3. Admitted' /\ pc' \in [Agents -> To]
  BY <1>1, <1>2, AdmittedMove
<1>4. id' \in [Agents -> 0..MaxRows] /\ TypeServing' /\ TypeTable' /\ Ids'
  BY <1>1, IdsMove
<1>5. TypeAgent'
  BY <1>3, <1>4 DEF TypeAgent
<1>6. TypeFixed' /\ TypeOutside'
  BY <1>1, FixedFrame, OutsideFrame
<1>7. TypeListing' /\ Listing'
  BY <1>1, ListingFrame DEF table
<1> QED
  BY <1>3, <1>4, <1>5, <1>6, <1>7, TypeParts

\* Steps of a RegisterAgent handler that give no id.
LEMMA RefuseStep ==
  ASSUME IInv, NEW a \in Agents, InsertFails(a) \/ AnswerError(a)
  PROVE  IInv'
<1> USE DEF IInv
<1> DEFINE To == {"down", "register"} \cup Registered
<1>0. TypeAgent
  BY TypeParts
<1>1. /\ UNCHANGED <<up, connected, broker, closed, fixed, id, granted, table, listing>>
      /\ budget' = budget \/ Fault
      /\ handler[a] # "answer"
      /\ \E to \in {"none", "insert", "error"} : handler' = [handler EXCEPT ![a] = to]
  BY DEF InsertFails, AnswerError, Serve, agent
<1>2. pc' = pc \/ pc' = [pc EXCEPT ![a] = "down"]
  BY <1>0 DEF InsertFails, AnswerError, agent, TypeAgent
<1>3. Admitted' /\ pc' \in [Agents -> To]
  <2>1. CASE pc' = pc
    BY <1>0, <1>1, <2>1, AdmittedFrame DEF TypeAgent
  <2>2. CASE pc' = [pc EXCEPT ![a] = "down"]
    BY <1>1, <2>2, AdmittedMove DEF Registered
  <2> QED
    BY <1>2, <2>1, <2>2
<1>4. id' \in [Agents -> 0..MaxRows] /\ TypeServing' /\ TypeTable' /\ Ids'
  BY <1>1, IdsMove
<1>5. TypeAgent'
  BY <1>3, <1>4 DEF TypeAgent
<1>6. TypeFixed' /\ TypeOutside'
  BY <1>1, FixedFrame, OutsideFrame
<1>7. TypeListing' /\ Listing'
  BY <1>1, ListingFrame DEF table
<1> QED
  BY <1>3, <1>4, <1>5, <1>6, <1>7, TypeParts

\* A new id is larger than all in the table.
LEMMA InsertStep ==
  ASSUME IInv, NEW a \in Agents, Insert(a)
  PROVE  IInv'
<1> USE DEF IInv, Insert
<1>1. TypeAgent /\ TypeServing /\ TypeTable
  BY TypeParts
<1>2. /\ issued \in 0..MaxRows /\ issued + 1 \in 1..MaxRows
      /\ issued + 1 \notin rows /\ rows \subseteq 1..issued
  BY <1>1, BoundsAssumption DEF TypeTable
<1>3. TypeAgent' /\ Admitted'
  BY <1>1, AdmittedFrame DEF TypeAgent, agent
<1>4. TypeServing'
  BY <1>1, <1>2 DEF TypeServing, Serve
<1>5. TypeTable'
  BY <1>1, <1>2 DEF TypeTable
<1>6. Ids'
  <2>1. /\ \A b \in Agents : handler'[b] = IF b = a THEN "answer" ELSE handler[b]
        /\ \A b \in Agents : granted'[b] = IF b = a THEN issued + 1 ELSE granted[b]
        /\ rows' = rows \cup {issued + 1}
    BY <1>1 DEF TypeServing, Serve
  <2> QED
    BY <1>2, <2>1 DEF Ids
<1>7. TypeFixed' /\ TypeOutside'
  BY FixedFrame, OutsideFrame
<1>8. TypeListing' /\ Listing'
  BY ListingFrame
<1> QED
  BY <1>3, <1>4, <1>5, <1>6, <1>7, <1>8, TypeParts

\* The agent, if it is still there, takes over the id of its handler.
LEMMA AnswerStep ==
  ASSUME IInv, NEW a \in Agents, Answer(a)
  PROVE  IInv'
<1> USE DEF IInv, Answer
<1>1. TypeAgent /\ TypeServing /\ TypeTable
  BY TypeParts
<1>2. /\ granted[a] # 0 /\ granted[a] \in rows /\ granted[a] \in 0..MaxRows
      /\ answered' = answered \cup {granted[a]} /\ rows' = rows /\ issued' = issued
      /\ \A b \in Agents : handler'[b] = IF b = a THEN "none" ELSE handler[b]
      /\ \A b \in Agents : granted'[b] = IF b = a THEN 0 ELSE granted[b]
  BY <1>1 DEF Ids, Serve, TypeServing
<1>3. TypeServing' /\ TypeTable'
  <2>1. TypeServing'
    BY <1>1, BoundsAssumption DEF TypeServing, Serve
  <2>2. TypeTable'
    BY <1>1, <1>2 DEF TypeTable
  <2> QED
    BY <2>1, <2>2
<1>4. /\ id' \in [Agents -> 0..MaxRows]
      /\ \A b \in Agents : id'[b] = id[b] \/ (b = a /\ id'[b] = granted[a])
  BY <1>1, <1>2 DEF TypeAgent, agent
<1>5. Ids'
  BY <1>2, <1>4 DEF Ids
<1>6. Admitted' /\ pc' \in [Agents -> {"down", "register"} \cup Registered]
  <2>1. CASE pc' = pc
    BY <1>1, <2>1, AdmittedFrame DEF TypeAgent
  <2>2. CASE pc[a] = "waiting" /\ pc' = [pc EXCEPT ![a] = "create"]
    BY <2>2, AdmittedMove DEF Registered, Admitted
  <2> QED
    BY <2>1, <2>2 DEF agent
<1>7. TypeAgent'
  BY <1>4, <1>6 DEF TypeAgent
<1>8. TypeFixed' /\ TypeOutside'
  BY FixedFrame, OutsideFrame
<1>9. TypeListing' /\ Listing'
  BY <1>2, ListingFrame
<1> QED
  BY <1>3, <1>5, <1>6, <1>7, <1>8, <1>9, TypeParts

\* Steps of the listing: the table only grows while it reads.
LEMMA ListStep ==
  ASSUME IInv, ListAgents \/ Query \/ ListSteps
  PROVE  IInv'
<1> USE DEF IInv
<1>1. TypeAgent /\ TypeTable /\ TypeListing
  BY TypeParts
<1>2. /\ UNCHANGED <<up, connected, broker, closed, fixed, agent, serving, table>>
      /\ budget' = budget \/ Fault
  BY DEF ListAgents, Query, ListSteps, QueryFails, NextRow, LastRow, CursorBreaks, ScanFails,
         AnswerList
<1>3. TypeAgent' /\ Admitted'
  BY <1>1, <1>2, AdmittedFrame DEF TypeAgent, agent
<1>4. TypeServing' /\ TypeTable' /\ Ids'
  BY <1>2, IdsFrame DEF agent
<1>5. TypeFixed' /\ TypeOutside'
  BY <1>2, FixedFrame, OutsideFrame
<1> USE DEF ListAgents, Query, ListSteps, QueryFails, NextRow, LastRow, CursorBreaks,
            ScanFails, AnswerList, ListDone
<1>6. TypeListing'
  <2>1. busy' \in BOOLEAN /\ cut' \in BOOLEAN
    BY <1>1, Zenon DEF TypeListing
  <2>2. /\ lister' \in {"idle", "query", "next", "answer", "error"}
        /\ rest' \subseteq rows' /\ list' \subseteq rows' /\ asked' \subseteq answered'
    BY <1>1, <1>2 DEF TypeListing, table
  <2> QED
    BY <2>1, <2>2, Zenon DEF TypeListing
<1>7. Listing'
  <2>1. asked \subseteq rows
    BY <1>1 DEF TypeTable, TypeListing
  <2>2. CASE LastRow
    BY <2>2 DEF Listing
  <2>3. CASE CursorBreaks
    BY <2>3 DEF Listing
  <2>4. CASE ListAgents \/ Query \/ QueryFails \/ NextRow \/ ScanFails \/ AnswerList
    BY <2>1, <2>4 DEF Listing
  <2> QED
    BY <2>2, <2>3, <2>4
<1> QED
  BY <1>3, <1>4, <1>5, <1>6, <1>7, TypeParts

LEMMA StepInv == IInv /\ [Next]_vars => IInv'
<1> SUFFICES ASSUME IInv, [Next]_vars PROVE IInv'
  OBVIOUS
<1>1. CASE \/ ControllerStarts \/ ControllerGivesUp \/ ControllerStops
           \/ BrokerStops \/ BrokerStarts
           \/ \E a \in Agents : LinkGivesUp(a)
  BY <1>1, OutsideStep
<1>2. CASE \E a \in Agents : AgentStart(a) \/ AgentCrash(a) \/ AgentSteps(a)
  BY <1>2, AgentStep
<1>3. CASE \E a \in Agents : Insert(a) \/ ServeSteps(a)
  BY <1>3, InsertStep, AnswerStep, RefuseStep DEF ServeSteps
<1>4. CASE ListAgents \/ Query \/ ListSteps
  BY <1>4, ListStep
<1>5. CASE UNCHANGED vars
  <2>1. UNCHANGED <<up, connected, broker, closed, budget, fixed, pc, id, serving, table,
                    listing>>
    BY <1>5 DEF vars, agent
  <2>2. TypeFixed' /\ TypeOutside'
    BY <2>1, FixedFrame, OutsideFrame DEF IInv
  <2>3. TypeAgent' /\ Admitted'
    BY <2>1, TypeParts, AdmittedFrame DEF IInv, TypeAgent
  <2>4. TypeServing' /\ TypeTable' /\ Ids'
    BY <2>1, IdsFrame DEF IInv
  <2>5. TypeListing' /\ Listing'
    BY <2>1, ListingFrame DEF IInv, table
  <2> QED
    BY <2>2, <2>3, <2>4, <2>5, TypeParts DEF IInv
<1> QED
  BY <1>1, <1>2, <1>3, <1>4, <1>5 DEF Next

LEMMA AlwaysInv == Spec => []IInv
BY InitInv, StepInv, PTL DEF Spec

-----------------------------------------------------------------------------
(* The theorems.                                                             *)

\* The settings, the processes, the table and the listing have their types; an id
\* that was answered with 200 is in the table.
THEOREM TypeCorrect == Spec => []TypeOK
<1>1. IInv => TypeOK
  BY DEF IInv
<1> QED
  BY <1>1, AlwaysInv, PTL

\* A listing whose cursor did not break off has everybody who was answered before
\* it was asked for, whatever is inserted meanwhile.
THEOREM ListingHasEverybody == Spec => []ListingComplete
<1>1. IInv => ListingComplete
  BY DEF IInv, Listing, ListingComplete
<1> QED
  BY <1>1, AlwaysInv, PTL

LEMMA AgentStrings ==
  ASSUME TypeOK, NEW a \in Agents, settings[a].file # Malformed,
         NEW k \in {"user", "password"}
  PROVE  LoadConfig(a)[k] \in Seq(Nat) /\ Controller[k] \in Seq(Nat)
<1>1. PICK d \in Deployments : d.controller = ctl /\ d.agents = settings
  BY TypeParts DEF TypeFixed
<1>2. k \in Keys /\ Defaults[k] \in Seq(Nat)
  BY StringsAssumption DEF Keys
<1>3. ctl[k] # Unset => ctl[k] \in Seq(Nat)
  BY <1>1, StringsAssumption
<1>4. /\ settings[a].env[k] # Unset => settings[a].env[k] \in Seq(Nat)
      /\ settings[a].file[k] # Unset => settings[a].file[k] \in Seq(Nat)
  BY <1>1, StringsAssumption
<1>5. Controller[k] \in Seq(Nat)
  BY <1>2, <1>3 DEF Controller
<1>6. LoadConfig(a)[k] \in Seq(Nat)
  BY <1>2, <1>4 DEF LoadConfig, Lookup
<1> QED
  BY <1>5, <1>6

\* The one database connection is never kept by a listing that has ended.
THEOREM ConnectionComesBack == Spec => []ConnectionIsReturned
BY ConnectionInit, ConnectionStep, PTL DEF Spec

\* For any strings: an agent past the middleware has the controller's user name
\* and password, or a user name with a colon.
THEOREM OnlyTheRightOnesRegister == Spec => []RegisteredRightly
<1>1. ASSUME IInv PROVE RegisteredRightly
  <2> SUFFICES ASSUME NEW a \in Agents, pc[a] \in Registered,
                      \A i \in DOMAIN LoadConfig(a)["user"] : LoadConfig(a)["user"][i] # Colon
               PROVE  \A k \in {"user", "password"} : LoadConfig(a)[k] = Controller[k]
    BY DEF RegisteredRightly
  <2>1. TypeOK /\ Authorized(a) /\ settings[a].file # Malformed
    BY <1>1 DEF IInv, Admitted, Registered
  <2>2. \A k \in {"user", "password"} :
          LoadConfig(a)[k] \in Seq(Nat) /\ Controller[k] \in Seq(Nat)
    BY <2>1, AgentStrings
  <2>3. DOMAIN LoadConfig(a)["user"] = 1..Len(LoadConfig(a)["user"])
    BY <2>2, LenProperties
  <2>4. /\ LoadConfig(a)["user"] = Controller["user"]
        /\ LoadConfig(a)["password"] = Controller["password"]
    BY <2>1, <2>2, <2>3, HeaderSplits DEF Authorized
  <2> QED
    BY <2>4
<1> QED
  BY <1>1, AlwaysInv, PTL

\* For any deployment: an agent with the controller's environment passes the
\* middleware, and the channel it would listen to is one the controller sends on,
\* but for the four reasons in Misfit, a controller whose NATS client has given up
\* among them, and while its broker is down.
THEOREM SameSettingsFitTogether == Spec => []SameSettingsFit
<1>1. ASSUME TypeOK PROVE SameSettingsFit
  <2> SUFFICES ASSUME NEW a \in Agents, SameEnvironment(a), ~Misfit
               PROVE  Authorized(a) /\ (Outage \/ Channel(LoadConfig(a)) \in Offered)
    BY DEF SameSettingsFit
  <2>1. LoadConfig(a) = Controller
    <3>1. \A k \in Keys : Lookup(settings[a], k) = IF ctl[k] # Unset THEN ctl[k] ELSE Defaults[k]
      BY DEF SameEnvironment, Lookup
    <3> QED
      BY <3>1, Zenon DEF LoadConfig, Controller
  <2>2. Controller["user"] \in Seq(Nat) /\ Controller["password"] \in Seq(Nat)
    BY <1>1, AgentStrings DEF SameEnvironment
  <2>3. DOMAIN Controller["user"] = 1..Len(Controller["user"])
    BY <2>2, LenProperties
  <2>4. Authorized(a)
    BY <2>1, <2>2, <2>3, HeaderFits DEF Authorized, Misfit
  <2>5. PICK c : c = Controller
    OBVIOUS
  <2>6. /\ c = [k \in Keys |-> c[k]]
        /\ c["strategy"] \in {"POLLER", "REDIS", "NATS"}
        /\ c["strategy"] # "POLLER" => connected
        /\ c["strategy"] = "NATS" => c["subject"] = Defaults["subject"]
    BY <2>5 DEF Misfit, Supported, Controller
  <2>7. DEFINE sent == [c EXCEPT !["subject"] = Defaults["subject"]]
  <2>8. /\ sent["strategy"] = c["strategy"] /\ sent["broker"] = c["broker"]
        /\ sent["subject"] = Defaults["subject"]
    BY <2>6 DEF Keys
  <2>9. c["strategy"] # "POLLER" => Channel(c) = Channel(sent)
    BY <2>6, <2>8 DEF Channel
  <2>10. c["strategy"] = "POLLER" => Channel(c) = <<"POLLER">>
    BY DEF Channel
  <2>11. Outage \/ Channel(c) \in Offered
    BY <2>5, <2>6, <2>9, <2>10 DEF Offered, Outage
  <2> QED
    BY <2>1, <2>4, <2>5, <2>11
<1>2. IInv => TypeOK
  BY DEF IInv
<1> QED
  BY <1>1, <1>2, AlwaysInv, PTL
=============================================================================
