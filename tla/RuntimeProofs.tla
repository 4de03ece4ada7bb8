---------------------------- MODULE RuntimeProofs ----------------------------
(***************************************************************************)
(* What the sessions, the lanes and the commands of a runtime guarantee,    *)
(* for any agents, launches, commands and crashes.  The invariant is stated *)
(* agent by agent: a step works for one agent and leaves what the others    *)
(* own alone.                                                               *)
(***************************************************************************)
EXTENDS Runtime, SequenceTheorems, WellFoundedInduction, TLAPS

Row == [agent : Agent, instance : {"starting", "ready", "failed", "stopped", "interrupted"},
        binding : {"starting", "ready", "failed", "closed", "interrupted"}, native : {0} \cup Launch]
Registration == {"none", "reserved", "ready", "closed"}
Process == {"none", "live", "failed", "closing", "stuck", "gone"}
Op == [pc : {"none", "opening", "rejecting", "stopping"}, launch : {0} \cup Launch,
       resume : {0} \cup Launch, attempt : 0..StartAttempts,
       by : {"none", "startAll", "restart", "stop"}]
Phase == {"down", "starting", "unwinding", "started", "ready", "draining", "closing", "closed"}

SessionType ==
    /\ rows \in Seq(Row) /\ Len(rows) <= MaxLaunches
    /\ registry \in [Launch -> Registration] /\ cli \in [Launch -> Process]
    /\ session \in [Agent -> {0} \cup Launch] /\ op \in [Agent -> Op]
    /\ phase \in Phase /\ next \in 0..Len(AgentOrder) /\ plan \in [Agent -> {0} \cup Launch]
    /\ broken \subseteq Agent

\* The launches of an agent, and those whose native session was recorded.
Mine(a) == {l \in DOMAIN rows : rows[l].agent = a}
Recorded(a) == {l \in Mine(a) : rows[l].native # 0}
Latest(a, l) == l \in Mine(a) /\ \A k \in Mine(a) : k <= l

\* Agents that startAll has yet to start.
Later(a) == \E i \in next + 1..Len(AgentOrder) : AgentOrder[i] = a

\* The session of an agent is its latest launch, and everything agrees with it.
Backed(a) ==
    session[a] # 0 =>
        /\ Latest(a, session[a])
        /\ rows[session[a]].instance = "ready" /\ rows[session[a]].binding = "ready"
        /\ rows[session[a]].native # 0
        /\ registry[session[a]] = "ready" /\ cli[session[a]] \in {"live", "failed"}

\* What the manager awaits for an agent concerns its latest launch, and there is no
\* session meanwhile.
Underway(a) ==
    /\ op[a].pc = "none" => op[a] = NoOp
    /\ op[a].pc # "none" => session[a] = 0 /\ Latest(a, op[a].launch)
    /\ op[a].pc \in {"opening", "rejecting"} =>
           rows[op[a].launch].native = 0 /\ registry[op[a].launch] = "reserved"
    /\ op[a].pc = "opening" => cli[op[a].launch] = "none"
    /\ op[a].pc = "rejecting" => cli[op[a].launch] \in {"closing", "gone"}
    /\ op[a].pc = "stopping" => /\ cli[op[a].launch] \in {"closing", "failed"}
                                /\ op[a].by \in {"restart", "stop"}

\* A start resumes the latest native session, unless there is none or something of
\* the agent has failed.
Resumes(a) ==
    op[a].pc = "opening" \/ (op[a].pc = "stopping" /\ op[a].by = "restart") =>
        a \in broken \/ LatestNative(a) \in {0, op[a].resume}

LiveIsSession(a) == \A l \in Mine(a) : cli[l] = "live" => session[a] = l

\* Which of it depends on how far the runtime is.
Placed(a) ==
    /\ op[a].by = "stop" => phase \in {"unwinding", "closing"}
    /\ phase # "down" => \A l \in Mine(a) : Open(rows[l]) => l \in Owned(a)
    /\ phase \in {"down", "closed"} => session[a] = 0 /\ op[a] = NoOp
    /\ phase = "starting" /\ Later(a) =>
           session[a] = 0 /\ op[a] = NoOp /\ plan[a] = LatestNative(a)
    /\ phase \in {"starting", "started", "ready", "draining"} /\ op[a].pc = "none" /\ session[a] = 0 =>
           a \in broken \/ (phase = "starting" /\ Later(a))

AgentInvariant(a) == Backed(a) /\ Underway(a) /\ Resumes(a) /\ LiveIsSession(a) /\ Placed(a)

Unused == \A l \in Launch : l > Len(rows) => registry[l] = "none" /\ cli[l] = "none"

SessionInvariant == SessionType /\ Unused /\ \A a \in Agent : AgentInvariant(a)

----------------------------------------------------------------------------
(* Facts about the model's operators                                         *)

LEMMA OrderFacts ==
    /\ Len(AgentOrder) \in Nat
    /\ \A i \in 1..Len(AgentOrder) : AgentOrder[i] \in Agent
    /\ \A i, j \in 1..Len(AgentOrder) : AgentOrder[i] = AgentOrder[j] => i = j
    /\ \A a \in Agent : \E i \in 1..Len(AgentOrder) : AgentOrder[i] = a
    /\ \A l \in Launch : l \in Nat /\ l # 0 /\ l <= MaxLaunches
<1>1. Len(AgentOrder) \in Nat /\ DOMAIN AgentOrder = 1..Len(AgentOrder)
  BY OrderAssumption
<1>2. Agent = {AgentOrder[i] : i \in DOMAIN AgentOrder} BY DEF Agent, ToSet
<1>3. \A i, j \in DOMAIN AgentOrder : AgentOrder[i] = AgentOrder[j] => i = j
  BY OrderAssumption DEF IsInjective
<1>4. \A l \in Launch : l \in Nat /\ l # 0 /\ l <= MaxLaunches BY BoundAssumption DEF Launch
<1> QED BY <1>1, <1>2, <1>3, <1>4

\* A set of numbers up to n that is not empty has a greatest one.
LEMMA GreatestNumber ==
    ASSUME NEW n \in Nat, NEW S \in SUBSET (1..n), S # {}
    PROVE  \E x \in S : \A y \in S : y <= x
<1> DEFINE Below == OpToRel(<, Nat)
           T == {n - x : x \in S}
<1>1. T \in SUBSET Nat /\ T # {}
  <2>1. \A x \in 1..n : n - x \in Nat OBVIOUS
  <2>2. T \subseteq Nat BY <2>1
  <2> QED BY <2>2
<1>2. IsWellFoundedOn(Below, Nat) BY NatLessThanWellFounded
<1>3. PICK t \in T : \A u \in T : ~(<<u, t>> \in Below) BY <1>1, <1>2, WFMin
<1>4. \A u \in T : t <= u
  <2> TAKE u \in T
  <2>1. t \in Nat /\ u \in Nat BY <1>1
  <2>2. ~(u < t) BY <1>3, <2>1 DEF OpToRel
  <2> QED BY <2>1, <2>2
<1>5. PICK x \in S : t = n - x OBVIOUS
<1>6. \A y \in S : n - y \in T OBVIOUS
<1>7. ASSUME NEW y \in S PROVE y <= x
  <2>1. x \in 1..n /\ y \in 1..n OBVIOUS
  <2>2. n - x <= n - y BY <1>4, <1>5, <1>6
  <2> QED BY <2>1, <2>2
<1> QED BY <1>7

LEMMA RowFacts ==
    ASSUME SessionType
    PROVE  /\ Len(rows) \in Nat /\ DOMAIN rows = 1..Len(rows) /\ DOMAIN rows \subseteq Launch
           /\ \A l \in DOMAIN rows : rows[l] \in Row /\ l \in Mine(rows[l].agent)
           /\ \A a : Recorded(a) \subseteq 1..Len(rows)
<1>1. rows \in Seq(Row) /\ Len(rows) <= MaxLaunches BY DEF SessionType
<1> HIDE DEF Row
<1>2. Len(rows) \in Nat /\ DOMAIN rows = 1..Len(rows) /\ \A l \in DOMAIN rows : rows[l] \in Row
  BY <1>1
<1>3. DOMAIN rows \subseteq Launch BY <1>1, <1>2, BoundAssumption DEF Launch
<1> QED BY <1>2, <1>3 DEF Mine, Recorded

\* The latest native session is that of the latest launch that recorded one.
LEMMA LatestNativeIs ==
    ASSUME SessionType, NEW a
    PROVE  /\ Recorded(a) = {} => LatestNative(a) = 0
           /\ \A l \in Recorded(a) :
                 (\A k \in Recorded(a) : k <= l) => LatestNative(a) = rows[l].native
           /\ Recorded(a) # {} => \E l \in Recorded(a) : \A k \in Recorded(a) : k <= l
<1>1. Recorded(a) = {l \in DOMAIN rows : rows[l].agent = a /\ rows[l].native # 0}
  BY DEF Recorded, Mine
<1> DEFINE R == Recorded(a)
<1>2. LatestNative(a) = IF R = {} THEN 0 ELSE rows[CHOOSE l \in R : \A k \in R : k <= l].native
  BY <1>1 DEF LatestNative
<1>3. R \in SUBSET (1..Len(rows)) /\ Len(rows) \in Nat BY RowFacts
<1> HIDE DEF R
<1>4. ASSUME NEW l \in R, \A k \in R : k <= l PROVE l = CHOOSE m \in R : \A k \in R : k <= m
  <2> DEFINE c == CHOOSE m \in R : \A k \in R : k <= m
  <2>1. c \in R /\ \A k \in R : k <= c BY <1>4
  <2> HIDE DEF c
  <2>2. l <= c /\ c <= l /\ l \in Nat /\ c \in Nat BY <1>3, <1>4, <2>1
  <2>3. l = c BY <2>2
  <2> QED BY <2>3 DEF c
<1>5. R # {} => \E l \in R : \A k \in R : k <= l BY <1>3, GreatestNumber
<1> QED BY <1>2, <1>4, <1>5 DEF R

\* It stays while what was recorded for the agent stays.
LEMMA LatestNativeStays ==
    ASSUME SessionType, SessionType', NEW a, Recorded(a)' = Recorded(a),
           \A l \in Recorded(a) : rows'[l].native = rows[l].native
    PROVE  LatestNative(a)' = LatestNative(a)
<1>1. /\ Recorded(a) = {l \in DOMAIN rows : rows[l].agent = a /\ rows[l].native # 0}
      /\ Recorded(a)' = {l \in DOMAIN rows' : rows'[l].agent = a /\ rows'[l].native # 0}
  BY DEF Recorded, Mine
<1> DEFINE R == Recorded(a)
           c == CHOOSE l \in R : \A k \in R : k <= l
<1>2. LatestNative(a) = (IF R = {} THEN 0 ELSE rows[c].native) BY <1>1 DEF LatestNative
<1>3. LatestNative(a)' = (IF R = {} THEN 0 ELSE rows'[c].native)
  <2> DEFINE S == {l \in DOMAIN rows' : rows'[l].agent = a /\ rows'[l].native # 0}
  <2>1. LatestNative(a)' = IF S = {} THEN 0 ELSE rows'[CHOOSE l \in S : \A k \in S : k <= l].native
    BY DEF LatestNative
  <2>2. S = R BY <1>1
  <2> HIDE DEF S, R
  <2>3. (CHOOSE l \in S : \A k \in S : k <= l) = CHOOSE l \in R : \A k \in R : k <= l
    BY <2>2
  <2> QED BY <2>1, <2>2, <2>3
<1>4. R # {} => c \in R BY LatestNativeIs
<1> QED BY <1>2, <1>3, <1>4

----------------------------------------------------------------------------
(* What a step leaves alone                                                  *)

\* Everything that belongs to an agent.
Kept(b) ==
    /\ Mine(b)' = Mine(b)
    /\ \A l \in Mine(b) : rows'[l] = rows[l] /\ registry'[l] = registry[l] /\ cli'[l] = cli[l]
    /\ session'[b] = session[b] /\ op'[b] = op[b] /\ plan'[b] = plan[b]
    /\ b \in broken' <=> b \in broken

\* The part of an agent's invariant that does not depend on the runtime's phase.
AtAnyTime(a) == Backed(a) /\ Underway(a) /\ Resumes(a) /\ LiveIsSession(a)

LEMMA KeptNative ==
    ASSUME SessionType, SessionType', NEW b, Kept(b)
    PROVE  LatestNative(b)' = LatestNative(b)
<1>1. Recorded(b)' = Recorded(b) BY DEF Kept, Recorded
<1>2. \A l \in Recorded(b) : rows'[l].native = rows[l].native BY DEF Kept, Recorded
<1> QED BY <1>1, <1>2, LatestNativeStays

LEMMA KeptAtAnyTime ==
    ASSUME SessionType, SessionType', NEW b \in Agent, AtAnyTime(b), Kept(b)
    PROVE  AtAnyTime(b)'
<1> USE DEF AtAnyTime
<1>1. \A l : Latest(b, l)' <=> Latest(b, l) BY DEF Kept, Latest
<1>2. \A l : Latest(b, l) => l \in Mine(b) BY DEF Latest
<1>3. Backed(b)' BY <1>1, <1>2 DEF Backed, Kept
<1>4. Underway(b)' BY <1>1, <1>2 DEF Underway, Kept
<1>5. Resumes(b)' BY KeptNative DEF Resumes, Kept
<1>6. LiveIsSession(b)' BY DEF LiveIsSession, Kept
<1> QED BY <1>3, <1>4, <1>5, <1>6

LEMMA KeptInvariant ==
    ASSUME SessionType, SessionType', NEW b \in Agent, AgentInvariant(b), Kept(b),
           \/ phase' = phase /\ (Later(b)' <=> Later(b))
           \/ phase = "starting" /\ phase' = "unwinding"
    PROVE  AgentInvariant(b)'
<1>1. AtAnyTime(b)' BY KeptAtAnyTime DEF AtAnyTime, AgentInvariant
<1>2. Placed(b)
  BY DEF AgentInvariant
<1>3. Owned(b)' = Owned(b) BY DEF Kept, Owned
<1>4. \A l \in Mine(b) : Open(rows[l])' <=> Open(rows[l]) BY DEF Kept, Open
<1>5. phase # "down" => \A l \in Mine(b) : Open(rows[l]) => l \in Owned(b) BY <1>2 DEF Placed
<1>6. phase' # "down" => \A l \in Mine(b)' : Open(rows[l])' => l \in Owned(b)'
  BY <1>3, <1>4, <1>5 DEF Kept
<1>7. Placed(b)' BY <1>2, <1>6, KeptNative DEF Placed, Kept
<1> QED BY <1>1, <1>7 DEF AtAnyTime, AgentInvariant

\* A row that is written keeps its place, and the others are as they were.
LEMMA Written ==
    ASSUME NEW T, NEW s \in Seq(T), NEW l \in 1..Len(s), NEW r \in T, NEW t, t = [s EXCEPT ![l] = r]
    PROVE  /\ t \in Seq(T) /\ Len(t) = Len(s) /\ t[l] = r
           /\ \A k \in 1..Len(s) : k # l => t[k] = s[k]
OBVIOUS

LEMMA Appended ==
    ASSUME NEW T, NEW s \in Seq(T), NEW r \in T, NEW t, t = Append(s, r)
    PROVE  /\ t \in Seq(T) /\ Len(t) = Len(s) + 1 /\ t[Len(s) + 1] = r
           /\ \A k \in 1..Len(s) : t[k] = s[k]
OBVIOUS

\* The step writes at most the row l, which stays the row of its agent.
OnlyRow(l) ==
    /\ Len(rows') = Len(rows) /\ rows'[l].agent = rows[l].agent
    /\ \A k \in 1..Len(rows) : k # l => rows'[k] = rows[k]

LEMMA SameOwners ==
    ASSUME SessionType, SessionType', NEW l \in DOMAIN rows, OnlyRow(l)
    PROVE  \A b : Mine(b)' = Mine(b)
<1>1. DOMAIN rows' = 1..Len(rows) /\ DOMAIN rows = 1..Len(rows) BY DEF SessionType, OnlyRow
<1>2. \A k \in 1..Len(rows) : rows'[k].agent = rows[k].agent BY DEF OnlyRow
<1> QED BY <1>1, <1>2 DEF Mine

\* A step of the agent a at its launch l leaves the other agents alone.
LEMMA OthersKept ==
    ASSUME SessionType, SessionType', NEW a, NEW l \in Mine(a), OnlyRow(l),
           NEW b, b # a,
           \A k \in Launch : k # l => registry'[k] = registry[k] /\ cli'[k] = cli[k],
           session'[b] = session[b], op'[b] = op[b], plan'[b] = plan[b],
           b \in broken' <=> b \in broken
    PROVE  Kept(b)
<1>1. l \in DOMAIN rows /\ \A k \in Mine(b) : k \in 1..Len(rows) /\ k \in Launch /\ k # l
  BY RowFacts DEF Mine
<1>2. Mine(b)' = Mine(b) BY <1>1, SameOwners
<1> QED BY <1>1, <1>2 DEF Kept, OnlyRow

----------------------------------------------------------------------------
(* The steps of a start                                                      *)

\* What is known of a launch that the manager awaits.
LEMMA Awaiting ==
    ASSUME SessionInvariant, NEW a \in Agent, op[a].pc # "none"
    PROVE  /\ op[a].launch \in Mine(a) /\ op[a].launch \in 1..Len(rows) /\ op[a].launch \in Launch
           /\ Latest(a, op[a].launch) /\ session[a] = 0 /\ rows[op[a].launch].agent = a
           /\ phase \notin {"down", "closed"} /\ (phase = "starting" => ~Later(a))
           /\ \A k \in Mine(a) : cli[k] # "live"
           /\ \A k \in Mine(a) : k # op[a].launch => ~Open(rows[k])
<1>1. AgentInvariant(a) /\ SessionType BY DEF SessionInvariant
<1>2. Latest(a, op[a].launch) /\ session[a] = 0 BY <1>1 DEF AgentInvariant, Underway
<1>3. op[a].launch \in Mine(a) BY <1>2 DEF Latest
<1>4. /\ op[a].launch \in 1..Len(rows) /\ op[a].launch \in Launch /\ rows[op[a].launch].agent = a
      /\ \A k \in Mine(a) : k \in Launch
  BY <1>1, <1>3, RowFacts DEF Mine
<1>5. op[a] # NoOp BY DEF NoOp
<1>6. phase \notin {"down", "closed"} /\ (phase = "starting" => ~Later(a))
  BY <1>1, <1>5 DEF AgentInvariant, Placed
<1>7. \A k \in Mine(a) : cli[k] # "live"
  BY <1>1, <1>2, <1>4, OrderFacts DEF AgentInvariant, LiveIsSession
<1>8. \A k \in Mine(a) : k # op[a].launch => ~Open(rows[k])
  BY <1>1, <1>2, <1>6 DEF AgentInvariant, Placed, Owned
<1> QED BY <1>2, <1>3, <1>4, <1>6, <1>7, <1>8

LEMMA OpensInvariant ==
    ASSUME SessionInvariant, NEW a \in Agent, NEW l, l = op[a].launch, Opens(a)
    PROVE  SessionInvariant'
<1> DEFINE native == IF op[a].resume # 0 THEN op[a].resume ELSE l
           r == [rows[l] EXCEPT !.instance = "ready", !.binding = "ready", !.native = native]
<1>1. SessionType /\ AgentInvariant(a) /\ op[a].pc = "opening" BY DEF SessionInvariant, Opens
<1>2. /\ l \in Mine(a) /\ l \in 1..Len(rows) /\ l \in Launch /\ Latest(a, l) /\ session[a] = 0
      /\ rows[l].agent = a /\ phase \notin {"down", "closed"} /\ (phase = "starting" => ~Later(a))
      /\ \A k \in Mine(a) : cli[k] # "live"
      /\ \A k \in Mine(a) : k # l => ~Open(rows[k])
  BY <1>1, Awaiting
<1>3. /\ rows' = [rows EXCEPT ![l] = r]
      /\ cli' = [cli EXCEPT ![l] = "live"] /\ registry' = [registry EXCEPT ![l] = "ready"]
      /\ session' = [session EXCEPT ![a] = l] /\ op' = [op EXCEPT ![a] = NoOp]
      /\ broken' = broken \ {a} /\ phase' = phase /\ next' = next /\ plan' = plan
  BY DEF Opens
<1>4. native \in Launch /\ native # 0
  <2>1. op[a].resume \in {0} \cup Launch BY <1>1 DEF SessionType, Op
  <2> QED BY <1>2, <2>1, OrderFacts
<1>5. rows[l] \in Row /\ rows \in Seq(Row) BY <1>1, <1>2, RowFacts DEF SessionType
<1> HIDE DEF native
<1>6. /\ r \in Row /\ r.agent = a /\ r.instance = "ready" /\ r.binding = "ready" /\ r.native = native
  BY <1>2, <1>4, <1>5 DEF Row
<1> HIDE DEF r
<1>7. /\ rows' \in Seq(Row) /\ Len(rows') = Len(rows) /\ rows'[l] = r
      /\ \A k \in 1..Len(rows) : k # l => rows'[k] = rows[k]
  BY <1>2, <1>3, <1>5, <1>6, Written
<1>8. SessionType'
  <2>1. NoOp \in Op BY AttemptsAssumption DEF NoOp, Op
  <2>2. op' \in [Agent -> Op] BY <1>1, <1>3, <2>1 DEF SessionType
  <2>3. registry' \in [Launch -> Registration] /\ cli' \in [Launch -> Process]
    BY <1>1, <1>2, <1>3 DEF SessionType, Registration, Process
  <2> QED BY <1>1, <1>2, <1>3, <1>7, <2>2, <2>3 DEF SessionType
<1>9. OnlyRow(l) BY <1>2, <1>6, <1>7 DEF OnlyRow
<1>10. /\ \A k \in Launch : k # l => registry'[k] = registry[k] /\ cli'[k] = cli[k]
       /\ registry'[l] = "ready" /\ cli'[l] = "live"
       /\ \A b \in Agent : b # a => session'[b] = session[b] /\ op'[b] = op[b]
       /\ session'[a] = l /\ op'[a] = NoOp
  BY <1>1, <1>2, <1>3 DEF SessionType
<1>11. Unused' BY <1>2, <1>7, <1>10 DEF SessionInvariant, Unused
<1>12. ASSUME NEW b \in Agent, b # a PROVE AgentInvariant(b)'
  <2>1. plan'[b] = plan[b] /\ (b \in broken' <=> b \in broken) BY <1>3, <1>12
  <2>2. Kept(b) BY <1>1, <1>2, <1>8, <1>9, <1>10, <1>12, <2>1, OthersKept
  <2>3. Later(b)' <=> Later(b) BY <1>3 DEF Later
  <2> QED BY <1>1, <1>3, <1>8, <2>2, <2>3, KeptInvariant DEF SessionInvariant
<1>13. Mine(a)' = Mine(a) BY <1>1, <1>2, <1>8, <1>9, RowFacts, SameOwners
<1>14. AgentInvariant(a)'
  <2>1. Latest(a, l)' BY <1>2, <1>13 DEF Latest
  <2>2. l # 0 BY <1>2, OrderFacts
  <2>3. Backed(a)' BY <1>4, <1>6, <1>7, <1>10, <2>1 DEF Backed
  <2>4. Underway(a)' /\ Resumes(a)' BY <1>10 DEF Underway, Resumes, NoOp
  <2>5. \A k \in Mine(a) : k \in Launch /\ k \in 1..Len(rows) BY <1>1, RowFacts DEF Mine
  <2>6. LiveIsSession(a)' BY <1>2, <1>10, <1>13, <2>5 DEF LiveIsSession
  <2>7. Placed(a)'
    <3>1. Owned(a)' = {l} BY <1>10, <2>2 DEF Owned, NoOp
    <3>2. \A k \in Mine(a) : k # l => ~Open(rows[k])' BY <1>2, <1>7, <2>5 DEF Open
    <3>3. Later(a)' <=> Later(a) BY <1>3 DEF Later
    <3> QED BY <1>2, <1>3, <1>10, <1>13, <2>2, <3>1, <3>2, <3>3 DEF Placed, NoOp
  <2> QED BY <2>3, <2>4, <2>6, <2>7 DEF AgentInvariant
<1> QED BY <1>8, <1>11, <1>12, <1>14 DEF SessionInvariant

\* The start has failed, before or after the adapter opened something.
LEMMA StartFailsInvariant ==
    ASSUME SessionInvariant, NEW a \in Agent, NEW l, l = op[a].launch,
           op[a].pc \in {"opening", "rejecting"}, StartFails(a),
           cli' = cli \/ cli' = [cli EXCEPT ![l] = "gone"]
    PROVE  SessionInvariant'
<1> DEFINE r == FailedRow(l)
<1>1. SessionType /\ AgentInvariant(a) /\ op[a].pc # "none" BY DEF SessionInvariant
<1>2. /\ l \in Mine(a) /\ l \in 1..Len(rows) /\ l \in Launch /\ session[a] = 0
      /\ rows[l].agent = a /\ phase \notin {"down", "closed"} /\ (phase = "starting" => ~Later(a))
      /\ \A k \in Mine(a) : cli[k] # "live"
      /\ \A k \in Mine(a) : k # l => ~Open(rows[k])
  BY <1>1, Awaiting
<1>3. /\ rows' = [rows EXCEPT ![l] = r] /\ registry' = [registry EXCEPT ![l] = "closed"]
      /\ op' = [op EXCEPT ![a] = NoOp] /\ broken' = broken \cup {a}
      /\ session' = session /\ next' = next /\ plan' = plan
      /\ (phase' = phase /\ phase # "starting") \/ (phase = "starting" /\ phase' = "unwinding")
  BY DEF StartFails
<1>4. rows[l] \in Row /\ rows \in Seq(Row) BY <1>1, <1>2, RowFacts DEF SessionType
<1>5. r \in Row /\ r.agent = a /\ r.instance = "failed" /\ r.binding = "failed" /\ r.native = rows[l].native
  BY <1>2, <1>4 DEF Row, FailedRow
<1> HIDE DEF r
<1>6. /\ rows' \in Seq(Row) /\ Len(rows') = Len(rows) /\ rows'[l] = r
      /\ \A k \in 1..Len(rows) : k # l => rows'[k] = rows[k]
  BY <1>2, <1>3, <1>4, <1>5, Written
<1>7. SessionType'
  <2>1. NoOp \in Op BY AttemptsAssumption DEF NoOp, Op
  <2>2. op' \in [Agent -> Op] BY <1>1, <1>3, <2>1 DEF SessionType
  <2>3. registry' \in [Launch -> Registration] /\ cli' \in [Launch -> Process]
    BY <1>1, <1>2, <1>3 DEF SessionType, Registration, Process
  <2>4. phase' \in Phase BY <1>1, <1>3 DEF SessionType, Phase
  <2> QED BY <1>1, <1>2, <1>3, <1>6, <2>2, <2>3, <2>4 DEF SessionType
<1>8. OnlyRow(l) BY <1>2, <1>5, <1>6 DEF OnlyRow
<1>9. /\ \A k \in Launch : k # l => registry'[k] = registry[k] /\ cli'[k] = cli[k]
      /\ cli'[l] \in {cli[l], "gone"}
      /\ \A b \in Agent : b # a => op'[b] = op[b]
      /\ op'[a] = NoOp
  BY <1>1, <1>2, <1>3 DEF SessionType
<1>10. Unused' BY <1>2, <1>6, <1>9 DEF SessionInvariant, Unused
<1>11. Later(a)' <=> Later(a) BY <1>3 DEF Later
<1>12. ASSUME NEW b \in Agent, b # a PROVE AgentInvariant(b)'
  <2>1. session'[b] = session[b] /\ plan'[b] = plan[b] /\ (b \in broken' <=> b \in broken)
    BY <1>3, <1>12
  <2>2. Kept(b) BY <1>1, <1>2, <1>7, <1>8, <1>9, <1>12, <2>1, OthersKept
  <2>3. Later(b)' <=> Later(b) BY <1>3 DEF Later
  <2> QED BY <1>1, <1>3, <1>7, <2>2, <2>3, KeptInvariant DEF SessionInvariant
<1>13. Mine(a)' = Mine(a) BY <1>1, <1>2, <1>7, <1>8, RowFacts, SameOwners
<1>14. AgentInvariant(a)'
  <2>1. \A k \in Mine(a) : k \in Launch /\ k \in 1..Len(rows) BY <1>1, RowFacts DEF Mine
  <2>2. Backed(a)' BY <1>2, <1>3 DEF Backed
  <2>3. Underway(a)' /\ Resumes(a)' BY <1>9 DEF Underway, Resumes, NoOp
  <2>4. LiveIsSession(a)' BY <1>2, <1>9, <1>13, <2>1 DEF LiveIsSession
  <2>5. Placed(a)'
    <3>1. \A k \in Mine(a)' : ~Open(rows[k])' BY <1>2, <1>5, <1>6, <1>13, <2>1 DEF Open
    <3> QED BY <1>2, <1>3, <1>9, <1>11, <3>1 DEF Placed, NoOp
  <2> QED BY <2>2, <2>3, <2>4, <2>5 DEF AgentInvariant
<1> QED BY <1>7, <1>10, <1>12, <1>14 DEF SessionInvariant

\* Only what is awaited for the agent changes, and it is opening before and after.
LEMMA AwaitsOn ==
    ASSUME SessionInvariant, NEW a \in Agent, NEW o \in Op, op[a].pc = "opening",
           op' = [op EXCEPT ![a] = o], o.launch = op[a].launch, o.by = op[a].by,
           o.pc \in {"opening", "rejecting"},
           \/ cli' = cli /\ o.pc = "opening"
           \/ cli' = [cli EXCEPT ![op[a].launch] = "closing"] /\ o.pc = "rejecting",
           o.pc = "opening" => a \in broken' \/ o.resume = op[a].resume,
           broken' \in {broken, broken \cup {a}},
           UNCHANGED <<rows, registry, session, phase, next, plan>>
    PROVE  SessionInvariant'
<1>1. SessionType /\ AgentInvariant(a) /\ op[a].pc # "none" BY DEF SessionInvariant
<1>l. PICK l : l = op[a].launch OBVIOUS
<1>2. /\ l \in Mine(a) /\ l \in 1..Len(rows) /\ l \in Launch /\ session[a] = 0
      /\ Latest(a, l) /\ phase \notin {"down", "closed"} /\ (phase = "starting" => ~Later(a))
      /\ \A k \in Mine(a) : cli[k] # "live"
      /\ \A k \in Mine(a) : k # l => ~Open(rows[k])
  BY <1>1, <1>l, Awaiting
<1>3. /\ op' \in [Agent -> Op] /\ op'[a] = o /\ \A b \in Agent : b # a => op'[b] = op[b]
  BY <1>1 DEF SessionType
<1>4. /\ cli' \in [Launch -> Process] /\ \A k \in Launch : k # l => cli'[k] = cli[k]
      /\ (cli'[l] = cli[l] /\ o.pc = "opening") \/ (cli'[l] = "closing" /\ o.pc = "rejecting")
  <2>1. cli \in [Launch -> Process] BY <1>1 DEF SessionType
  <2>2. CASE cli' = cli /\ o.pc = "opening" BY <2>1, <2>2
  <2>3. CASE cli' = [cli EXCEPT ![l] = "closing"] /\ o.pc = "rejecting"
    BY <1>2, <1>l, <2>1, <2>3 DEF Process
  <2> QED BY <1>l, <2>2, <2>3
<1>5. SessionType' BY <1>1, <1>3, <1>4 DEF SessionType
<1>6. Unused' BY <1>2, <1>4 DEF SessionInvariant, Unused
<1>7. \A b : Mine(b)' = Mine(b) /\ (Later(b)' <=> Later(b)) BY DEF Mine, Later
<1>8. ASSUME NEW b \in Agent, b # a PROVE AgentInvariant(b)'
  <2>1. OnlyRow(l) BY DEF OnlyRow
  <2>2. Kept(b) BY <1>1, <1>2, <1>3, <1>4, <1>5, <1>8, <2>1, OthersKept
  <2> QED BY <1>1, <1>5, <1>7, <2>2, KeptInvariant DEF SessionInvariant
<1>9. AgentInvariant(a)'
  <2>1. \A k \in Mine(a) : k \in Launch BY <1>1, RowFacts DEF Mine
  <2>2. Backed(a)' BY <1>2 DEF Backed
  <2>3. Latest(a, l)' BY <1>2, <1>7 DEF Latest
  <2>4. rows[l].native = 0 /\ registry[l] = "reserved" /\ cli[l] = "none"
    BY <1>1, <1>l DEF AgentInvariant, Underway
  <2>5. Underway(a)' BY <1>l, <1>2, <1>3, <1>4, <2>3, <2>4 DEF Underway
  <2>6. LatestNative(a)' = LatestNative(a)
    <3>1. Recorded(a)' = Recorded(a) BY <1>7 DEF Recorded
    <3> QED BY <1>1, <1>5, <3>1, LatestNativeStays
  <2>7. Resumes(a)' BY <1>1, <1>3, <2>6 DEF AgentInvariant, Resumes
  <2>8. LiveIsSession(a)' BY <1>2, <1>4, <1>7, <2>1, <2>4 DEF LiveIsSession
  <2>9. Placed(a)'
    <3>1. Owned(a)' = Owned(a) BY <1>3 DEF Owned
    <3>2. \A k : Open(rows[k])' <=> Open(rows[k]) BY DEF Open
    <3>3. Placed(a) BY <1>1 DEF AgentInvariant
    <3> QED BY <1>2, <1>3, <1>7, <3>1, <3>2, <3>3 DEF Placed
  <2> QED BY <2>2, <2>5, <2>7, <2>8, <2>9 DEF AgentInvariant
<1> QED BY <1>5, <1>6, <1>8, <1>9 DEF SessionInvariant

LEMMA OpenFailsInvariant ==
    ASSUME SessionInvariant, NEW a \in Agent, NEW retryable, NEW fresh, OpenFails(a, retryable, fresh)
    PROVE  SessionInvariant'
<1>1. op[a].pc = "opening" /\ op[a] \in Op /\ op \in [Agent -> Op] /\ cli' = cli
  BY DEF OpenFails, SessionInvariant, SessionType
<1>2. CASE /\ op[a].attempt < StartAttempts /\ op' = [op EXCEPT ![a].attempt = @ + 1]
           /\ UNCHANGED <<rowVars, turnVars, session, phase, next, plan, broken>>
  <2> DEFINE o == [op[a] EXCEPT !.attempt = @ + 1]
  <2>1. op' = [op EXCEPT ![a] = o] BY <1>1, <1>2
  <2>2. o.launch = op[a].launch /\ o.by = op[a].by /\ o.pc = "opening" /\ o.resume = op[a].resume
    BY <1>1 DEF Op
  <2>3. o \in Op BY <1>1, <1>2, AttemptsAssumption DEF Op
  <2> HIDE DEF o
  <2> QED BY <1>1, <1>2, <2>1, <2>2, <2>3, AwaitsOn DEF rowVars
<1>3. CASE /\ op' = [op EXCEPT ![a].attempt = 1, ![a].resume = 0] /\ broken' = broken \cup {a}
           /\ UNCHANGED <<rowVars, turnVars, session, phase, next, plan>>
  <2> DEFINE o == [op[a] EXCEPT !.attempt = 1, !.resume = 0]
  <2>1. op' = [op EXCEPT ![a] = o] BY <1>1, <1>3
  <2>2. o.launch = op[a].launch /\ o.by = op[a].by /\ o.pc = "opening"
    BY <1>1 DEF Op
  <2>a. 1 \in 0..StartAttempts BY AttemptsAssumption
  <2>3. o \in Op BY <1>1, <2>a DEF Op
  <2> HIDE DEF o
  <2> QED BY <1>1, <1>3, <2>1, <2>2, <2>3, AwaitsOn DEF rowVars
<1>4. CASE StartFails(a) BY <1>1, <1>4, StartFailsInvariant
<1> QED BY <1>2, <1>3, <1>4 DEF OpenFails

LEMMA OpensAnotherInvariant ==
    ASSUME SessionInvariant, NEW a \in Agent, OpensAnother(a)
    PROVE  SessionInvariant'
<1> DEFINE o == [op[a] EXCEPT !.pc = "rejecting"]
<1>1. op[a].pc = "opening" /\ op[a] \in Op /\ op \in [Agent -> Op]
  BY DEF OpensAnother, SessionInvariant, SessionType
<1>2. op' = [op EXCEPT ![a] = o] BY <1>1 DEF OpensAnother
<1>3. o \in Op /\ o.launch = op[a].launch /\ o.by = op[a].by /\ o.pc = "rejecting" BY <1>1 DEF Op
<1>4. /\ cli' = [cli EXCEPT ![op[a].launch] = "closing"] /\ broken' = broken
      /\ UNCHANGED <<rows, registry, session, phase, next, plan>>
  BY DEF OpensAnother, rowVars
<1> HIDE DEF o
<1> QED BY <1>1, <1>2, <1>3, <1>4, AwaitsOn

LEMMA RejectSettlesInvariant ==
    ASSUME SessionInvariant, NEW a \in Agent, NEW closed, RejectSettles(a, closed)
    PROVE  SessionInvariant'
<1>1. PICK l : l = op[a].launch OBVIOUS
<1> QED BY <1>1, StartFailsInvariant DEF RejectSettles

----------------------------------------------------------------------------
(* A new launch, and the stop of a session                                   *)

\* The step gives a a new launch; the others keep theirs.
NewLaunch(a, n) ==
    /\ n = Len(rows) + 1 /\ n \in Launch /\ Len(rows') = n
    /\ \A k \in 1..Len(rows) : rows'[k].agent = rows[k].agent
    /\ rows'[n] = [agent |-> a, instance |-> "starting", binding |-> "starting", native |-> 0]

LEMMA NewOwners ==
    ASSUME SessionType, SessionType', NEW a, NEW n, NewLaunch(a, n)
    PROVE  /\ \A b : b # a => Mine(b)' = Mine(b)
           /\ Mine(a)' = Mine(a) \cup {n} /\ n \notin Mine(a)
           /\ Latest(a, n)'
           /\ rows'[n].native = 0 /\ rows'[n].agent = a
<1>1. /\ DOMAIN rows' = 1..n /\ DOMAIN rows = 1..Len(rows) /\ Len(rows) \in Nat
      /\ 1..n = 1..Len(rows) \cup {n} /\ n \notin 1..Len(rows)
  BY DEF SessionType, NewLaunch
<1>2. rows'[n].native = 0 /\ rows'[n].agent = a BY DEF NewLaunch
<1>3. \A k \in 1..Len(rows) : rows'[k].agent = rows[k].agent BY DEF NewLaunch
<1>4. \A b : Mine(b)' = Mine(b) \cup {k \in {n} : rows'[k].agent = b} BY <1>1, <1>3 DEF Mine
<1>5. Mine(a)' = Mine(a) \cup {n} /\ n \notin Mine(a) /\ Mine(a)' \subseteq 1..n
  BY <1>1, <1>2, <1>4 DEF Mine
<1>6. Latest(a, n)' BY <1>1, <1>5 DEF Latest
<1> QED BY <1>2, <1>4, <1>5, <1>6

LEMMA StartAgentInvariant ==
    ASSUME SessionInvariant, NEW a \in Agent, NEW native \in {0} \cup Launch,
           NEW by \in {"startAll", "restart"}, StartAgent(a, native, by),
           op[a].pc = "none", session[a] = 0, phase \notin {"down", "closed"},
           UNCHANGED <<cli, session, phase, plan, broken>>, next' \in 0..Len(AgentOrder),
           \A b \in Agent : b # a => (Later(b)' <=> Later(b)), phase = "starting" => ~Later(a)',
           a \in broken \/ LatestNative(a) \in {0, native}
    PROVE  SessionInvariant'
<1>1. SessionType /\ AgentInvariant(a) BY DEF SessionInvariant
<1> DEFINE r == [agent |-> a, instance |-> "starting", binding |-> "starting", native |-> 0]
           o == [pc |-> "opening", launch |-> Len(rows) + 1, resume |-> native, attempt |-> 1, by |-> by]
<1>n. PICK n : n = Len(rows) + 1 OBVIOUS
<1>2. /\ n \in Launch /\ rows' = Append(rows, r) /\ registry' = [registry EXCEPT ![n] = "reserved"]
      /\ op' = [op EXCEPT ![a] = o]
  BY <1>n DEF StartAgent
<1>3. o.pc = "opening" /\ o.launch = n /\ o.by # "stop" /\ o.resume = native /\ o \in Op
  <2>1. 1 \in 0..StartAttempts BY AttemptsAssumption
  <2> QED BY <1>n, <1>2, <2>1 DEF Op
<1>4. r \in Row /\ rows \in Seq(Row) BY <1>1 DEF Row, SessionType
<1> HIDE DEF o
<1>5. rows' \in Seq(Row) /\ Len(rows') = n /\ rows'[n] = r /\ \A k \in 1..Len(rows) : rows'[k] = rows[k]
  BY <1>n, <1>2, <1>4, Appended
<1>6. SessionType'
  <2>1. Len(rows') <= MaxLaunches BY <1>2, <1>5, OrderFacts
  <2>2. op' \in [Agent -> Op] /\ registry' \in [Launch -> Registration]
    BY <1>1, <1>2, <1>3 DEF SessionType, Registration
  <2> QED BY <1>1, <1>5, <2>1, <2>2 DEF SessionType
<1>7. NewLaunch(a, n) BY <1>n, <1>2, <1>5 DEF NewLaunch
<1>8. /\ \A k \in Launch : k # n => registry'[k] = registry[k]
      /\ registry'[n] = "reserved"
      /\ \A b \in Agent : b # a => op'[b] = op[b]
      /\ op'[a] = o
  BY <1>1, <1>2 DEF SessionType
<1>9. Len(rows) \in Nat /\ cli[n] = "none" BY <1>1, <1>n, <1>2, RowFacts DEF SessionInvariant, Unused
<1>10. Unused'
  <2>1. \A k \in Launch : k > n => k > Len(rows) /\ k # n BY <1>n, <1>9, OrderFacts
  <2> QED BY <1>5, <1>8, <2>1 DEF SessionInvariant, Unused
<1>11. \A b : \A k \in Mine(b) : k \in Launch /\ k \in 1..Len(rows) /\ k # n
  BY <1>1, <1>n, RowFacts DEF Mine
<1>12. ASSUME NEW b \in Agent, b # a PROVE AgentInvariant(b)'
  <2>1. Mine(b)' = Mine(b) BY <1>1, <1>6, <1>7, <1>12, NewOwners
  <2>2. Kept(b) BY <1>5, <1>8, <1>11, <1>12, <2>1 DEF Kept
  <2> QED BY <1>1, <1>6, <1>12, <2>2, KeptInvariant DEF SessionInvariant
<1>13. Mine(a)' = Mine(a) \cup {n} /\ Latest(a, n)' /\ rows'[n].native = 0
  BY <1>1, <1>6, <1>7, NewOwners
<1>14. Recorded(a)' = Recorded(a) BY <1>5, <1>11, <1>13 DEF Recorded
<1>15. LatestNative(a)' = LatestNative(a)
  <2>1. \A k \in Recorded(a) : rows'[k].native = rows[k].native BY <1>5, <1>11 DEF Recorded
  <2> QED BY <1>1, <1>6, <1>14, <2>1, LatestNativeStays
<1>16. AgentInvariant(a)'
  <2>1. Backed(a)' BY DEF Backed
  <2>2. Underway(a)' BY <1>3, <1>8, <1>9, <1>13 DEF Underway
  <2>3. Resumes(a)' BY <1>3, <1>8, <1>15 DEF Resumes
  <2>4. LiveIsSession(a)' BY <1>1, <1>9, <1>13 DEF AgentInvariant, LiveIsSession
  <2>5. Placed(a)'
    <3>1. op[a] = NoOp /\ Owned(a) = {} BY <1>1 DEF AgentInvariant, Underway, Owned, NoOp
    <3>2. \A k \in Mine(a) : ~Open(rows[k]) BY <1>1, <3>1 DEF AgentInvariant, Placed
    <3>3. \A k \in Mine(a) : ~Open(rows[k])' BY <1>5, <1>11, <3>2 DEF Open
    <3>4. n \in Owned(a)' BY <1>2, <1>3, <1>8, OrderFacts DEF Owned
    <3> QED BY <1>3, <1>8, <1>13, <3>3, <3>4 DEF Placed
  <2> QED BY <2>1, <2>2, <2>3, <2>4, <2>5 DEF AgentInvariant
<1> QED BY <1>6, <1>10, <1>12, <1>16 DEF SessionInvariant

LEMMA StopManagedInvariant ==
    ASSUME SessionInvariant, NEW agents \in SUBSET Agent, \A a \in agents : session[a] # 0,
           NEW resume, \A a \in agents : resume[a] \in {0} \cup Launch,
           NEW by \in {"restart", "stop"}, StopManaged(agents, resume, by),
           by = "stop" => phase \in {"unwinding", "closing"},
           by = "restart" => \A a \in agents : resume[a] = rows[session[a]].native,
           UNCHANGED <<rows, registry, phase, next, plan, broken>>
    PROVE  SessionInvariant'
<1>1. SessionType /\ \A a \in Agent : AgentInvariant(a) BY DEF SessionInvariant
<1>2. /\ session' = [a \in Agent |-> IF a \in agents THEN 0 ELSE session[a]]
      /\ \A l \in Launch : cli'[l] = IF l \in {session[a] : a \in agents} /\ cli[l] = "live" THEN "closing" ELSE cli[l]
      /\ cli' \in [Launch -> Process]
      /\ \A a \in agents : op'[a] = [pc |-> "stopping", launch |-> session[a],
                                    resume |-> resume[a], attempt |-> 0, by |-> by]
      /\ \A a \in Agent : a \notin agents => op'[a] = op[a]
  BY <1>1 DEF StopManaged, SessionType, Process
<1>3. \A a \in agents : /\ op'[a].pc = "stopping" /\ op'[a].launch = session[a]
                        /\ op'[a].resume = resume[a] /\ op'[a].by = by
                        /\ op'[a] \in Op
  <2>1. 0 \in 0..StartAttempts BY AttemptsAssumption
  <2> TAKE a \in agents
  <2>2. session[a] \in {0} \cup Launch /\ resume[a] \in {0} \cup Launch BY <1>1 DEF SessionType
  <2>3. op'[a] = [pc |-> "stopping", launch |-> session[a], resume |-> resume[a], attempt |-> 0, by |-> by]
    BY <1>2
  <2>4. op'[a] \in Op BY <2>1, <2>2, <2>3 DEF Op
  <2> QED BY <2>3, <2>4
<1>4. SessionType'
  <2>1. op' \in [Agent -> Op]
    <3>1. \A a \in Agent : op'[a] \in Op BY <1>1, <1>2, <1>3 DEF SessionType
    <3>2. op' = [a \in Agent |-> op'[a]] BY DEF StopManaged
    <3> QED BY <3>1, <3>2
  <2>2. session' \in [Agent -> {0} \cup Launch] BY <1>1, <1>2 DEF SessionType
  <2> QED BY <1>1, <1>2, <2>1, <2>2 DEF SessionType
<1>5. \A b : /\ Mine(b)' = Mine(b) /\ (Later(b)' <=> Later(b))
             /\ \A k \in Mine(b) : k \in Launch /\ k \in 1..Len(rows)
  BY <1>1, RowFacts DEF Mine, Later
<1>6. \A a \in agents : /\ Latest(a, session[a]) /\ session[a] \in Mine(a)
                        /\ rows[session[a]].native # 0 /\ cli[session[a]] \in {"live", "failed"}
  BY <1>1 DEF AgentInvariant, Backed, Latest
<1>7. Unused'
  <2>1. \A k \in Launch : k > Len(rows) => cli'[k] = cli[k] BY <1>2 DEF SessionInvariant, Unused
  <2> QED BY <2>1 DEF SessionInvariant, Unused
<1>8. ASSUME NEW b \in Agent, b \notin agents PROVE AgentInvariant(b)'
  <2>1. \A k \in Mine(b) : k \notin {session[a] : a \in agents} BY <1>6, <1>8 DEF Mine
  <2>2. \A k \in Mine(b) : cli'[k] = cli[k] BY <1>2, <1>5, <2>1
  <2>3. session'[b] = session[b] /\ op'[b] = op[b] BY <1>2, <1>8
  <2>4. Kept(b) BY <1>5, <2>2, <2>3 DEF Kept
  <2> QED BY <1>1, <1>4, <1>5, <2>4, KeptInvariant
<1>9. ASSUME NEW a \in agents PROVE AgentInvariant(a)'
  <2>1. AgentInvariant(a) /\ a \in Agent /\ session[a] # 0 BY <1>1
  <2>2. PICK l : l = session[a] OBVIOUS
  <2>3. session'[a] = 0 BY <1>2, <2>1
  <2>4. l \in Mine(a) /\ l \in Launch /\ Latest(a, l) /\ l # 0 BY <1>5, <1>6, <2>1, <2>2
  <2>5. op[a].pc = "none" /\ op[a] = NoOp BY <2>1 DEF AgentInvariant, Underway
  <2>6. cli'[l] \in {"closing", "failed"} BY <1>2, <1>6, <2>2, <2>4
  <2>7. Backed(a)' BY <2>3 DEF Backed
  <2>8. Underway(a)'
    <3>1. Latest(a, l)' BY <1>5, <2>4 DEF Latest
    <3> QED BY <1>3, <2>2, <2>3, <2>6, <3>1 DEF Underway
  <2>9. LatestNative(a)' = LatestNative(a)
    <3>1. Recorded(a)' = Recorded(a) BY <1>5 DEF Recorded
    <3> QED BY <1>1, <1>4, <3>1, LatestNativeStays
  <2>10. LatestNative(a) = rows[l].native
    <3>1. l \in Recorded(a) /\ \A k \in Recorded(a) : k <= l
      BY <1>6, <2>2, <2>4 DEF Recorded, Latest
    <3> QED BY <1>1, <3>1, LatestNativeIs
  <2>11. Resumes(a)' BY <1>3, <2>2, <2>9, <2>10 DEF Resumes
  <2>12. \A k \in Mine(a) : cli'[k] # "live"
    <3> TAKE k \in Mine(a)
    <3>1. CASE k = l BY <2>6, <3>1
    <3>2. CASE k # l
      <4>1. cli[k] # "live" BY <2>1, <2>2, <3>2 DEF AgentInvariant, LiveIsSession
      <4> QED BY <1>2, <1>5, <4>1
    <3> QED BY <3>1, <3>2
  <2>13. LiveIsSession(a)' BY <1>5, <2>12 DEF LiveIsSession
  <2>14. Placed(a)'
    <3>1. Owned(a) = {l} /\ Owned(a)' = {l} BY <1>3, <2>2, <2>3, <2>4, <2>5 DEF Owned, NoOp
    <3>2. \A k : Open(rows[k])' <=> Open(rows[k]) BY DEF Open
    <3>3. Placed(a) BY <2>1 DEF AgentInvariant
    <3> QED BY <1>3, <1>5, <2>1, <3>1, <3>2, <3>3 DEF Placed
  <2> QED BY <2>7, <2>8, <2>11, <2>13, <2>14 DEF AgentInvariant
<1> QED BY <1>4, <1>7, <1>8, <1>9 DEF SessionInvariant

\* The close has come back, one way or another; a restart starts the agent again.
LEMMA StopSettlesInvariant ==
    ASSUME SessionInvariant, NEW a \in Agent, NEW l, l = op[a].launch,
           NEW how \in CloseOutcome, StopSettles(a, how)
    PROVE  SessionInvariant'
<1>1. SessionType /\ AgentInvariant(a) /\ op[a].pc = "stopping" BY DEF SessionInvariant, StopSettles
<1>2. /\ l \in Mine(a) /\ l \in 1..Len(rows) /\ l \in Launch /\ session[a] = 0
      /\ rows[l].agent = a /\ phase \notin {"down", "closed"} /\ (phase = "starting" => ~Later(a))
      /\ Latest(a, l)
      /\ \A k \in Mine(a) : cli[k] # "live"
      /\ \A k \in Mine(a) : k # l => ~Open(rows[k])
  BY <1>1, Awaiting
<1> DEFINE r == StoppedRow(rows[l], how)
           s == [rows EXCEPT ![l] = r]
           new == [agent |-> a, instance |-> "starting", binding |-> "starting", native |-> 0]
           again == op[a].by = "restart" /\ how \in {"clean", "detached"}
<1>3. /\ session' = session /\ phase' = phase /\ next' = next /\ plan' = plan
      /\ cli' = [cli EXCEPT ![l] = CliAfterClose(l, how)]
      /\ broken' = IF how \in {"clean", "detached"} THEN broken ELSE broken \cup {a}
  BY DEF StopSettles
<1>4. rows \in Seq(Row) /\ rows[l] \in Row BY <1>1, <1>2, RowFacts DEF SessionType
<1>5. /\ r \in Row /\ r.agent = a /\ r.native = rows[l].native
      /\ r.instance \notin {"starting", "ready"} /\ r.binding \notin {"starting", "ready"}
  BY <1>2, <1>4 DEF Row, StoppedRow
<1> HIDE DEF r
<1>6. /\ s \in Seq(Row) /\ Len(s) = Len(rows) /\ s[l] = r
      /\ \A k \in 1..Len(rows) : k # l => s[k] = rows[k]
  BY <1>2, <1>4, <1>5, Written
<1>7. /\ cli' \in [Launch -> Process] /\ cli'[l] # "live"
      /\ \A k \in Launch : k # l => cli'[k] = cli[k]
  <2>1. CliAfterClose(l, how) \in Process \ {"live"}
    BY <1>1, <1>2 DEF SessionType, Process, CliAfterClose, CloseOutcome
  <2> QED BY <1>1, <1>2, <1>3, <2>1 DEF SessionType
<1>8. Later(a)' <=> Later(a) BY <1>3 DEF Later
<1>9. \A b : \A k \in Mine(b) : k \in Launch /\ k \in 1..Len(rows) BY <1>1, RowFacts DEF Mine
<1>10. CASE ~again
  <2>1. /\ rows' = s /\ registry' = [registry EXCEPT ![l] = "closed"] /\ op' = [op EXCEPT ![a] = NoOp]
    BY <1>10 DEF StopSettles, r
  <2> HIDE DEF s
  <2>2. /\ rows' \in Seq(Row) /\ Len(rows') = Len(rows) /\ rows'[l] = r
        /\ \A k \in 1..Len(rows) : k # l => rows'[k] = rows[k]
    BY <1>6, <2>1
  <2>3. SessionType'
    <3>1. NoOp \in Op BY AttemptsAssumption DEF NoOp, Op
    <3>2. op' \in [Agent -> Op] BY <1>1, <2>1, <3>1 DEF SessionType
    <3>3. registry' \in [Launch -> Registration] BY <1>1, <2>1 DEF SessionType, Registration
    <3> QED BY <1>1, <1>3, <1>7, <2>2, <3>2, <3>3 DEF SessionType
  <2>4. OnlyRow(l) BY <1>2, <1>5, <2>2 DEF OnlyRow
  <2>5. /\ \A k \in Launch : k # l => registry'[k] = registry[k]
        /\ \A b \in Agent : b # a => op'[b] = op[b]
        /\ op'[a] = NoOp
    BY <1>1, <2>1 DEF SessionType
  <2>6. Unused' BY <1>2, <1>7, <2>2, <2>5 DEF SessionInvariant, Unused
  <2>7. ASSUME NEW b \in Agent, b # a PROVE AgentInvariant(b)'
    <3>1. session'[b] = session[b] /\ plan'[b] = plan[b] /\ (b \in broken' <=> b \in broken)
      BY <1>3, <2>7
    <3>2. Kept(b) BY <1>1, <1>2, <1>7, <2>3, <2>4, <2>5, <2>7, <3>1, OthersKept
    <3>3. Later(b)' <=> Later(b) BY <1>3 DEF Later
    <3> QED BY <1>1, <1>3, <2>3, <3>2, <3>3, KeptInvariant DEF SessionInvariant
  <2>8. Mine(a)' = Mine(a) BY <1>1, <1>2, <2>3, <2>4, RowFacts, SameOwners
  <2>9. AgentInvariant(a)'
    <3>1. Backed(a)' BY <1>2, <1>3 DEF Backed
    <3>2. Underway(a)' /\ Resumes(a)' BY <2>5 DEF Underway, Resumes, NoOp
    <3>3. LiveIsSession(a)' BY <1>2, <1>7, <1>9, <2>8 DEF LiveIsSession
    <3>4. Placed(a)'
      <4>1. \A k \in Mine(a)' : ~Open(rows[k])' BY <1>2, <1>5, <1>9, <2>2, <2>8 DEF Open
      <4>2. a \in broken' \/ phase \in {"unwinding", "closing"}
        <5>1. CASE how \notin {"clean", "detached"} BY <1>3, <5>1
        <5>2. CASE op[a].by # "restart"
          BY <1>1, <5>2 DEF AgentInvariant, Underway, Placed
        <5> QED BY <1>10, <5>1, <5>2
      <4> QED BY <1>2, <1>3, <1>8, <2>5, <4>1, <4>2 DEF Placed, NoOp
    <3> QED BY <3>1, <3>2, <3>3, <3>4 DEF AgentInvariant
  <2> QED BY <2>3, <2>6, <2>7, <2>9 DEF SessionInvariant
<1>11. CASE again
  <2> DEFINE o == [op[a] EXCEPT !.pc = "opening", !.launch = Len(rows) + 1, !.attempt = 1]
  <2>n. PICK n : n = Len(rows) + 1 OBVIOUS
  <2>1. /\ n \in Launch /\ rows' = Append(s, new) /\ op' = [op EXCEPT ![a] = o]
        /\ registry' = [registry EXCEPT ![l] = "closed", ![n] = "reserved"]
        /\ broken' = broken
    BY <1>3, <1>11, <2>n DEF StopSettles, r
  <2>2. o.pc = "opening" /\ o.launch = n /\ o.by = "restart" /\ o.resume = op[a].resume /\ o \in Op
    <3>1. op[a] \in Op /\ 1 \in 0..StartAttempts BY <1>1, AttemptsAssumption DEF SessionType
    <3> QED BY <1>11, <2>n, <2>1, <3>1 DEF Op
  <2>3. new \in Row BY DEF Row
  <2> HIDE DEF o, s
  <2>4. /\ rows' \in Seq(Row) /\ Len(rows') = n /\ rows'[n] = new /\ rows'[l] = r
        /\ \A k \in 1..Len(rows) : k # l => rows'[k] = rows[k]
    <3> HIDE DEF new
    <3>1. s \in Seq(Row) BY <1>6
    <3>2. /\ rows' \in Seq(Row) /\ Len(rows') = Len(s) + 1 /\ rows'[Len(s) + 1] = new
          /\ \A k \in 1..Len(s) : rows'[k] = s[k]
      BY <2>1, <2>3, <3>1, Appended
    <3> QED BY <1>2, <1>6, <2>n, <3>2
  <2>5. Len(rows) \in Nat /\ n # l /\ cli[n] = "none"
    BY <1>1, <1>2, <2>n, <2>1, RowFacts DEF SessionInvariant, Unused
  <2>6. SessionType'
    <3>1. Len(rows') <= MaxLaunches BY <2>1, <2>4, OrderFacts
    <3>2. op' \in [Agent -> Op] /\ registry' \in [Launch -> Registration]
      BY <1>1, <2>1, <2>2 DEF SessionType, Registration
    <3> QED BY <1>1, <1>3, <1>7, <2>1, <2>4, <3>1, <3>2 DEF SessionType
  <2>7. NewLaunch(a, n)
    <3>1. \A k \in 1..Len(rows) : rows'[k].agent = rows[k].agent BY <1>2, <1>5, <2>4
    <3> QED BY <2>n, <2>1, <2>4, <3>1 DEF NewLaunch
  <2>8. /\ \A k \in Launch : k \notin {l, n} => registry'[k] = registry[k]
        /\ registry'[n] = "reserved"
        /\ \A b \in Agent : b # a => op'[b] = op[b]
        /\ op'[a] = o
    BY <1>1, <1>2, <2>1, <2>5 DEF SessionType
  <2>9. cli'[n] = "none" BY <1>7, <2>1, <2>5
  <2>10. Unused'
    <3>1. \A k \in Launch : k > n => k > Len(rows) /\ k \notin {l, n}
      BY <1>2, <2>n, <2>5, OrderFacts
    <3> QED BY <1>7, <2>4, <2>8, <3>1 DEF SessionInvariant, Unused
  <2>11. ASSUME NEW b \in Agent, b # a PROVE AgentInvariant(b)'
    <3>1. Mine(b)' = Mine(b) BY <1>1, <2>6, <2>7, <2>11, NewOwners
    <3>2. \A k \in Mine(b) : k \notin {l, n} BY <1>2, <1>9, <2>n, <2>5, <2>11 DEF Mine
    <3>3. Kept(b) BY <1>3, <1>7, <1>9, <2>1, <2>4, <2>8, <2>11, <3>1, <3>2 DEF Kept
    <3>4. Later(b)' <=> Later(b) BY <1>3 DEF Later
    <3> QED BY <1>1, <1>3, <2>6, <3>3, <3>4, KeptInvariant DEF SessionInvariant
  <2>12. Mine(a)' = Mine(a) \cup {n} /\ Latest(a, n)' /\ rows'[n].native = 0
    BY <1>1, <2>6, <2>7, NewOwners
  <2>13. LatestNative(a)' = LatestNative(a)
    <3>1. \A k \in Mine(a) : rows'[k].native = rows[k].native BY <1>5, <1>9, <2>4
    <3>2. Recorded(a)' = Recorded(a) BY <2>12, <3>1 DEF Recorded
    <3>3. \A k \in Recorded(a) : rows'[k].native = rows[k].native BY <3>1 DEF Recorded
    <3> QED BY <1>1, <2>6, <3>2, <3>3, LatestNativeStays
  <2>14. AgentInvariant(a)'
    <3>1. Backed(a)' BY <1>2, <1>3 DEF Backed
    <3>2. Underway(a)' BY <1>2, <1>3, <2>2, <2>8, <2>9, <2>12 DEF Underway
    <3>3. Resumes(a)'
      <4>1. a \in broken \/ LatestNative(a) \in {0, op[a].resume}
        BY <1>1, <1>11 DEF AgentInvariant, Resumes
      <4> QED BY <2>1, <2>2, <2>8, <2>13, <4>1 DEF Resumes
    <3>4. \A k \in Mine(a) : k # n BY <1>9, <2>n, <2>5
    <3>5. LiveIsSession(a)'
      <4>1. \A k \in Mine(a) : cli'[k] # "live" BY <1>2, <1>7, <1>9
      <4> QED BY <2>9, <2>12, <4>1 DEF LiveIsSession
    <3>6. Placed(a)'
      <4>1. \A k \in Mine(a) : ~Open(rows[k])' BY <1>2, <1>5, <1>9, <2>4 DEF Open
      <4>2. n \in Owned(a)' BY <2>1, <2>2, <2>8, OrderFacts DEF Owned
      <4> QED BY <1>2, <1>3, <1>8, <2>2, <2>8, <2>12, <4>1, <4>2 DEF Placed
    <3> QED BY <3>1, <3>2, <3>3, <3>5, <3>6 DEF AgentInvariant
  <2> QED BY <2>6, <2>10, <2>11, <2>14 DEF SessionInvariant
<1> QED BY <1>10, <1>11

----------------------------------------------------------------------------
(* Processes that end by themselves, and the phases of the runtime           *)

LEMMA ProcessInvariant ==
    ASSUME SessionInvariant, NEW l \in Launch, NEW x, cli' = [cli EXCEPT ![l] = x],
           \/ cli[l] = "live" /\ x = "failed"
           \/ cli[l] = "closing" /\ x = "gone"
              /\ \A a \in Agent : op[a].pc = "stopping" => op[a].launch # l,
           UNCHANGED <<rows, registry, session, op, phase, next, plan, broken>>
    PROVE  SessionInvariant'
<1>1. SessionType /\ \A a \in Agent : AgentInvariant(a) BY DEF SessionInvariant
<1>2. cli' \in [Launch -> Process] /\ cli'[l] = x /\ \A k \in Launch : k # l => cli'[k] = cli[k]
  BY <1>1 DEF SessionType, Process
<1>3. SessionType' BY <1>1, <1>2 DEF SessionType
<1>4. ~(l > Len(rows)) BY DEF SessionInvariant, Unused
<1>5. Unused' BY <1>2, <1>4 DEF SessionInvariant, Unused
<1>6. \A b : /\ Mine(b)' = Mine(b) /\ (Later(b)' <=> Later(b))
             /\ \A k \in Mine(b) : k \in Launch
  BY <1>1, RowFacts DEF Mine, Later
<1>7. ASSUME NEW b \in Agent, l \notin Mine(b) PROVE AgentInvariant(b)'
  <2>1. Kept(b) BY <1>2, <1>6, <1>7 DEF Kept
  <2> QED BY <1>1, <1>3, <1>6, <2>1, KeptInvariant
<1>8. ASSUME NEW a \in Agent, l \in Mine(a) PROVE AgentInvariant(a)'
  <2>1. AgentInvariant(a) BY <1>1
  <2>2. LatestNative(a)' = LatestNative(a)
    <3>1. Recorded(a)' = Recorded(a) BY <1>6 DEF Recorded
    <3> QED BY <1>1, <1>3, <3>1, LatestNativeStays
  <2>3. \A k : (Latest(a, k)' <=> Latest(a, k)) /\ (Latest(a, k) => k \in Launch)
    BY <1>6 DEF Latest
  <2>4. CASE cli[l] = "live" /\ x = "failed"
    <3>1. session[a] = l /\ l # 0 BY <1>8, <2>1, <2>4, OrderFacts DEF AgentInvariant, LiveIsSession
    <3>2. op[a].pc = "none" BY <2>1, <3>1 DEF AgentInvariant, Underway
    <3>3. Backed(a)' BY <1>2, <2>1, <2>3, <3>1, <2>4 DEF AgentInvariant, Backed
    <3>4. Underway(a)' BY <2>1, <3>2 DEF AgentInvariant, Underway, NoOp
    <3>5. Resumes(a)' BY <3>2 DEF Resumes
    <3>6. LiveIsSession(a)' BY <1>2, <1>6, <2>1, <2>4 DEF AgentInvariant, LiveIsSession
    <3> QED BY <1>6, <2>1, <2>2, <3>3, <3>4, <3>5, <3>6 DEF AgentInvariant, Placed, Open, Owned
  <2>5. CASE /\ cli[l] = "closing" /\ x = "gone"
             /\ \A b \in Agent : op[b].pc = "stopping" => op[b].launch # l
    <3>1. session[a] # l \/ session[a] = 0 BY <2>1, <2>5 DEF AgentInvariant, Backed
    <3>2. Backed(a)' BY <1>2, <2>1, <2>3, <3>1 DEF AgentInvariant, Backed
    <3>3. Underway(a)'
      <4>1. Underway(a) BY <2>1 DEF AgentInvariant
      <4>2. op[a].pc # "none" => op[a].launch \in Launch BY <2>3, <4>1 DEF Underway
      <4>3. op[a].pc = "opening" => op[a].launch # l BY <2>5, <4>1 DEF Underway
      <4> QED BY <1>2, <2>3, <2>5, <4>1, <4>2, <4>3 DEF Underway
    <3>4. Resumes(a)' BY <2>1, <2>2 DEF AgentInvariant, Resumes
    <3>5. LiveIsSession(a)' BY <1>2, <1>6, <2>1, <2>5 DEF AgentInvariant, LiveIsSession
    <3> QED BY <1>6, <2>1, <2>2, <3>2, <3>3, <3>4, <3>5 DEF AgentInvariant, Placed, Open, Owned
  <2> QED BY <2>4, <2>5
<1> QED BY <1>3, <1>5, <1>7, <1>8 DEF SessionInvariant

\* The runtime goes on to its next phase.
LEMMA PhaseInvariant ==
    ASSUME SessionInvariant, UNCHANGED <<rows, registry, cli, session, op, next, plan, broken>>,
           phase' \in Phase \ {"down", "starting"}, phase # "down",
           phase' \in {"started", "ready", "draining"} =>
               \/ phase \in {"started", "ready", "draining"}
               \/ phase = "starting" /\ next = Len(AgentOrder),
           phase \notin {"unwinding", "closing"} \/ Busy = {},
           phase' = "closed" => Busy = {} /\ Started = {}
    PROVE  SessionInvariant'
<1>1. SessionType /\ \A a \in Agent : AgentInvariant(a) BY DEF SessionInvariant
<1>2. SessionType' /\ Unused' BY DEF SessionInvariant, SessionType, Unused
<1>3. ASSUME NEW b \in Agent PROVE AgentInvariant(b)'
  <2>1. AgentInvariant(b) BY <1>1
  <2>2. Kept(b) BY DEF Kept, Mine
  <2>3. AtAnyTime(b)' BY <1>1, <1>2, <2>1, <2>2, KeptAtAnyTime DEF AgentInvariant, AtAnyTime
  <2>4. Busy = {} => op[b].pc = "none" /\ op[b] = NoOp BY <2>1 DEF Busy, AgentInvariant, Underway
  <2>5. op[b].by # "stop" BY <2>1, <2>4 DEF AgentInvariant, Placed, NoOp
  <2>6. next = Len(AgentOrder) => ~Later(b) BY OrderFacts DEF Later
  <2>7. Started = {} => session[b] = 0 BY DEF Started
  <2>8. \A k : (Open(rows[k])' <=> Open(rows[k])) BY DEF Open
  <2>9. Mine(b)' = Mine(b) /\ Owned(b)' = Owned(b) BY DEF Mine, Owned
  <2>10. Placed(b)' BY <2>1, <2>4, <2>5, <2>6, <2>7, <2>8, <2>9 DEF AgentInvariant, Placed
  <2> QED BY <2>3, <2>10 DEF AgentInvariant, AtAnyTime
<1> QED BY <1>2, <1>3 DEF SessionInvariant

\* What a runtime left behind is recovered by the next.
LEMMA BootInvariant == ASSUME SessionInvariant, Boot PROVE SessionInvariant'
<1>1. SessionType /\ \A a \in Agent : AgentInvariant(a) BY DEF SessionInvariant
<1>2. /\ phase = "down" /\ phase' = "starting" /\ next' = 0 /\ rows' = Recovered
      /\ plan' = [a \in Agent |-> LatestNative(a)]
      /\ UNCHANGED <<registry, cli, session, op, broken>>
  BY DEF Boot
<1>3. \A a \in Agent : session[a] = 0 /\ op[a] = NoOp BY <1>1, <1>2 DEF AgentInvariant, Placed
<1>4. \A l \in DOMAIN rows :
         /\ rows'[l] \in Row /\ rows'[l].agent = rows[l].agent /\ rows'[l].native = rows[l].native
         /\ ~Open(rows'[l])
  <2> TAKE l \in DOMAIN rows
  <2>1. rows[l] \in Row BY <1>1, RowFacts
  <2> DEFINE r == rows[l]
             s == [r EXCEPT !.instance = IF @ \in {"starting", "ready"} THEN "interrupted" ELSE @,
                            !.binding = IF @ \in {"starting", "ready"} THEN "interrupted" ELSE @]
  <2>2. rows'[l] = s BY <1>2 DEF Recovered
  <2>3. s \in Row /\ s.agent = r.agent /\ s.native = r.native /\ ~Open(s) BY <2>1 DEF Row, Open
  <2> HIDE DEF s
  <2> QED BY <2>2, <2>3
<1>5. rows' \in Seq(Row) /\ Len(rows') = Len(rows) /\ DOMAIN rows' = DOMAIN rows
  <2>1. Len(rows) \in Nat /\ DOMAIN rows = 1..Len(rows) BY <1>1, RowFacts
  <2>2. rows' = [l \in DOMAIN rows |-> rows'[l]] BY <1>2 DEF Recovered
  <2>3. rows' \in [1..Len(rows) -> Row] BY <1>4, <2>1, <2>2
  <2> HIDE DEF Row
  <2> QED BY <2>1, <2>3
<1>6. \A a \in Agent : LatestNative(a) \in {0} \cup Launch
  <2> TAKE a \in Agent
  <2>1. \A l \in Recorded(a) : rows[l].native \in {0} \cup Launch
    BY <1>1, RowFacts DEF Row, Recorded, Mine
  <2>2. CASE Recorded(a) = {} BY <1>1, <2>2, LatestNativeIs
  <2>3. CASE Recorded(a) # {}
    <3>1. PICK l \in Recorded(a) : \A k \in Recorded(a) : k <= l BY <1>1, <2>3, LatestNativeIs
    <3>2. LatestNative(a) = rows[l].native BY <1>1, <3>1, LatestNativeIs
    <3> QED BY <2>1, <3>2
  <2> QED BY <2>2, <2>3
<1>7. SessionType' BY <1>1, <1>2, <1>5, <1>6, OrderFacts DEF SessionType, Phase
<1>8. Unused' BY <1>2, <1>5 DEF SessionInvariant, Unused
<1>9. ASSUME NEW b \in Agent PROVE AgentInvariant(b)'
  <2>1. Mine(b)' = Mine(b) BY <1>4, <1>5 DEF Mine
  <2>2. Recorded(b)' = Recorded(b) BY <1>4, <2>1 DEF Recorded, Mine
  <2>3. LatestNative(b)' = LatestNative(b)
    <3>1. \A l \in Recorded(b) : rows'[l].native = rows[l].native BY <1>4 DEF Recorded, Mine
    <3> QED BY <1>1, <1>7, <2>2, <3>1, LatestNativeStays
  <2>4. session'[b] = 0 /\ op'[b] = NoOp BY <1>2, <1>3
  <2>5. Backed(b)' /\ Underway(b)' /\ Resumes(b)' BY <2>4 DEF Backed, Underway, Resumes, NoOp
  <2>6. LiveIsSession(b)' BY <1>1, <1>2, <2>1 DEF AgentInvariant, LiveIsSession
  <2>7. Later(b)'
    <3>1. \E i \in 1..Len(AgentOrder) : AgentOrder[i] = b BY OrderFacts
    <3> QED BY <1>2, <3>1 DEF Later
  <2>8. Placed(b)'
    <3>1. \A l \in Mine(b)' : ~Open(rows[l])' BY <1>4, <2>1 DEF Mine, Open
    <3> QED BY <1>2, <2>3, <2>4, <2>7, <3>1 DEF Placed, NoOp
  <2> QED BY <2>5, <2>6, <2>8 DEF AgentInvariant
<1> QED BY <1>7, <1>8, <1>9 DEF SessionInvariant

LEMMA ForgottenInvariant == ASSUME SessionInvariant, Forgotten PROVE SessionInvariant'
<1>1. SessionType BY DEF SessionInvariant
<1>2. /\ rows' = rows /\ next' = next /\ plan' = plan /\ phase' = "down" /\ broken' = {}
      /\ registry' = [l \in Launch |-> "none"]
      /\ cli' = [l \in Launch |-> IF cli[l] = "none" THEN "none" ELSE "gone"]
      /\ session' = [a \in Agent |-> 0] /\ op' = [a \in Agent |-> NoOp]
  BY DEF Forgotten
<1>3. NoOp \in Op BY AttemptsAssumption DEF NoOp, Op
<1>4. SessionType' BY <1>1, <1>2, <1>3 DEF SessionType, Phase, Registration, Process
<1>5. Unused' BY <1>2 DEF SessionInvariant, Unused
<1>6. ASSUME NEW b \in Agent PROVE AgentInvariant(b)'
  <2>1. session'[b] = 0 /\ op'[b] = NoOp BY <1>2
  <2>2. Mine(b)' \subseteq Launch BY <1>4, <1>1, <1>2, RowFacts DEF Mine
  <2>3. LiveIsSession(b)' BY <1>2, <2>2 DEF LiveIsSession
  <2> QED BY <1>2, <2>1, <2>3 DEF AgentInvariant, Backed, Underway, Resumes, Placed, NoOp
<1> QED BY <1>4, <1>5, <1>6 DEF SessionInvariant

----------------------------------------------------------------------------
(* Every step of the runtime, as its sessions see it                         *)

core == <<rows, registry, cli, session, op, phase, next, plan, broken>>

GoesOn ==
    /\ UNCHANGED <<rows, registry, cli, session, op, next, plan, broken>>
    /\ \/ phase = "starting" /\ next = Len(AgentOrder) /\ phase' = "started"
       \/ phase = "started" /\ phase' \in {"draining", "ready"}
       \/ phase = "ready" /\ phase' = "draining"
       \/ phase = "draining" /\ phase' = "closing"

AgentStep(a) ==
    \/ BeginRestart(a)
    \/ Opens(a)
    \/ \E retryable, fresh \in BOOLEAN : OpenFails(a, retryable, fresh)
    \/ OpensAnother(a)
    \/ \E closed \in BOOLEAN : RejectSettles(a, closed)
    \/ \E how \in CloseOutcome : StopSettles(a, how)

SessionStep ==
    \/ UNCHANGED core
    \/ Boot \/ Forgotten \/ GoesOn
    \/ StartNext \/ Unwind \/ CloseSessions
    \/ \E a \in Agent : AgentStep(a)
    \/ \E l \in Launch : CliDies(l) \/ ClosesLate(l)

\* The reset under way restarts agents, and has a receipt of its own.
ResetType ==
    /\ reset \in [pc : {"none", "next", "waits"}, key : Key \cup {<<>>}, left : Seq(Agent)]
    /\ reset.pc # "none" => reset.key \in Key /\ receipts[reset.key].kind = "reset"
    /\ reset.pc = "waits" => reset.left # <<>>

LEMMA ResetIsSessionStep == ASSUME ResetType, ResetNext \/ ResetCompletes PROVE SessionStep
<1> USE DEF core, sessionVars, rowVars, managerVars
<1>1. CASE ResetNext
  <2>1. Head(reset.left) \in Agent BY <1>1 DEF ResetNext, ResetType
  <2>2. UNCHANGED sessionVars \/ BeginRestart(Head(reset.left)) BY <1>1 DEF ResetNext
  <2> QED BY <2>1, <2>2 DEF SessionStep, AgentStep
<1>2. CASE ResetCompletes BY <1>2 DEF ResetCompletes, SessionStep
<1> QED BY <1>1, <1>2

LEMMA LedgerIsSessionStep == ASSUME ResetType, LedgerNext PROVE SessionStep
<1> USE DEF core, sessionVars, rowVars, managerVars
<1>1. ASSUME NEW k \in Key, NEW a \in Agent, RestartCommand(k, a) PROVE SessionStep
  BY <1>1 DEF RestartCommand, SessionStep, AgentStep
<1>2. ASSUME NEW k \in Key, NEW a \in Agent, RestartRefused(k, a) PROVE SessionStep
  BY <1>2 DEF RestartRefused, SessionStep
<1>3. ASSUME NEW k \in Key, ResetCommand(k) PROVE SessionStep
  BY <1>3 DEF ResetCommand, SessionStep
<1>4. ASSUME NEW k, Mutates(k) PROVE SessionStep
  BY <1>4 DEF Mutates, SessionStep
<1> QED
  BY <1>1, <1>2, <1>3, <1>4, ResetIsSessionStep
  DEF LedgerNext, RememberMemory, RememberIdentity, SupersedeMemory, RetractMemory,
      SupersedeIdentity, RetractIdentity

LEMMA TurnIsSessionStep == ASSUME NEW a \in Agent, TurnStep(a) PROVE SessionStep
<1> USE DEF core, rowVars, managerVars, SessionStep
<1>1. CASE Resolve(a) BY <1>1 DEF Resolve
<1>2. CASE Activate(a) BY <1>2 DEF Activate
<1>3. CASE TurnEnds(a) BY <1>3 DEF TurnEnds
<1>4. CASE Recovers(a) BY <1>4 DEF Recovers
<1>5. CASE TurnBreaks(a) BY <1>5 DEF TurnBreaks, AgentStep
<1> QED BY <1>1, <1>2, <1>3, <1>4, <1>5 DEF TurnStep

LEMMA AdvanceIsSessionStep == ASSUME Advance \/ RequestStop PROVE SessionStep
<1> USE DEF SessionStep, GoesOn, rowVars
<1>1. CASE AllStarted BY <1>1 DEF AllStarted
<1>2. CASE MarkReady BY <1>2 DEF MarkReady
<1>3. CASE DrainEnds BY <1>3 DEF DrainEnds
<1>4. CASE RequestStop BY <1>4 DEF RequestStop, core
<1> QED BY <1>1, <1>2, <1>3, <1>4 DEF Advance

LEMMA NextIsSessionStep == ASSUME ResetType, [Next]_vars PROVE SessionStep
<1>1. CASE UNCHANGED vars BY <1>1 DEF vars, sessionVars, rowVars, managerVars, SessionStep, core
<1>2. CASE Begins \/ Ends BY <1>2 DEF Begins, Ends, SessionStep
<1>3. CASE RequestStop \/ Advance BY <1>3, AdvanceIsSessionStep
<1>4. CASE ResetSteps BY <1>4, ResetIsSessionStep DEF ResetSteps
<1>5. ASSUME NEW a \in Agent, OpenSettles(a) \/ CloseSettles(a) \/ OpensAnother(a) PROVE SessionStep
  BY <1>5 DEF OpenSettles, CloseSettles, SessionStep, AgentStep
<1>6. ASSUME NEW a \in Agent, TurnStep(a) PROVE SessionStep BY <1>6, TurnIsSessionStep
<1>7. ASSUME NEW l \in Launch, CliDies(l) \/ ClosesLate(l) PROVE SessionStep
  BY <1>7 DEF SessionStep
<1>8. CASE LedgerNext BY <1>8, LedgerIsSessionStep
<1> QED BY <1>1, <1>2, <1>3, <1>4, <1>5, <1>6, <1>7, <1>8 DEF Next

----------------------------------------------------------------------------
(* The sessions' invariant is kept                                           *)

LEMMA UntouchedInvariant == ASSUME SessionInvariant, UNCHANGED core PROVE SessionInvariant'
<1>1. SessionType /\ SessionType' /\ Unused' BY DEF SessionInvariant, SessionType, Unused, core
<1>2. ASSUME NEW b \in Agent PROVE AgentInvariant(b)'
  <2>1. Kept(b) /\ (Later(b)' <=> Later(b)) /\ phase' = phase BY DEF core, Kept, Mine, Later
  <2> QED BY <1>1, <2>1, KeptInvariant DEF SessionInvariant
<1> QED BY <1>1, <1>2 DEF SessionInvariant

LEMMA BeginRestartInvariant ==
    ASSUME SessionInvariant, NEW a \in Agent, BeginRestart(a) PROVE SessionInvariant'
<1>1. SessionType /\ AgentInvariant(a) BY DEF SessionInvariant
<1>2. phase \in {"started", "ready", "draining"} /\ op[a].pc = "none"
  BY DEF BeginRestart, ManagerReady
<1>3. CASE session[a] # 0
  <2> DEFINE resume == [b \in Agent |-> IF session[b] # 0 THEN rows[session[b]].native ELSE 0]
  <2>1. StopManaged({a}, resume, "restart") /\ UNCHANGED <<rows, registry, phase, next, plan, broken>>
    BY <1>3 DEF BeginRestart
  <2>2. resume[a] = rows[session[a]].native BY <1>3
  <2>3. session[a] \in DOMAIN rows BY <1>1, <1>3 DEF AgentInvariant, Backed, Latest, Mine
  <2>4. resume[a] \in {0} \cup Launch BY <1>1, <2>2, <2>3, RowFacts DEF Row
  <2> HIDE DEF resume
  <2>5. /\ {a} \in SUBSET Agent /\ \A b \in {a} : session[b] # 0 /\ resume[b] \in {0} \cup Launch
        /\ \A b \in {a} : resume[b] = rows[session[b]].native
    BY <1>3, <2>2, <2>4
  <2> QED BY <2>1, <2>5, StopManagedInvariant
<1>4. CASE session[a] = 0
  <2>1. StartAgent(a, 0, "restart") /\ UNCHANGED <<session, cli, phase, next, plan, broken>>
    BY <1>4 DEF BeginRestart
  <2>2. a \in broken BY <1>1, <1>2, <1>4 DEF AgentInvariant, Placed
  <2>3. \A b \in Agent : Later(b)' <=> Later(b) BY <2>1 DEF Later
  <2>4. next' \in 0..Len(AgentOrder) BY <1>1, <2>1 DEF SessionType
  <2> QED BY <1>2, <1>4, <2>1, <2>2, <2>3, <2>4, StartAgentInvariant
<1> QED BY <1>3, <1>4

LEMMA StartNextInvariant == ASSUME SessionInvariant, StartNext PROVE SessionInvariant'
<1>1. SessionType BY DEF SessionInvariant
<1>2. PICK a : a = AgentOrder[next + 1] OBVIOUS
<1>3. /\ phase = "starting" /\ next < Len(AgentOrder) /\ next' = next + 1
      /\ StartAgent(a, plan[a], "startAll") /\ UNCHANGED <<cli, session, phase, plan, broken>>
  BY <1>2 DEF StartNext
<1>4. next \in Nat /\ next + 1 \in 1..Len(AgentOrder) /\ next' \in 0..Len(AgentOrder)
  BY <1>1, <1>3, OrderFacts DEF SessionType
<1>5. a \in Agent /\ Later(a)
  <2>1. next + 1 \in next + 1..Len(AgentOrder) BY <1>4, OrderFacts
  <2> QED BY <1>2, <1>4, <2>1, OrderFacts DEF Later
<1>6. session[a] = 0 /\ op[a] = NoOp /\ plan[a] = LatestNative(a)
  BY <1>3, <1>5 DEF SessionInvariant, AgentInvariant, Placed
<1>7. \A i \in next + 2..Len(AgentOrder) : AgentOrder[i] # a
  <2> TAKE i \in next + 2..Len(AgentOrder)
  <2>1. i \in 1..Len(AgentOrder) /\ i # next + 1 BY <1>4, OrderFacts
  <2> QED BY <1>2, <1>4, <2>1, OrderFacts
<1>8. next + 1..Len(AgentOrder) = {next + 1} \cup next + 2..Len(AgentOrder)
  BY <1>4, OrderFacts
<1>9. next' + 1..Len(AgentOrder) = next + 2..Len(AgentOrder) BY <1>3, <1>4
<1>10. ~Later(a)' BY <1>7, <1>9 DEF Later
<1>11. \A b \in Agent : b # a => (Later(b)' <=> Later(b)) BY <1>2, <1>8, <1>9 DEF Later
<1>12. plan[a] \in {0} \cup Launch BY <1>1, <1>5 DEF SessionType
<1>13. op[a].pc = "none" /\ LatestNative(a) \in {0, plan[a]} BY <1>6 DEF NoOp
<1> QED BY <1>3, <1>4, <1>5, <1>6, <1>10, <1>11, <1>12, <1>13, StartAgentInvariant

LEMMA StopAllInvariant == ASSUME SessionInvariant, Unwind \/ CloseSessions PROVE SessionInvariant'
<1>1. SessionType BY DEF SessionInvariant
<1>2. Busy = {} /\ phase \in {"unwinding", "closing"} /\ UNCHANGED <<rows, registry, next, plan, broken>>
  BY DEF Unwind, CloseSessions, rowVars
<1>3. CASE Started # {}
  <2>1. StopManaged(Started, [a \in Agent |-> 0], "stop") /\ phase' = phase
    BY <1>3 DEF Unwind, CloseSessions
  <2>2. /\ Started \in SUBSET Agent /\ \A a \in Started : session[a] # 0
        /\ \A a \in Started : [b \in Agent |-> 0][a] \in {0} \cup Launch
    BY DEF Started
  <2> QED BY <1>2, <2>1, <2>2, StopManagedInvariant
<1>4. CASE Started = {}
  <2>1. phase' \in {"closing", "closed"} /\ UNCHANGED <<session, cli, op>>
    BY <1>4 DEF Unwind, CloseSessions
  <2> QED BY <1>2, <1>4, <2>1, PhaseInvariant DEF Phase
<1> QED BY <1>3, <1>4

LEMMA SessionStepInvariant == ASSUME SessionInvariant, SessionStep PROVE SessionInvariant'
<1>1. CASE UNCHANGED core BY <1>1, UntouchedInvariant
<1>2. CASE Boot \/ Forgotten BY <1>2, BootInvariant, ForgottenInvariant
<1>3. CASE GoesOn BY <1>3, PhaseInvariant DEF GoesOn, Phase
<1>4. CASE StartNext \/ Unwind \/ CloseSessions BY <1>4, StartNextInvariant, StopAllInvariant
<1>5. ASSUME NEW a \in Agent, AgentStep(a) PROVE SessionInvariant'
  <2> PICK l : l = op[a].launch OBVIOUS
  <2>1. CASE BeginRestart(a) BY <2>1, BeginRestartInvariant
  <2>2. CASE Opens(a) BY <2>2, OpensInvariant
  <2>3. CASE \E retryable, fresh \in BOOLEAN : OpenFails(a, retryable, fresh)
    BY <2>3, OpenFailsInvariant
  <2>4. CASE OpensAnother(a) BY <2>4, OpensAnotherInvariant
  <2>5. CASE \E closed \in BOOLEAN : RejectSettles(a, closed) BY <2>5, RejectSettlesInvariant
  <2>6. CASE \E how \in CloseOutcome : StopSettles(a, how) BY <2>6, StopSettlesInvariant
  <2> QED BY <1>5, <2>1, <2>2, <2>3, <2>4, <2>5, <2>6 DEF AgentStep
<1>6. ASSUME NEW l \in Launch, CliDies(l) \/ ClosesLate(l) PROVE SessionInvariant'
  BY <1>6, ProcessInvariant DEF CliDies, ClosesLate, rowVars, managerVars
<1> QED BY <1>1, <1>2, <1>3, <1>4, <1>5, <1>6 DEF SessionStep

LEMMA InitSessions == ASSUME SessionInit PROVE SessionInvariant
<1> USE DEF SessionInit
<1>1. SessionType
  <2>1. NoOp \in Op BY AttemptsAssumption DEF NoOp, Op
  <2>2. rows \in Seq(Row) /\ Len(rows) = 0 OBVIOUS
  <2> QED BY <2>1, <2>2, OrderFacts, BoundAssumption DEF SessionType, Registration, Process, Phase
<1>2. Unused BY DEF Unused
<1>3. ASSUME NEW b \in Agent PROVE AgentInvariant(b)
  <2>1. Mine(b) = {} BY DEF Mine
  <2> QED BY <2>1 DEF AgentInvariant, Backed, Underway, Resumes, LiveIsSession, Placed, NoOp
<1> QED BY <1>1, <1>2, <1>3 DEF SessionInvariant

----------------------------------------------------------------------------
(* What any step may do to the rows, the registrations and the restarts       *)

\* Rows stay, with their agent; a native session is recorded by an open that succeeds.
StepRows ==
    /\ Len(rows) <= Len(rows')
    /\ \A l \in DOMAIN rows :
          /\ rows'[l].agent = rows[l].agent
          /\ rows[l].native # 0 => rows'[l].native # 0
          /\ rows'[l].native # rows[l].native => \E a \in Agent : Opens(a) /\ l = op[a].launch

\* A registration that was closed is not opened again.
StepRegistry ==
    \A l \in Launch :
        /\ registry'[l] \in {"reserved", "ready"} => registry[l] \in {"reserved", "ready", "none"}
        /\ registry[l] # "none" => registry'[l] # "none" \/ Forgotten

\* A restart goes on, with a launch of its own, or has ended.
StepRestart(b) ==
    op[b].by = "restart" =>
        \/ Forgotten
        \/ /\ op'[b].by = "restart"
           /\ op'[b].pc = "opening" =>
                 \/ op[b].pc = "opening" /\ op'[b].launch = op[b].launch
                 \/ op'[b].launch > Len(rows)
        \/ op'[b] = NoOp /\ (session'[b] # 0 => Opens(b))

LEMMA SameRows ==
    ASSUME SessionInvariant, UNCHANGED <<rows, registry>> PROVE StepRows /\ StepRegistry
<1>1. Len(rows) \in Nat BY RowFacts DEF SessionInvariant
<1> QED BY <1>1 DEF StepRows, StepRegistry

LEMMA StartAgentSteps ==
    ASSUME SessionInvariant, NEW a \in Agent, NEW native, NEW by, StartAgent(a, native, by)
    PROVE  StepRows /\ StepRegistry
<1> DEFINE r == [agent |-> a, instance |-> "starting", binding |-> "starting", native |-> 0]
<1>1. SessionType BY DEF SessionInvariant
<1>2. PICK n : n = Len(rows) + 1 OBVIOUS
<1>3. n \in Launch /\ rows' = Append(rows, r) /\ registry' = [registry EXCEPT ![n] = "reserved"]
  BY <1>2 DEF StartAgent
<1>4. Len(rows) \in Nat /\ DOMAIN rows = 1..Len(rows) BY <1>1, RowFacts
<1>5. rows \in Seq(Row) /\ r \in Row BY <1>1 DEF SessionType, Row
<1>6. Len(rows') = n /\ \A k \in 1..Len(rows) : rows'[k] = rows[k] BY <1>2, <1>3, <1>5, Appended
<1>7. StepRows BY <1>2, <1>4, <1>6 DEF StepRows
<1>8. registry[n] = "none" BY <1>2, <1>3, <1>4 DEF SessionInvariant, Unused
<1>9. StepRegistry BY <1>1, <1>3, <1>8 DEF StepRegistry, SessionType
<1> QED BY <1>7, <1>9

LEMMA OpensSteps ==
    ASSUME SessionInvariant, NEW a \in Agent, NEW l, l = op[a].launch, Opens(a)
    PROVE  StepRows /\ StepRegistry
<1> DEFINE native == IF op[a].resume # 0 THEN op[a].resume ELSE l
           r == [rows[l] EXCEPT !.instance = "ready", !.binding = "ready", !.native = native]
<1>1. SessionType /\ AgentInvariant(a) /\ op[a].pc = "opening" BY DEF SessionInvariant, Opens
<1>2. l \in 1..Len(rows) /\ l \in Launch /\ registry[l] = "reserved" /\ l # 0
  BY <1>1, Awaiting, OrderFacts DEF AgentInvariant, Underway
<1>3. rows' = [rows EXCEPT ![l] = r] /\ registry' = [registry EXCEPT ![l] = "ready"] BY DEF Opens
<1>4. rows \in Seq(Row) /\ rows[l] \in Row /\ DOMAIN rows = 1..Len(rows) /\ Len(rows) \in Nat
  BY <1>1, <1>2, RowFacts DEF SessionType
<1>5. native # 0 /\ native \in {0} \cup Launch BY <1>1, <1>2 DEF SessionType, Op
<1> HIDE DEF native
<1>6. r \in Row /\ r.agent = rows[l].agent /\ r.native = native BY <1>4, <1>5 DEF Row
<1> HIDE DEF r
<1>7. Len(rows') = Len(rows) /\ rows'[l] = r /\ \A k \in 1..Len(rows) : k # l => rows'[k] = rows[k]
  BY <1>2, <1>3, <1>4, <1>6, Written
<1>8. StepRows BY <1>4, <1>5, <1>6, <1>7 DEF StepRows
<1>9. StepRegistry BY <1>1, <1>2, <1>3 DEF StepRegistry, SessionType
<1> QED BY <1>8, <1>9

LEMMA StartFailsSteps ==
    ASSUME SessionInvariant, NEW a \in Agent, NEW l, l = op[a].launch, op[a].pc # "none", StartFails(a)
    PROVE  StepRows /\ StepRegistry
<1> DEFINE r == FailedRow(l)
<1>1. SessionType BY DEF SessionInvariant
<1>2. l \in 1..Len(rows) /\ l \in Launch BY <1>1, Awaiting
<1>3. rows' = [rows EXCEPT ![l] = r] /\ registry' = [registry EXCEPT ![l] = "closed"]
  BY DEF StartFails
<1>4. rows \in Seq(Row) /\ rows[l] \in Row /\ DOMAIN rows = 1..Len(rows) /\ Len(rows) \in Nat
  BY <1>1, <1>2, RowFacts DEF SessionType
<1>5. r \in Row /\ r.agent = rows[l].agent /\ r.native = rows[l].native BY <1>4 DEF Row, FailedRow
<1> HIDE DEF r
<1>6. Len(rows') = Len(rows) /\ rows'[l] = r /\ \A k \in 1..Len(rows) : k # l => rows'[k] = rows[k]
  BY <1>2, <1>3, <1>4, <1>5, Written
<1>7. StepRows BY <1>4, <1>5, <1>6 DEF StepRows
<1>8. StepRegistry BY <1>1, <1>2, <1>3 DEF StepRegistry, SessionType
<1> QED BY <1>7, <1>8

LEMMA StopSettlesSteps ==
    ASSUME SessionInvariant, NEW a \in Agent, NEW l, l = op[a].launch,
           NEW how \in CloseOutcome, StopSettles(a, how)
    PROVE  StepRows /\ StepRegistry
<1> DEFINE r == StoppedRow(rows[l], how)
           s == [rows EXCEPT ![l] = r]
           new == [agent |-> a, instance |-> "starting", binding |-> "starting", native |-> 0]
<1>n. PICK n : n = Len(rows) + 1 OBVIOUS
<1>1. SessionType /\ op[a].pc # "none" BY DEF SessionInvariant, StopSettles
<1>2. l \in 1..Len(rows) /\ l \in Launch BY <1>1, Awaiting
<1>3. \/ rows' = s /\ registry' = [registry EXCEPT ![l] = "closed"]
      \/ /\ n \in Launch /\ rows' = Append(s, new)
         /\ registry' = [registry EXCEPT ![l] = "closed", ![n] = "reserved"]
  BY <1>n DEF StopSettles
<1>4. rows \in Seq(Row) /\ rows[l] \in Row /\ DOMAIN rows = 1..Len(rows) /\ Len(rows) \in Nat
  BY <1>1, <1>2, RowFacts DEF SessionType
<1>5. r \in Row /\ r.agent = rows[l].agent /\ r.native = rows[l].native
  BY <1>4 DEF Row, StoppedRow
<1>6. new \in Row BY DEF Row
<1> HIDE DEF r, new
<1>7. /\ s \in Seq(Row) /\ Len(s) = Len(rows) /\ s[l] = r
      /\ \A k \in 1..Len(rows) : k # l => s[k] = rows[k]
  BY <1>2, <1>4, <1>5, Written
<1> HIDE DEF s
<1>8. Len(rows') >= Len(rows) /\ \A k \in 1..Len(rows) : rows'[k] = s[k]
  <2>1. CASE rows' = s BY <1>4, <1>7, <2>1
  <2>2. CASE rows' = Append(s, new)
    <3>1. Len(rows') = Len(s) + 1 /\ \A k \in 1..Len(s) : rows'[k] = s[k]
      BY <1>6, <1>7, <2>2, Appended
    <3> QED BY <1>4, <1>7, <3>1
  <2> QED BY <1>3, <2>1, <2>2
<1>9. StepRows BY <1>4, <1>5, <1>7, <1>8 DEF StepRows
<1>10. n \in Launch => registry[n] = "none" BY <1>n, <1>4 DEF SessionInvariant, Unused
<1>11. StepRegistry
  <2>1. registry \in [Launch -> Registration] BY <1>1 DEF SessionType
  <2>2. CASE registry' = [registry EXCEPT ![l] = "closed"] BY <1>2, <2>1, <2>2 DEF StepRegistry
  <2>3. CASE n \in Launch /\ registry' = [registry EXCEPT ![l] = "closed", ![n] = "reserved"]
    BY <1>2, <1>10, <2>1, <2>3 DEF StepRegistry
  <2> QED BY <1>3, <2>2, <2>3
<1> QED BY <1>9, <1>11

LEMMA RowsAndRegistrations ==
    ASSUME SessionInvariant, SessionStep PROVE StepRows /\ StepRegistry
<1>0. SessionType BY DEF SessionInvariant
<1>1. CASE UNCHANGED core \/ GoesOn \/ Unwind \/ CloseSessions
  BY <1>1, SameRows DEF core, GoesOn, Unwind, CloseSessions, rowVars
<1>2. CASE Boot
  <2>1. \A l \in DOMAIN rows : rows'[l].agent = rows[l].agent /\ rows'[l].native = rows[l].native
    <3> TAKE l \in DOMAIN rows
    <3>1. rows[l] \in Row BY <1>0, RowFacts
    <3> QED BY <1>2, <3>1 DEF Boot, Recovered, Row
  <2>2. SessionInvariant' BY <1>2, BootInvariant
  <2>3. DOMAIN rows' = DOMAIN rows BY <1>2 DEF Boot, Recovered
  <2>4. Len(rows') = Len(rows) /\ Len(rows) \in Nat BY <1>0, <2>2, <2>3 DEF SessionInvariant, SessionType
  <2> QED BY <1>2, <2>1, <2>4 DEF StepRows, StepRegistry, Boot
<1>3. CASE Forgotten
  <2>1. rows' = rows /\ \A l \in Launch : registry'[l] = "none" BY <1>3 DEF Forgotten
  <2>2. Len(rows) \in Nat BY <1>0, RowFacts
  <2> QED BY <1>3, <2>1, <2>2 DEF StepRows, StepRegistry
<1>4. CASE StartNext
  <2>1. next \in Nat /\ next + 1 \in 1..Len(AgentOrder)
    BY <1>0, <1>4, OrderFacts DEF StartNext, SessionType
  <2>2. AgentOrder[next + 1] \in Agent BY <2>1, OrderFacts
  <2> QED BY <1>4, <2>2, StartAgentSteps DEF StartNext
<1>5. ASSUME NEW a \in Agent, AgentStep(a) PROVE StepRows /\ StepRegistry
  <2> PICK l : l = op[a].launch OBVIOUS
  <2>1. CASE BeginRestart(a) BY <2>1, SameRows, StartAgentSteps DEF BeginRestart
  <2>2. CASE Opens(a) BY <2>2, OpensSteps
  <2>3. CASE \E retryable, fresh \in BOOLEAN : OpenFails(a, retryable, fresh)
    BY <2>3, SameRows, StartFailsSteps DEF OpenFails, rowVars
  <2>4. CASE OpensAnother(a) BY <2>4, SameRows DEF OpensAnother, rowVars
  <2>5. CASE \E closed \in BOOLEAN : RejectSettles(a, closed)
    BY <2>5, StartFailsSteps DEF RejectSettles
  <2>6. CASE \E how \in CloseOutcome : StopSettles(a, how) BY <2>6, StopSettlesSteps
  <2> QED BY <1>5, <2>1, <2>2, <2>3, <2>4, <2>5, <2>6 DEF AgentStep
<1>6. ASSUME NEW l \in Launch, CliDies(l) \/ ClosesLate(l) PROVE StepRows /\ StepRegistry
  BY <1>6, SameRows DEF CliDies, ClosesLate, rowVars
<1> QED BY <1>1, <1>2, <1>3, <1>4, <1>5, <1>6 DEF SessionStep

LEMMA OthersWait ==
    ASSUME SessionType, NEW a \in Agent, AgentStep(a), NEW b \in Agent, a # b PROVE op'[b] = op[b]
<1>0. op \in [Agent -> Op] BY DEF SessionType
<1>1. CASE BeginRestart(a)
  BY <1>0, <1>1 DEF BeginRestart, StopManaged, StartAgent
<1>2. CASE Opens(a) BY <1>0, <1>2 DEF Opens
<1>3. CASE \E retryable, fresh \in BOOLEAN : OpenFails(a, retryable, fresh)
  BY <1>0, <1>3 DEF OpenFails, StartFails
<1>4. CASE OpensAnother(a) BY <1>0, <1>4 DEF OpensAnother
<1>5. CASE \E closed \in BOOLEAN : RejectSettles(a, closed)
  BY <1>0, <1>5 DEF RejectSettles, StartFails
<1>6. CASE \E how \in CloseOutcome : StopSettles(a, how)
  BY <1>0, <1>6 DEF StopSettles
<1> QED BY <1>1, <1>2, <1>3, <1>4, <1>5, <1>6 DEF AgentStep

LEMMA RestartsGoOn ==
    ASSUME SessionInvariant, SessionStep, NEW b \in Agent PROVE StepRestart(b)
<1> SUFFICES ASSUME op[b].by = "restart", ~Forgotten PROVE StepRestart(b) BY DEF StepRestart
<1>1. SessionType /\ AgentInvariant(b) /\ Len(rows) \in Nat BY RowFacts DEF SessionInvariant
<1>2. op[b].pc # "none" BY <1>1 DEF AgentInvariant, Underway, NoOp
<1>3. op \in [Agent -> Op] /\ op[b] \in Op BY <1>1 DEF SessionType
<1>4. session[b] = 0 BY <1>1, <1>2 DEF AgentInvariant, Underway
<1>5. Busy # {} BY <1>2 DEF Busy
<1>6. ASSUME op'[b] = op[b] PROVE StepRestart(b) BY <1>6 DEF StepRestart
<1>7. ~StartNext /\ ~Unwind /\ ~CloseSessions BY <1>5 DEF StartNext, Unwind, CloseSessions
<1>8. CASE UNCHANGED core \/ GoesOn \/ Boot BY <1>6, <1>8 DEF core, GoesOn, Boot
<1>9. ASSUME NEW l \in Launch, CliDies(l) \/ ClosesLate(l) PROVE StepRestart(b)
  BY <1>6, <1>9 DEF CliDies, ClosesLate, managerVars
<1>10. ASSUME NEW a \in Agent, AgentStep(a), a # b PROVE op'[b] = op[b]
  BY <1>1, <1>10, OthersWait
<1>11. CASE AgentStep(b)
  <2>1. CASE BeginRestart(b) BY <1>2, <2>1 DEF BeginRestart
  <2>2. CASE Opens(b)
    <3>1. op'[b] = NoOp BY <1>3, <2>2 DEF Opens
    <3> QED BY <2>2, <3>1 DEF StepRestart
  <2>f. ASSUME StartFails(b) PROVE StepRestart(b)
    <3>1. op'[b] = NoOp /\ session' = session BY <1>3, <2>f DEF StartFails
    <3> QED BY <1>4, <3>1 DEF StepRestart
  <2>3. CASE \E retryable, fresh \in BOOLEAN : OpenFails(b, retryable, fresh)
    <3>1. PICK retryable, fresh \in BOOLEAN : OpenFails(b, retryable, fresh) BY <2>3
    <3>2. CASE op' = [op EXCEPT ![b].attempt = @ + 1]
      <4>1. op'[b].by = "restart" /\ op'[b].launch = op[b].launch /\ op[b].pc = "opening"
        BY <1>3, <3>1, <3>2 DEF Op, OpenFails
      <4> QED BY <4>1 DEF StepRestart
    <3>3. CASE op' = [op EXCEPT ![b].attempt = 1, ![b].resume = 0]
      <4>1. op'[b].by = "restart" /\ op'[b].launch = op[b].launch /\ op[b].pc = "opening"
        BY <1>3, <3>1, <3>3 DEF Op, OpenFails
      <4> QED BY <4>1 DEF StepRestart
    <3> QED BY <2>f, <3>1, <3>2, <3>3 DEF OpenFails
  <2>4. CASE OpensAnother(b)
    <3>1. op'[b].by = "restart" /\ op'[b].pc = "rejecting" BY <1>3, <2>4 DEF OpensAnother, Op
    <3> QED BY <3>1 DEF StepRestart
  <2>5. CASE \E closed \in BOOLEAN : RejectSettles(b, closed)
    BY <2>5, <2>f DEF RejectSettles
  <2>6. CASE \E how \in CloseOutcome : StopSettles(b, how)
    <3>1. PICK how \in CloseOutcome : StopSettles(b, how) BY <2>6
    <3>2. CASE op' = [op EXCEPT ![b] = NoOp]
      <4>1. op'[b] = NoOp /\ session' = session BY <1>3, <3>1, <3>2 DEF StopSettles
      <4> QED BY <1>4, <4>1 DEF StepRestart
    <3>3. CASE op' = [op EXCEPT ![b] = [@ EXCEPT !.pc = "opening", !.launch = Len(rows) + 1, !.attempt = 1]]
      <4>1. op'[b].by = "restart" /\ op'[b].launch = Len(rows) + 1 BY <1>3, <3>3 DEF Op
      <4> QED BY <1>1, <4>1 DEF StepRestart
    <3> QED BY <3>1, <3>2, <3>3 DEF StopSettles
  <2> QED BY <1>11, <2>1, <2>2, <2>3, <2>4, <2>5, <2>6 DEF AgentStep
<1> QED BY <1>6, <1>7, <1>8, <1>9, <1>10, <1>11 DEF SessionStep

----------------------------------------------------------------------------
(* The Turns of the lanes                                                    *)

LaneType ==
    /\ lane \in [Agent -> [launch : {0} \cup Launch, pc : {"idle", "claimed", "active", "recovering"}]]
    /\ \A a \in Agent : lane[a].pc \in {"claimed", "active"} => lane[a].launch \in Launch
    /\ calling \cup causal \subseteq Launch

\* A binding that a Turn was put on has been registered.
LaneInvariant == LaneType /\ (\A l \in calling : registry[l] # "none") /\ LifecycleIsCleared

\* What a step does to the lane of an agent.
LaneStep(a) ==
    \/ /\ lane[a].pc = "idle" /\ session[a] # 0
       /\ lane' = [lane EXCEPT ![a] = [launch |-> session[a], pc |-> "claimed"]]
       /\ UNCHANGED <<calling, causal>>
    \/ Activate(a)
    \/ Deactivate(a) /\ lane' = [lane EXCEPT ![a] = NoLane]
    \/ Deactivate(a) /\ lane' = [lane EXCEPT ![a].pc = "recovering"]
    \/ /\ lane[a].pc = "recovering" /\ lane' = [lane EXCEPT ![a] = NoLane]
       /\ UNCHANGED <<calling, causal>>

LanesStep == UNCHANGED turnVars \/ Forgotten \/ \E a \in Agent : LaneStep(a)

LEMMA AgentStepLanes ==
    ASSUME NEW a \in Agent, OpenSettles(a) \/ CloseSettles(a) \/ OpensAnother(a) PROVE UNCHANGED turnVars
BY DEF OpenSettles, CloseSettles, Opens, OpenFails, OpensAnother, RejectSettles, StartFails, StopSettles

LEMMA TurnLanes == ASSUME NEW a \in Agent, TurnStep(a) PROVE LaneStep(a)
<1>1. CASE Resolve(a) BY <1>1 DEF Resolve, LaneStep
<1>2. CASE Activate(a) BY <1>2 DEF LaneStep
<1>3. CASE TurnEnds(a) BY <1>3 DEF TurnEnds, LaneStep
<1>4. CASE Recovers(a) BY <1>4 DEF Recovers, LaneStep
<1>5. CASE TurnBreaks(a) BY <1>5 DEF TurnBreaks, LaneStep
<1> QED BY <1>1, <1>2, <1>3, <1>4, <1>5 DEF TurnStep

LEMMA NextIsLanesStep == ASSUME [Next]_vars PROVE LanesStep
<1> USE DEF LanesStep
<1>1. CASE UNCHANGED vars BY <1>1 DEF vars, sessionVars
<1>2. CASE Begins BY <1>2 DEF Begins, Boot
<1>3. CASE Ends BY <1>3 DEF Ends
<1>4. CASE RequestStop \/ Advance
  BY <1>4 DEF RequestStop, Advance, AllStarted, MarkReady, DrainEnds, StartNext, Unwind, CloseSessions
<1>5. CASE ResetSteps BY <1>5 DEF ResetSteps, ResetNext, ResetCompletes, sessionVars
<1>6. ASSUME NEW a \in Agent, OpenSettles(a) \/ CloseSettles(a) \/ OpensAnother(a) PROVE LanesStep
  BY <1>6, AgentStepLanes
<1>7. ASSUME NEW a \in Agent, TurnStep(a) PROVE LanesStep BY <1>7, TurnLanes
<1>8. ASSUME NEW l \in Launch, CliDies(l) \/ ClosesLate(l) PROVE LanesStep
  BY <1>8 DEF CliDies, ClosesLate
<1>9. CASE LedgerNext
  <2>1. ASSUME NEW k, Mutates(k) PROVE LanesStep BY <2>1 DEF Mutates, sessionVars
  <2> QED
    BY <1>9, <2>1
    DEF LedgerNext, RestartCommand, RestartRefused, ResetCommand, ResetNext, ResetCompletes,
        RememberMemory, RememberIdentity, SupersedeMemory, RetractMemory, SupersedeIdentity,
        RetractIdentity, sessionVars
<1> QED BY <1>1, <1>2, <1>3, <1>4, <1>5, <1>6, <1>7, <1>8, <1>9 DEF Next

LEMMA LaneStepInvariant ==
    ASSUME SessionType, LaneInvariant, StepRegistry, LanesStep PROVE LaneInvariant'
<1> USE DEF LaneInvariant, LaneType
<1>1. CASE Forgotten
  <2>1. NoLane \in [launch : {0} \cup Launch, pc : {"idle", "claimed", "active", "recovering"}]
        /\ NoLane.pc = "idle"
    BY DEF NoLane
  <2> QED BY <1>1, <2>1 DEF Forgotten, LifecycleIsCleared
<1>2. CASE ~Forgotten /\ UNCHANGED turnVars
  BY <1>2 DEF StepRegistry, LifecycleIsCleared, turnVars
<1>3. ASSUME NEW a \in Agent, LaneStep(a), ~Forgotten PROVE LaneInvariant'
  <2> DEFINE Lane == [launch : {0} \cup Launch, pc : {"idle", "claimed", "active", "recovering"}]
  <2>1. lane \in [Agent -> Lane] /\ lane[a] \in Lane OBVIOUS
  <2>2. NoLane \in Lane /\ NoLane.pc = "idle" BY DEF NoLane
  <2>3. \A l \in Launch : /\ registry'[l] \in {"reserved", "ready"} /\ l \in calling
                              => registry[l] \in {"reserved", "ready"}
                          /\ registry[l] # "none" => registry'[l] # "none"
    BY <1>3 DEF StepRegistry
  <2>4. ASSUME lane[a].pc # "active", calling' = calling, causal' = causal, NEW x \in Lane,
               lane' = [lane EXCEPT ![a] = x], x.pc = "claimed" => x.launch \in Launch, x.pc # "active"
        PROVE  LaneInvariant'
    <3>1. lane' \in [Agent -> Lane] /\ lane'[a] = x /\ \A b \in Agent : b # a => lane'[b] = lane[b]
      BY <2>1, <2>4
    <3>2. LaneType' BY <2>4, <3>1
    <3>3. LifecycleIsCleared'
      <4>1. ASSUME NEW k \in calling', registry'[k] \in {"reserved", "ready"}
            PROVE  \E b \in Agent : lane'[b] = [launch |-> k, pc |-> "active"]
        <5>1. k \in calling /\ registry[k] \in {"reserved", "ready"} BY <2>3, <2>4, <4>1
        <5>2. PICK b \in Agent : lane[b] = [launch |-> k, pc |-> "active"]
          BY <5>1 DEF LifecycleIsCleared
        <5>3. b # a BY <2>4, <5>2
        <5> QED BY <3>1, <5>2, <5>3
      <4> QED BY <4>1 DEF LifecycleIsCleared
    <3> QED BY <2>3, <2>4, <3>2, <3>3
  <2>5. CASE /\ lane[a].pc = "idle" /\ session[a] # 0
             /\ lane' = [lane EXCEPT ![a] = [launch |-> session[a], pc |-> "claimed"]]
             /\ UNCHANGED <<calling, causal>>
    <3>1. session[a] \in Launch BY <2>5 DEF SessionType
    <3>2. [launch |-> session[a], pc |-> "claimed"] \in Lane BY <3>1
    <3> QED BY <2>4, <2>5, <3>1, <3>2
  <2>6. CASE /\ lane[a].pc = "recovering" /\ lane' = [lane EXCEPT ![a] = NoLane]
             /\ UNCHANGED <<calling, causal>>
    BY <2>2, <2>4, <2>6
  <2>7. CASE Activate(a)
    <3>1. PICK l : l = lane[a].launch OBVIOUS
    <3>2. /\ lane[a].pc = "claimed" /\ l \in Launch /\ causal' = causal \cup {l}
          /\ calling' = IF registry[l] \in {"reserved", "ready"} THEN calling \cup {l} ELSE calling
      BY <2>7, <3>1 DEF Activate
    <3>3. /\ lane' \in [Agent -> Lane] /\ lane'[a] = [launch |-> l, pc |-> "active"]
          /\ \A b \in Agent : b # a => lane'[b] = lane[b]
      BY <2>1, <2>7, <3>1 DEF Activate
    <3>4. LaneType' BY <3>2, <3>3
    <3>5. LifecycleIsCleared'
      <4>1. ASSUME NEW k \in calling', registry'[k] \in {"reserved", "ready"}, k # l
            PROVE  \E b \in Agent : lane'[b] = [launch |-> k, pc |-> "active"]
        <5>1. k \in calling /\ registry[k] \in {"reserved", "ready"} BY <2>3, <3>2, <4>1
        <5>2. PICK b \in Agent : lane[b] = [launch |-> k, pc |-> "active"]
          BY <5>1 DEF LifecycleIsCleared
        <5>3. b # a BY <3>2, <5>2
        <5> QED BY <3>3, <5>2, <5>3
      <4> QED BY <3>3, <4>1 DEF LifecycleIsCleared
    <3> QED BY <2>3, <3>2, <3>4, <3>5
  <2>8. ASSUME Deactivate(a), NEW x \in Lane, x.pc \in {"idle", "recovering"},
               lane' = [lane EXCEPT ![a] = x]
        PROVE  LaneInvariant'
    <3>1. PICK l : l = lane[a].launch OBVIOUS
    <3>2. /\ lane[a].pc = "active" /\ l \in Launch /\ causal' = causal \ {l}
          /\ calling' = IF registry[l] \in {"reserved", "ready"} THEN calling \ {l} ELSE calling
      BY <2>8, <3>1 DEF Deactivate
    <3>3. lane' \in [Agent -> Lane] /\ lane'[a] = x /\ \A b \in Agent : b # a => lane'[b] = lane[b]
      BY <2>1, <2>8
    <3>4. LaneType' BY <2>8, <3>2, <3>3
    <3>5. LifecycleIsCleared'
      <4>1. ASSUME NEW k \in calling', registry'[k] \in {"reserved", "ready"}
            PROVE  \E b \in Agent : lane'[b] = [launch |-> k, pc |-> "active"]
        <5>1. k \in calling /\ registry[k] \in {"reserved", "ready"} BY <2>3, <3>2, <4>1
        <5>2. k # l BY <3>2, <4>1, <5>1
        <5>3. PICK b \in Agent : lane[b] = [launch |-> k, pc |-> "active"]
          BY <5>1 DEF LifecycleIsCleared
        <5>4. b # a BY <3>1, <5>2, <5>3
        <5> QED BY <3>3, <5>3, <5>4
      <4> QED BY <4>1 DEF LifecycleIsCleared
    <3> QED BY <2>3, <3>2, <3>4, <3>5
  <2>9. CASE Deactivate(a) /\ lane' = [lane EXCEPT ![a] = NoLane] BY <2>2, <2>8, <2>9
  <2>10. CASE Deactivate(a) /\ lane' = [lane EXCEPT ![a].pc = "recovering"]
    <3> DEFINE x == [lane[a] EXCEPT !.pc = "recovering"]
    <3>1. x \in Lane /\ x.pc = "recovering" /\ lane' = [lane EXCEPT ![a] = x] BY <2>1, <2>10
    <3> HIDE DEF x
    <3> QED BY <2>8, <2>10, <3>1
  <2> QED BY <1>3, <2>5, <2>6, <2>7, <2>9, <2>10 DEF LaneStep
<1> QED BY <1>1, <1>2, <1>3 DEF LanesStep

LEMMA InitLanes == ASSUME SessionInit PROVE LaneInvariant
BY DEF SessionInit, LaneInvariant, LaneType, NoLane, LifecycleIsCleared

----------------------------------------------------------------------------
(* The receipts of the commands                                              *)

Receipt == [kind : {"none", "restart", "reset", "mutation"}, agent : {0} \cup Agent,
            done : BOOLEAN, before : Nat]

LedgerType == receipts \in [Key -> Receipt] /\ flights \subseteq Key

\* A restart was accepted for an agent, after the launches that were there.
RestartsKnown ==
    \A k \in Key : receipts[k].kind = "restart" =>
        receipts[k].agent \in Agent /\ receipts[k].before <= Len(rows)

\* A flight waits for a restart of its agent, and what that starts is new to it.
InFlight(k) ==
    LET a == receipts[k].agent IN
    /\ receipts[k].kind = "restart" /\ op[a].by = "restart"
    /\ op[a].pc = "opening" => receipts[k].before < op[a].launch

LedgerInvariant ==
    /\ LedgerType /\ ResetType /\ RestartsKnown /\ RestartsAreReal
    /\ \A k \in flights : InFlight(k)

LEMMA MaxFromZero ==
    ASSUME NEW n \in Nat, NEW R \in SUBSET (1..n)
    PROVE  /\ Max({0} \cup R) \in {0} \cup R
           /\ \A y \in R : y <= Max({0} \cup R)
<1> DEFINE S == {0} \cup R
<1>1. \E x \in S : \A y \in S : x >= y
  <2>1. CASE R = {} BY <2>1
  <2>2. CASE R # {}
    <3>1. PICK x \in R : \A y \in R : y <= x BY <2>2, GreatestNumber
    <3>2. x \in 1..n /\ \A y \in R : y \in 1..n OBVIOUS
    <3>3. x >= 0 /\ \A y \in R : x >= y BY <3>1, <3>2
    <3> QED BY <3>3
  <2> QED BY <2>1, <2>2
<1>2. Max(S) \in S /\ \A y \in S : Max(S) >= y BY <1>1 DEF Max
<1>3. \A y \in S : y \in 0..n OBVIOUS
<1> HIDE DEF S
<1>4. \A y \in S : y <= Max(S) BY <1>2, <1>3
<1> QED BY <1>2, <1>4 DEF S

LEMMA LatestReadyIs ==
    ASSUME SessionType, NEW a
    PROVE  /\ LatestReady(a) = Max({0} \cup Recorded(a))
           /\ LatestReady(a) \in {0} \cup Recorded(a)
           /\ \A l \in Recorded(a) : l <= LatestReady(a)
           /\ LatestReady(a) \in Nat /\ LatestReady(a) <= Len(rows)
<1>1. {l \in DOMAIN rows : rows[l].agent = a /\ rows[l].native # 0} = Recorded(a)
  BY DEF Recorded, Mine
<1>2. LatestReady(a) = Max({0} \cup Recorded(a)) BY <1>1 DEF LatestReady
<1>3. Recorded(a) \in SUBSET (1..Len(rows)) /\ Len(rows) \in Nat BY RowFacts
<1>4. LatestReady(a) \in {0} \cup Recorded(a) /\ \A l \in Recorded(a) : l <= LatestReady(a)
  BY <1>2, <1>3, MaxFromZero
<1>5. LatestReady(a) \in Nat /\ LatestReady(a) <= Len(rows) BY <1>3, <1>4
<1> QED BY <1>2, <1>4, <1>5

\* A launch that has become ready is no later than the latest.
LEMMA ReadyAfterStep ==
    ASSUME SessionType', NEW a
    PROVE  /\ \A l \in Recorded(a)' : l <= LatestReady(a)'
           /\ LatestReady(a)' \in Nat
<1>1. {l \in DOMAIN rows' : rows'[l].agent = a /\ rows'[l].native # 0} = Recorded(a)'
  BY DEF Recorded, Mine
<1>2. LatestReady(a)' = Max({0} \cup Recorded(a)') BY <1>1 DEF LatestReady
<1>3. Len(rows') \in Nat /\ DOMAIN rows' = 1..Len(rows') BY DEF SessionType
<1>4. Recorded(a)' \in SUBSET (1..Len(rows')) BY <1>1, <1>3
<1>5. /\ LatestReady(a)' \in {0} \cup Recorded(a)' /\ \A l \in Recorded(a)' : l <= LatestReady(a)'
  BY <1>2, <1>3, <1>4, MaxFromZero
<1> QED BY <1>3, <1>4, <1>5

LEMMA LatestReadyGrows ==
    ASSUME SessionType, SessionType', StepRows, NEW a PROVE LatestReady(a) <= LatestReady(a)'
<1>1. Recorded(a) \subseteq Recorded(a)'
  <2>1. DOMAIN rows = 1..Len(rows) /\ DOMAIN rows' = 1..Len(rows') BY DEF SessionType
  <2>2. Len(rows) \in Nat /\ Len(rows') \in Nat BY DEF SessionType
  <2>3. DOMAIN rows \subseteq DOMAIN rows' BY <2>1, <2>2 DEF StepRows
  <2> QED BY <2>3 DEF Recorded, Mine, StepRows
<1>2. LatestReady(a) = 0 \/ LatestReady(a) \in Recorded(a)' BY <1>1, LatestReadyIs
<1>3. LatestReady(a)' \in Nat /\ \A l \in Recorded(a)' : l <= LatestReady(a)' BY ReadyAfterStep
<1> QED BY <1>2, <1>3

\* While a launch opens, no later one of its agent has become ready.
LEMMA OpeningIsNew ==
    ASSUME SessionInvariant, NEW a \in Agent, op[a].pc = "opening"
    PROVE  LatestReady(a) < op[a].launch
<1>1. SessionType /\ Latest(a, op[a].launch) /\ op[a].launch \in Launch /\ rows[op[a].launch].native = 0
  BY Awaiting DEF SessionInvariant, AgentInvariant, Underway
<1>2. \A l \in Recorded(a) : l <= op[a].launch /\ l # op[a].launch BY <1>1 DEF Recorded, Latest
<1>3. LatestReady(a) \in Nat /\ (LatestReady(a) = 0 \/ LatestReady(a) \in Recorded(a))
  BY <1>1, LatestReadyIs
<1>4. op[a].launch \in Nat /\ op[a].launch # 0 BY <1>1, OrderFacts
<1> QED BY <1>2, <1>3, <1>4

LEMMA OpensReady ==
    ASSUME SessionInvariant, SessionInvariant', NEW a \in Agent, Opens(a)
    PROVE  op[a].launch <= LatestReady(a)'
<1>1. PICK l : l = op[a].launch OBVIOUS
<1>2. SessionType /\ SessionType' /\ AgentInvariant(a)' BY DEF SessionInvariant
<1>3. session'[a] = l BY <1>1, <1>2 DEF Opens, SessionType
<1>4. l \in Launch BY <1>1, Awaiting DEF Opens
<1>5. Latest(a, l)' /\ rows'[l].native # 0 BY <1>2, <1>3, <1>4, OrderFacts DEF AgentInvariant, Backed
<1>6. l \in Recorded(a)' BY <1>5 DEF Recorded, Latest
<1> QED BY <1>1, <1>2, <1>6, ReadyAfterStep

----------------------------------------------------------------------------

\* What a step may do to a receipt, of the agent a.
ReceiptStep(k, a) ==
    \/ receipts'[k].kind # "restart"
    \/ /\ receipts'[k].kind = receipts[k].kind /\ a = receipts[k].agent
       /\ receipts'[k].before = receipts[k].before
       /\ receipts'[k].done => receipts[k].done \/ LatestReady(a)' > receipts[k].before
    \/ a \in Agent /\ ~receipts'[k].done /\ receipts'[k].before = LatestReady(a)

LEMMA ReceiptsInvariant ==
    ASSUME SessionInvariant, SessionInvariant', SessionStep, LedgerInvariant,
           receipts' \in [Key -> Receipt], flights' \subseteq Key, ResetType',
           \A k \in Key : \A a : a = receipts'[k].agent => ReceiptStep(k, a), \A k \in flights' : InFlight(k)'
    PROVE  LedgerInvariant'
<1>1. SessionType /\ SessionType' /\ StepRows BY RowsAndRegistrations DEF SessionInvariant
<1>2. Len(rows) \in Nat /\ Len(rows') \in Nat /\ Len(rows) <= Len(rows')
  BY <1>1 DEF SessionType, StepRows
<1>3. ASSUME NEW k \in Key, receipts'[k].kind = "restart", NEW a, a = receipts'[k].agent
      PROVE  /\ a \in Agent /\ receipts'[k].before <= Len(rows')
             /\ receipts'[k].done => LatestReady(a)' > receipts'[k].before
  <2>1. receipts'[k].before \in Nat /\ receipts[k].before \in Nat BY DEF LedgerInvariant, LedgerType, Receipt
  <2>2. /\ LatestReady(a) \in Nat /\ LatestReady(a)' \in Nat
        /\ LatestReady(a) <= LatestReady(a)' /\ LatestReady(a) <= Len(rows)
    BY <1>1, LatestReadyIs, ReadyAfterStep, LatestReadyGrows
  <2>3. CASE /\ receipts'[k].kind = receipts[k].kind /\ a = receipts[k].agent
             /\ receipts'[k].before = receipts[k].before
             /\ receipts'[k].done => receipts[k].done \/ LatestReady(a)' > receipts[k].before
    <3>1. a \in Agent /\ receipts[k].before <= Len(rows)
      BY <1>3, <2>3 DEF LedgerInvariant, RestartsKnown
    <3>2. receipts[k].done => LatestReady(a) > receipts[k].before
      BY <1>3, <2>3 DEF LedgerInvariant, RestartsAreReal
    <3>3. receipts[k].done => LatestReady(a)' > receipts[k].before
      BY <2>1, <2>2, <3>2
    <3> QED BY <1>2, <2>1, <2>3, <3>1, <3>3
  <2>4. CASE /\ a \in Agent /\ ~receipts'[k].done /\ receipts'[k].before = LatestReady(a)
    BY <1>2, <2>1, <2>2, <2>4
  <2> QED BY <1>3, <2>3, <2>4 DEF ReceiptStep
<1>4. RestartsKnown' BY <1>3 DEF RestartsKnown
<1>5. RestartsAreReal' BY <1>3 DEF RestartsAreReal
<1> QED BY <1>4, <1>5 DEF LedgerInvariant, LedgerType

\* A flight goes on while the restart it waits for does.
LEMMA FlightGoesOn ==
    ASSUME SessionInvariant, SessionStep, LedgerInvariant, NEW k \in flights,
           receipts'[k].kind = receipts[k].kind, receipts'[k].agent = receipts[k].agent,
           receipts'[k].before = receipts[k].before, op'[receipts[k].agent].by = "restart"
    PROVE  InFlight(k)'
<1> DEFINE a == receipts[k].agent
<1>1. k \in Key /\ receipts[k].kind = "restart" /\ InFlight(k)
  BY DEF LedgerInvariant, LedgerType, InFlight
<1>2. a \in Agent /\ receipts[k].before <= Len(rows) /\ receipts[k].before \in Nat
  BY <1>1 DEF LedgerInvariant, RestartsKnown, LedgerType, Receipt
<1>3. Len(rows) \in Nat BY RowFacts DEF SessionInvariant
<1>4. op'[a].pc = "opening" => \/ op[a].pc = "opening" /\ op'[a].launch = op[a].launch
                               \/ op'[a].launch > Len(rows)
  <2>1. StepRestart(a) BY <1>2, RestartsGoOn
  <2>2. op'[a] # NoOp BY DEF NoOp
  <2>3. ~Forgotten BY <1>2, <2>2 DEF Forgotten
  <2> QED BY <1>1, <2>1, <2>2, <2>3 DEF StepRestart, InFlight
<1>5. op'[a].pc = "opening" => op'[a].launch \in Nat
  <2>1. SessionInvariant' BY SessionStepInvariant
  <2>2. op'[a] \in Op BY <1>2, <2>1 DEF SessionInvariant, SessionType
  <2> QED BY <2>2, OrderFacts DEF Op
<1>6. op'[a].pc = "opening" => receipts[k].before < op'[a].launch
  BY <1>1, <1>2, <1>3, <1>4, <1>5 DEF InFlight
<1> QED BY <1>1, <1>6 DEF InFlight

----------------------------------------------------------------------------
(* The steps that have to do with commands                                   *)

\* No restart ends in the step.
RestartsStay == \A b \in Agent : op[b].by = "restart" => op'[b].by = "restart"

SameReceipt(k) ==
    /\ receipts'[k].kind = receipts[k].kind /\ receipts'[k].agent = receipts[k].agent
    /\ receipts'[k].before = receipts[k].before /\ receipts'[k].done = receipts[k].done

LEMMA NoFlightEnds ==
    ASSUME SessionInvariant, SessionStep, LedgerInvariant, RestartsStay, NEW k \in flights,
           SameReceipt(k)
    PROVE  InFlight(k)'
<1>1. k \in Key /\ receipts[k].kind = "restart" /\ op[receipts[k].agent].by = "restart"
  BY DEF LedgerInvariant, LedgerType, InFlight
<1>2. receipts[k].agent \in Agent BY <1>1 DEF LedgerInvariant, RestartsKnown
<1>3. op'[receipts[k].agent].by = "restart" BY <1>1, <1>2 DEF RestartsStay
<1> QED BY <1>3, FlightGoesOn DEF SameReceipt

\* The receipts are as they were.
LEMMA NoCommand ==
    ASSUME SessionInvariant, SessionStep, LedgerInvariant, receipts' = receipts,
           (flights' = flights /\ RestartsStay) \/ flights' = {}, ResetType'
    PROVE  LedgerInvariant'
<1>1. SessionInvariant' BY SessionStepInvariant
<1>2. receipts' \in [Key -> Receipt] /\ flights' \subseteq Key BY DEF LedgerInvariant, LedgerType
<1>3. \A k \in Key : \A a : a = receipts'[k].agent => ReceiptStep(k, a) BY DEF ReceiptStep
<1>4. \A k \in flights' : InFlight(k)' BY NoFlightEnds DEF SameReceipt
<1> QED BY <1>1, <1>2, <1>3, <1>4, ReceiptsInvariant

\* A command that leaves the sessions alone is begun or completed; it is no restart
\* that is done.
LEMMA OneReceipt ==
    ASSUME SessionInvariant, UNCHANGED core, LedgerInvariant, NEW k \in Key, NEW r \in Receipt,
           receipts' = [receipts EXCEPT ![k] = r], receipts[k].kind # "restart",
           r.kind = "restart" => r.agent \in Agent /\ ~r.done /\ r.before = LatestReady(r.agent),
           flights' = flights, ResetType'
    PROVE  LedgerInvariant'
<1>1. SessionStep /\ SessionInvariant' BY SessionStepInvariant DEF SessionStep
<1>2. receipts \in [Key -> Receipt] /\ flights \subseteq Key BY DEF LedgerInvariant, LedgerType
<1>3. /\ receipts' \in [Key -> Receipt] /\ receipts'[k] = r
      /\ \A j \in Key : j # k => receipts'[j] = receipts[j]
  BY <1>2
<1>4. ASSUME NEW j \in Key, NEW a, a = receipts'[j].agent PROVE ReceiptStep(j, a)
  BY <1>3, <1>4 DEF ReceiptStep
<1>5. ASSUME NEW j \in flights' PROVE InFlight(j)'
  <2>1. j \in flights /\ j # k /\ j \in Key BY <1>2 DEF LedgerInvariant, InFlight
  <2>2. SameReceipt(j) BY <1>3, <2>1 DEF SameReceipt
  <2>3. RestartsStay BY DEF RestartsStay, core
  <2> QED BY <1>1, <2>1, <2>2, <2>3, NoFlightEnds
<1> QED BY <1>1, <1>2, <1>3, <1>4, <1>5, ReceiptsInvariant

\* The reset under way stays what it is when another command is begun.
LEMMA ResetStays ==
    ASSUME ResetType, receipts \in [Key -> Receipt], NEW k \in Key, NEW r,
           receipts' = [receipts EXCEPT ![k] = r], r.kind = receipts[k].kind \/ receipts[k].kind = "none",
           reset' = reset
    PROVE  ResetType'
<1>1. \A j \in Key : receipts[j].kind = "reset" => receipts'[j].kind = "reset" OBVIOUS
<1> QED BY <1>1 DEF ResetType

\* What a command begins with.
LEMMA Begun ==
    ASSUME SessionInvariant, NEW k, NEW kind \in {"restart", "reset", "mutation"}, NEW a,
           a = 0 \/ a \in Agent, kind = "restart" => a \in Agent, NEW done \in BOOLEAN,
           kind = "restart" => ~done, Begin(k, kind, a, done)
    PROVE  \E r \in Receipt :
              /\ receipts' = [receipts EXCEPT ![k] = r] /\ receipts[k].kind = "none"
              /\ r.kind = kind /\ r.agent = a
              /\ r.kind = "restart" => r.agent \in Agent /\ ~r.done /\ r.before = LatestReady(r.agent)
<1> DEFINE r == [kind |-> kind, agent |-> a, done |-> done,
                 before |-> IF kind = "restart" THEN LatestReady(a) ELSE 0]
<1>1. receipts' = [receipts EXCEPT ![k] = r] /\ receipts[k].kind = "none" BY DEF Begin
<1>2. LatestReady(a) \in Nat BY LatestReadyIs DEF SessionInvariant
<1>3. r \in Receipt BY <1>2 DEF Receipt
<1>4. r.kind = kind /\ r.agent = a /\ r.done = done /\ (kind = "restart" => r.before = LatestReady(a))
  OBVIOUS
<1> HIDE DEF r
<1> QED BY <1>1, <1>3, <1>4

LEMMA MutationInvariant ==
    ASSUME SessionInvariant, LedgerInvariant, NEW k \in Key, Mutates(k) PROVE LedgerInvariant'
<1>1. UNCHANGED core /\ flights' = flights /\ reset' = reset
  BY DEF Mutates, core, sessionVars, rowVars, managerVars
<1>2. PICK r \in Receipt : /\ receipts' = [receipts EXCEPT ![k] = r] /\ receipts[k].kind = "none"
                           /\ r.kind = "mutation"
  <2>1. \E done \in BOOLEAN : Begin(k, "mutation", 0, done) BY DEF Mutates
  <2>2. \E r \in Receipt : /\ receipts' = [receipts EXCEPT ![k] = r] /\ receipts[k].kind = "none"
                           /\ r.kind = "mutation"
    BY <2>1, Begun
  <2> QED BY <2>2
<1>3. ResetType' BY <1>1, <1>2, ResetStays DEF LedgerInvariant, LedgerType
<1> QED BY <1>1, <1>2, <1>3, OneReceipt

LEMMA RefusedInvariant ==
    ASSUME SessionInvariant, LedgerInvariant, NEW k \in Key, NEW a \in Agent, RestartRefused(k, a)
    PROVE  LedgerInvariant'
<1>1. UNCHANGED core /\ flights' = flights /\ reset' = reset
  BY DEF RestartRefused, core, sessionVars, rowVars, managerVars
<1>2. PICK r \in Receipt : /\ receipts' = [receipts EXCEPT ![k] = r] /\ receipts[k].kind = "none"
                           /\ r.kind = "restart" => r.agent \in Agent /\ ~r.done
                                                    /\ r.before = LatestReady(r.agent)
  <2>1. \E done \in BOOLEAN : done = FALSE /\ Begin(k, "restart", a, done) BY DEF RestartRefused
  <2> QED BY <2>1, Begun
<1>3. ResetType' BY <1>1, <1>2, ResetStays DEF LedgerInvariant, LedgerType
<1> QED BY <1>1, <1>2, <1>3, OneReceipt

LEMMA ResetCommandInvariant ==
    ASSUME SessionInvariant, LedgerInvariant, NEW k \in Key, ResetCommand(k)
    PROVE  LedgerInvariant'
<1>1. UNCHANGED core /\ flights' = flights
  BY DEF ResetCommand, core, sessionVars, rowVars, managerVars
<1>2. receipts \in [Key -> Receipt] /\ receipts[k] \in Receipt BY DEF LedgerInvariant, LedgerType
<1>3. PICK r \in Receipt : /\ receipts' = [receipts EXCEPT ![k] = r] /\ receipts[k].kind # "restart"
                           /\ r.kind = "reset"
  <2>1. CASE Begin(k, "reset", 0, ~news)
    <3>0. \E done \in BOOLEAN : Begin(k, "reset", 0, done) BY <2>1
    <3>1. \E r \in Receipt : /\ receipts' = [receipts EXCEPT ![k] = r] /\ receipts[k].kind = "none"
                             /\ r.kind = "reset"
      BY <3>0, Begun
    <3> QED BY <3>1
  <2>2. CASE receipts[k].kind = "reset" /\ receipts' = [receipts EXCEPT ![k].done = ~news]
    <3> DEFINE r == [receipts[k] EXCEPT !.done = ~news]
    <3>1. r \in Receipt /\ r.kind = "reset" BY <1>2, <2>2 DEF Receipt
    <3>2. receipts' = [receipts EXCEPT ![k] = r] BY <2>2
    <3> HIDE DEF r
    <3> QED BY <2>2, <3>1, <3>2
  <2> QED BY <2>1, <2>2 DEF ResetCommand
<1>4. receipts'[k].kind = "reset" BY <1>2, <1>3
<1>5. AgentOrder \in Seq(Agent) BY OrderAssumption DEF Agent
<1>6. reset' = IF news THEN [pc |-> "next", key |-> k, left |-> AgentOrder] ELSE NoReset
  BY DEF ResetCommand
<1>7. ResetType' BY <1>4, <1>5, <1>6 DEF ResetType, NoReset
<1> QED BY <1>1, <1>3, <1>7, OneReceipt

LEMMA ResetCompletesInvariant ==
    ASSUME SessionInvariant, LedgerInvariant, ResetCompletes, UNCHANGED core PROVE LedgerInvariant'
<1> DEFINE k == reset.key
           r == [receipts[k] EXCEPT !.done = TRUE]
<1>1. k \in Key /\ receipts[k].kind = "reset" BY DEF ResetCompletes, LedgerInvariant, ResetType
<1>2. receipts \in [Key -> Receipt] /\ receipts[k] \in Receipt BY <1>1 DEF LedgerInvariant, LedgerType
<1>3. r \in Receipt /\ r.kind = "reset" BY <1>1, <1>2 DEF Receipt
<1>4. receipts' = [receipts EXCEPT ![k] = r] /\ flights' = flights BY DEF ResetCompletes
<1>5. ResetType' BY DEF ResetCompletes, ResetType, NoReset
<1> HIDE DEF r, k
<1> QED BY <1>1, <1>3, <1>4, <1>5, OneReceipt

\* The restart begins, or joins the one under way.
LEMMA BeginsOrJoins ==
    ASSUME SessionInvariant, NEW a \in Agent,
           (Restarting(a) /\ UNCHANGED sessionVars) \/ (~Restarting(a) /\ BeginRestart(a))
    PROVE  /\ SessionStep /\ RestartsStay /\ op'[a].by = "restart"
           /\ op'[a].pc = "opening" => LatestReady(a) < op'[a].launch
<1>1. SessionType /\ op \in [Agent -> Op] BY DEF SessionInvariant, SessionType
<1>2. LatestReady(a) \in Nat /\ LatestReady(a) <= Len(rows) /\ Len(rows) \in Nat
  BY <1>1, LatestReadyIs, RowFacts
<1>3. CASE Restarting(a) /\ UNCHANGED sessionVars
  BY <1>3, OpeningIsNew
  DEF Restarting, RestartsStay, SessionStep, core, sessionVars, rowVars, managerVars
<1>4. CASE ~Restarting(a) /\ BeginRestart(a)
  <2>1. SessionStep /\ AgentStep(a) BY <1>4 DEF SessionStep, AgentStep
  <2>2. \A b \in Agent : b # a => op'[b] = op[b] BY <1>1, <2>1, OthersWait
  <2>3. CASE session[a] # 0
    <3>1. op'[a].by = "restart" /\ op'[a].pc = "stopping"
      BY <1>4, <2>3 DEF BeginRestart, StopManaged
    <3> QED BY <1>4, <2>1, <2>2, <3>1 DEF RestartsStay
  <2>4. CASE session[a] = 0
    <3>1. op'[a].by = "restart" /\ op'[a].launch = Len(rows) + 1
      BY <1>1, <1>4, <2>4 DEF BeginRestart, StartAgent
    <3> QED BY <1>2, <1>4, <2>1, <2>2, <3>1 DEF RestartsStay
  <2> QED BY <2>3, <2>4
<1> QED BY <1>3, <1>4

LEMMA RestartCommandInvariant ==
    ASSUME SessionInvariant, LedgerInvariant, NEW k \in Key, NEW a \in Agent, RestartCommand(k, a)
    PROVE  LedgerInvariant'
<1>1. /\ SessionStep /\ RestartsStay /\ op'[a].by = "restart"
      /\ op'[a].pc = "opening" => LatestReady(a) < op'[a].launch
  BY BeginsOrJoins DEF RestartCommand
<1>2. SessionInvariant' BY <1>1, SessionStepInvariant
<1>3. PICK r \in Receipt : /\ receipts' = [receipts EXCEPT ![k] = r] /\ receipts[k].kind = "none"
                           /\ r.kind = "restart" /\ r.agent = a
                           /\ ~r.done /\ r.before = LatestReady(a)
  <2>1. PICK r \in Receipt : /\ receipts' = [receipts EXCEPT ![k] = r] /\ receipts[k].kind = "none"
                             /\ r.kind = "restart" /\ r.agent = a
                             /\ r.kind = "restart" => r.agent \in Agent /\ ~r.done
                                                      /\ r.before = LatestReady(r.agent)
    <3>1. \E done \in BOOLEAN : done = FALSE /\ Begin(k, "restart", a, done) BY DEF RestartCommand
    <3> QED BY <3>1, Begun
  <2> QED BY <2>1
<1>4. receipts \in [Key -> Receipt] /\ flights \subseteq Key BY DEF LedgerInvariant, LedgerType
<1>5. /\ receipts' \in [Key -> Receipt] /\ receipts'[k] = r
      /\ \A j \in Key : j # k => receipts'[j] = receipts[j]
  BY <1>3, <1>4
<1>6. flights' = flights \cup {k} /\ reset' = reset BY DEF RestartCommand
<1>7. ResetType' BY <1>3, <1>4, <1>6, ResetStays DEF LedgerInvariant
<1>8. ASSUME NEW j \in Key, NEW b, b = receipts'[j].agent PROVE ReceiptStep(j, b)
  BY <1>3, <1>5, <1>8 DEF ReceiptStep
<1>9. ASSUME NEW j \in flights' PROVE InFlight(j)'
  <2>1. CASE j = k BY <1>1, <1>3, <1>5, <2>1 DEF InFlight
  <2>2. CASE j # k
    <3>1. j \in flights /\ SameReceipt(j) BY <1>4, <1>5, <1>6, <2>2 DEF SameReceipt
    <3> QED BY <1>1, <3>1, NoFlightEnds
  <2> QED BY <2>1, <2>2
<1>10. flights' \subseteq Key BY <1>4, <1>6
<1> QED BY <1>1, <1>2, <1>5, <1>7, <1>8, <1>9, <1>10, ReceiptsInvariant

LEMMA ResetNextInvariant ==
    ASSUME SessionInvariant, LedgerInvariant, ResetNext PROVE LedgerInvariant'
<1>1. ResetType /\ reset.left # <<>> /\ receipts' = receipts /\ flights' = flights
  BY DEF ResetNext, LedgerInvariant
<1>2. PICK a \in Agent : a = Head(reset.left) BY <1>1 DEF ResetType
<1>3. CASE ~ManagerReady
  <2>1. reset' = NoReset /\ UNCHANGED sessionVars BY <1>3 DEF ResetNext
  <2>2. SessionStep /\ RestartsStay
    BY <2>1 DEF SessionStep, RestartsStay, core, sessionVars, rowVars, managerVars
  <2>3. ResetType' BY <2>1 DEF ResetType, NoReset
  <2> QED BY <1>1, <2>2, <2>3, NoCommand
<1>4. CASE ManagerReady
  <2>1. /\ reset' = [reset EXCEPT !.pc = "waits"] /\ reset.pc = "next"
        /\ (Restarting(a) /\ UNCHANGED sessionVars) \/ (~Restarting(a) /\ BeginRestart(a))
    BY <1>2, <1>4 DEF ResetNext
  <2>2. SessionStep /\ RestartsStay BY <2>1, BeginsOrJoins
  <2>3. ResetType' BY <1>1, <2>1 DEF ResetType
  <2> QED BY <1>1, <2>2, <2>3, NoCommand
<1> QED BY <1>3, <1>4

\* Those that awaited the restart of an agent are told how it ended.
LEMMA SettleInvariant ==
    ASSUME SessionInvariant, LedgerInvariant, NEW a \in Agent, AgentStep(a),
           op[a].by = "restart", op'[a].pc = "none", Settle(a)
    PROVE  LedgerInvariant'
<1>1. SessionStep /\ SessionInvariant' BY SessionStepInvariant DEF SessionStep
<1>2. SessionType /\ SessionType' BY <1>1 DEF SessionInvariant
<1>3. receipts \in [Key -> Receipt] /\ flights \subseteq Key BY DEF LedgerInvariant, LedgerType
<1> DEFINE mine == {k \in flights : receipts[k].agent = a}
           won == session'[a] # 0
<1>4. /\ receipts' = [k \in Key |-> IF k \in mine THEN [receipts[k] EXCEPT !.done = won] ELSE receipts[k]]
      /\ flights' = flights \ mine
      /\ reset' = IF reset.pc = "waits" /\ Head(reset.left) = a
                  THEN IF won THEN [reset EXCEPT !.pc = "next", !.left = Tail(@)] ELSE NoReset
                  ELSE reset
  BY DEF Settle
<1>5. won \in BOOLEAN /\ (won => Opens(a))
  <2>1. StepRestart(a) BY <1>1, RestartsGoOn
  <2>2. op'[a] = NoOp BY <1>1 DEF SessionInvariant, AgentInvariant, Underway
  <2>3. Forgotten => ~won BY DEF Forgotten
  <2> QED BY <2>1, <2>2, <2>3 DEF StepRestart, NoOp
<1> HIDE DEF won
<1>6. \A k \in Key : /\ receipts'[k] \in Receipt
                     /\ receipts'[k].kind = receipts[k].kind /\ receipts'[k].agent = receipts[k].agent
                     /\ receipts'[k].before = receipts[k].before
                     /\ k \in mine => receipts'[k].done = won
                     /\ k \notin mine => receipts'[k].done = receipts[k].done
  <2> TAKE k \in Key
  <2>1. receipts[k] \in Receipt BY <1>3
  <2>2. receipts'[k] = IF k \in mine THEN [receipts[k] EXCEPT !.done = won] ELSE receipts[k] BY <1>4
  <2> HIDE DEF mine
  <2> QED BY <1>5, <2>1, <2>2 DEF Receipt
<1>7. receipts' \in [Key -> Receipt]
  <2>1. receipts' = [k \in Key |-> receipts'[k]] BY <1>4
  <2> QED BY <1>6, <2>1
<1>8. ASSUME NEW k \in Key, NEW b, b = receipts'[k].agent PROVE ReceiptStep(k, b)
  <2>1. CASE k \in mine /\ won
    <3>1. b = a /\ InFlight(k) /\ Opens(a) BY <1>5, <1>6, <1>8, <2>1 DEF LedgerInvariant
    <3>2. receipts[k].before < op[a].launch BY <2>1, <3>1 DEF InFlight, Opens
    <3>3. op[a].launch <= LatestReady(a)' BY <1>1, <3>1, OpensReady
    <3>4. LatestReady(a)' \in Nat /\ op[a].launch \in Nat /\ receipts[k].before \in Nat
      BY <1>2, <1>3, ReadyAfterStep, OrderFacts DEF SessionType, Op, Receipt
    <3>5. LatestReady(b)' > receipts[k].before BY <3>1, <3>2, <3>3, <3>4
    <3> QED BY <1>6, <1>8, <3>5 DEF ReceiptStep
  <2>2. CASE ~(k \in mine /\ won) BY <1>5, <1>6, <1>8, <2>2 DEF ReceiptStep
  <2> QED BY <2>1, <2>2
<1>9. ASSUME NEW k \in flights' PROVE InFlight(k)'
  <2>1. k \in flights /\ k \in Key /\ receipts[k].agent # a BY <1>3, <1>4
  <2>2. receipts[k].kind = "restart" /\ op[receipts[k].agent].by = "restart"
    BY <2>1 DEF LedgerInvariant, InFlight
  <2>3. receipts[k].agent \in Agent BY <2>1, <2>2 DEF LedgerInvariant, RestartsKnown
  <2>4. op'[receipts[k].agent] = op[receipts[k].agent] BY <1>2, <2>1, <2>3, OthersWait
  <2>5. op'[receipts[k].agent].by = "restart" BY <2>2, <2>4
  <2> QED BY <1>1, <1>6, <2>1, <2>5, FlightGoesOn
<1>10. ResetType'
  <2>1. ResetType BY DEF LedgerInvariant
  <2>2. CASE reset' = reset BY <1>6, <2>1, <2>2 DEF ResetType
  <2>3. CASE reset' = NoReset BY <2>3 DEF ResetType, NoReset
  <2>4. CASE reset.pc = "waits" /\ reset' = [reset EXCEPT !.pc = "next", !.left = Tail(@)]
    <3>1. reset.left \in Seq(Agent) /\ reset.left # <<>> BY <2>1, <2>4 DEF ResetType
    <3>2. Tail(reset.left) \in Seq(Agent) BY <3>1
    <3>3. /\ reset' \in [pc : {"none", "next", "waits"}, key : Key \cup {<<>>}, left : Seq(Agent)]
          /\ reset'.pc = "next" /\ reset'.key = reset.key
      BY <2>1, <2>4, <3>2 DEF ResetType
    <3> QED BY <1>6, <2>1, <2>4, <3>3 DEF ResetType
  <2> QED BY <1>4, <2>2, <2>3, <2>4
<1>11. flights' \subseteq Key BY <1>3, <1>4
<1> QED BY <1>1, <1>7, <1>8, <1>9, <1>10, <1>11, ReceiptsInvariant

LEMMA LedgerNextInvariant ==
    ASSUME SessionInvariant, LedgerInvariant, LedgerNext PROVE LedgerInvariant'
<1>1. CASE ResetCompletes
  <2>1. UNCHANGED core BY <1>1 DEF ResetCompletes, core, sessionVars, rowVars, managerVars
  <2> QED BY <1>1, <2>1, ResetCompletesInvariant
<1>2. CASE ResetNext BY <1>2, ResetNextInvariant
<1>3. ASSUME NEW k \in Key, NEW a \in Agent, RestartCommand(k, a) PROVE LedgerInvariant'
  BY <1>3, RestartCommandInvariant
<1>4. ASSUME NEW k \in Key, NEW a \in Agent, RestartRefused(k, a) PROVE LedgerInvariant'
  BY <1>4, RefusedInvariant
<1>5. ASSUME NEW k \in Key, ResetCommand(k) PROVE LedgerInvariant' BY <1>5, ResetCommandInvariant
<1>6. ASSUME NEW k \in Key, Mutates(k) PROVE LedgerInvariant' BY <1>6, MutationInvariant
<1> QED
  BY <1>1, <1>2, <1>3, <1>4, <1>5, <1>6
  DEF LedgerNext, RememberMemory, RememberIdentity, SupersedeMemory, RetractMemory,
      SupersedeIdentity, RetractIdentity

\* An answer that the manager awaited has come back.
LEMMA AwaitedInvariant ==
    ASSUME SessionInvariant, LedgerInvariant, NEW a \in Agent, AgentStep(a), Awaited(a)
    PROVE  LedgerInvariant'
<1>1. CASE op[a].by = "restart" /\ op'[a].pc = "none"
  BY <1>1, SettleInvariant DEF Awaited
<1>2. CASE ~(op[a].by = "restart" /\ op'[a].pc = "none")
  <2>1. UNCHANGED ledgerVars BY <1>2 DEF Awaited
  <2>2. SessionStep /\ SessionType BY DEF SessionStep, SessionInvariant
  <2>3. RestartsStay
    <3>1. ASSUME NEW b \in Agent, op[b].by = "restart" PROVE op'[b].by = "restart"
      <4>1. CASE b # a
        <5>1. op'[b] = op[b] BY <2>2, <4>1, OthersWait
        <5> QED BY <3>1, <5>1
      <4>2. CASE b = a
        <5>1. StepRestart(a) BY <2>2, RestartsGoOn
        <5>2. op'[a].pc # "none" BY <1>2, <3>1, <4>2
        <5>3. op'[a] # NoOp BY <5>2 DEF NoOp
        <5>4. ~Forgotten BY <5>3 DEF Forgotten
        <5> QED BY <3>1, <4>2, <5>1, <5>3, <5>4 DEF StepRestart
      <4> QED BY <4>1, <4>2
    <3> QED BY <3>1 DEF RestartsStay
  <2>4. ResetType' BY <2>1 DEF ledgerVars, LedgerInvariant, ResetType
  <2> QED BY <2>1, <2>2, <2>3, <2>4, NoCommand DEF ledgerVars
<1> QED BY <1>1, <1>2

\* No restart is under way, or what is awaited stays.
LEMMA ManagerGoesOn ==
    ASSUME SessionInvariant,
           Begins \/ RequestStop \/ Advance \/ UNCHANGED vars
           \/ \E l \in Launch : (CliDies(l) \/ ClosesLate(l)) /\ UNCHANGED ledgerVars
    PROVE  RestartsStay /\ UNCHANGED ledgerVars
<1>1. CASE Busy = {}
  <2>1. \A b \in Agent : op[b].by # "restart"
    BY <1>1 DEF Busy, SessionInvariant, AgentInvariant, Underway, NoOp
  <2> QED
    BY <2>1
    DEF RestartsStay, Begins, RequestStop, Advance, AllStarted, MarkReady, DrainEnds, vars
<1>2. CASE Busy # {}
  <2>1. op' = op /\ UNCHANGED ledgerVars
    BY <1>2
    DEF Begins, Boot, RequestStop, Advance, AllStarted, MarkReady, DrainEnds, StartNext, Unwind,
        CloseSessions, CliDies, ClosesLate, vars, sessionVars, managerVars
  <2> QED BY <2>1 DEF RestartsStay
<1> QED BY <1>1, <1>2

LEMMA TurnInvariant ==
    ASSUME SessionInvariant, LedgerInvariant, NEW a \in Agent, TurnStep(a) PROVE LedgerInvariant'
<1>1. receipts' = receipts /\ flights' = flights /\ reset' = reset BY DEF TurnStep, ledgerVars
<1>2. ResetType' BY <1>1 DEF LedgerInvariant, ResetType
<1>3. SessionStep /\ RestartsStay
  <2>1. CASE UNCHANGED core BY <2>1 DEF SessionStep, RestartsStay, core
  <2>2. CASE ~Restarting(a) /\ BeginRestart(a) BY <2>2, BeginsOrJoins
  <2>3. \/ UNCHANGED core
        \/ ~Restarting(a) /\ BeginRestart(a)
    <3>1. CASE TurnBreaks(a) BY <3>1 DEF TurnBreaks, core, rowVars, managerVars
    <3>2. CASE Resolve(a) \/ Activate(a) \/ TurnEnds(a) \/ Recovers(a)
      BY <3>2 DEF Resolve, Activate, TurnEnds, Recovers, core, rowVars, managerVars
    <3> QED BY <3>1, <3>2 DEF TurnStep
  <2> QED BY <2>1, <2>2, <2>3
<1> QED BY <1>1, <1>2, <1>3, NoCommand

LEMMA LedgerStepInvariant ==
    ASSUME SessionInvariant, LedgerInvariant, [Next]_vars PROVE LedgerInvariant'
<1>0. ResetType /\ SessionStep BY NextIsSessionStep DEF LedgerInvariant
<1>1. CASE Begins \/ RequestStop \/ Advance \/ UNCHANGED vars
           \/ \E l \in Launch : (CliDies(l) \/ ClosesLate(l)) /\ UNCHANGED ledgerVars
  <2>1. RestartsStay /\ UNCHANGED ledgerVars BY <1>1, ManagerGoesOn
  <2>2. ResetType' BY <1>0, <2>1 DEF ledgerVars, ResetType
  <2> QED BY <1>0, <2>1, <2>2, NoCommand DEF ledgerVars
<1>2. CASE Ends
  <2>1. receipts' = receipts /\ flights' = {} /\ reset' = NoReset BY <1>2 DEF Ends, LedgerForgets
  <2>2. ResetType' BY <2>1 DEF ResetType, NoReset
  <2> QED BY <1>0, <2>1, <2>2, NoCommand
<1>3. ASSUME NEW a \in Agent, OpenSettles(a) \/ CloseSettles(a) PROVE LedgerInvariant'
  <2>1. AgentStep(a) /\ Awaited(a) BY <1>3 DEF OpenSettles, CloseSettles, AgentStep
  <2> QED BY <2>1, AwaitedInvariant
<1>4. ASSUME NEW a \in Agent, TurnStep(a) PROVE LedgerInvariant' BY <1>4, TurnInvariant
<1>5. ASSUME NEW a \in Agent, OpensAnother(a), UNCHANGED ledgerVars PROVE LedgerInvariant'
  <2>1. RestartsStay
    <3>1. op \in [Agent -> Op] BY DEF SessionInvariant, SessionType
    <3>2. \A b \in Agent : op'[b].by = op[b].by BY <1>5, <3>1 DEF OpensAnother, Op
    <3> QED BY <3>2 DEF RestartsStay
  <2>2. ResetType' BY <1>0, <1>5 DEF ledgerVars, ResetType
  <2> QED BY <1>0, <1>5, <2>1, <2>2, NoCommand DEF ledgerVars
<1>6. CASE LedgerNext BY <1>6, LedgerNextInvariant
<1>7. CASE ResetSteps
  <2>1. LedgerNext BY <1>7 DEF ResetSteps, LedgerNext
  <2> QED BY <2>1, LedgerNextInvariant
<1> QED BY <1>1, <1>2, <1>3, <1>4, <1>5, <1>6, <1>7 DEF Next

LEMMA InitLedger == ASSUME Init PROVE LedgerInvariant
<1>1. NoReceipt \in Receipt /\ NoReceipt.kind = "none" BY DEF NoReceipt, Receipt
<1>2. receipts = [k \in Key |-> NoReceipt] /\ flights = {} /\ reset = NoReset
  BY DEF Init, LedgerInit
<1>3. receipts \in [Key -> Receipt] /\ \A k \in Key : receipts[k].kind = "none" BY <1>1, <1>2
<1> HIDE DEF Receipt
<1>4. ResetType
  <2>1. <<>> \in Seq(Agent) OBVIOUS
  <2> QED BY <1>2, <2>1 DEF ResetType, NoReset
<1> QED
  BY <1>2, <1>3, <1>4
  DEF LedgerInvariant, LedgerType, RestartsKnown, RestartsAreReal

----------------------------------------------------------------------------
(* The theorems                                                              *)

RuntimeInvariant == SessionInvariant /\ LaneInvariant /\ LedgerInvariant

LEMMA InitRuntime == Init => RuntimeInvariant
BY InitSessions, InitLanes, InitLedger DEF Init, RuntimeInvariant

LEMMA NextRuntime == ASSUME RuntimeInvariant, [Next]_vars PROVE RuntimeInvariant'
<1>1. SessionInvariant /\ LaneInvariant /\ LedgerInvariant BY DEF RuntimeInvariant
<1>2. SessionStep /\ SessionType
  BY <1>1, NextIsSessionStep DEF LedgerInvariant, SessionInvariant
<1>3. SessionInvariant' BY <1>1, <1>2, SessionStepInvariant
<1>4. LaneInvariant' BY <1>1, <1>2, RowsAndRegistrations, NextIsLanesStep, LaneStepInvariant
<1>5. LedgerInvariant' BY <1>1, LedgerStepInvariant
<1> QED BY <1>3, <1>4, <1>5 DEF RuntimeInvariant

LEMMA RuntimeIsInvariant == Spec => []RuntimeInvariant
<1>1. RuntimeInvariant /\ [Next]_vars => RuntimeInvariant' BY NextRuntime
<1> QED BY InitRuntime, <1>1, PTL DEF Spec

\* The rows, the registry, the processes and the manager's tables keep their shape,
\* and a flight has a receipt.
THEOREM TypeCorrect == Spec => []TypeOK
<1>1. RuntimeInvariant => TypeOK
  <2> SUFFICES ASSUME RuntimeInvariant PROVE TypeOK OBVIOUS
  <2>1. SessionType /\ LaneType /\ LedgerType /\ \A k \in flights : InFlight(k)
    BY DEF RuntimeInvariant, SessionInvariant, LaneInvariant, LedgerInvariant
  <2>2. flights \subseteq Accepted BY <2>1 DEF LedgerType, InFlight, Accepted
  <2> QED BY <2>1, <2>2 DEF TypeOK, SessionType, LaneType, Row, Op, Registration, Process
<1> QED BY RuntimeIsInvariant, <1>1, PTL

\* A session that the manager hands out has its rows, its registration and its
\* process, and nothing else is open or alive, for any agents, failures and crashes.
THEOREM SessionsAlwaysBacked == Spec => []SessionsAreBacked
<1>1. RuntimeInvariant => SessionsAreBacked
  <2> SUFFICES ASSUME RuntimeInvariant PROVE SessionsAreBacked OBVIOUS
  <2>1. SessionType /\ Unused /\ \A a \in Agent : AgentInvariant(a)
    BY DEF RuntimeInvariant, SessionInvariant
  <2>2. ASSUME NEW a \in Agent, session[a] # 0
        PROVE  LET l == session[a] IN
               /\ rows[l].agent = a /\ rows[l].instance = "ready" /\ rows[l].binding = "ready"
               /\ rows[l].native # 0 /\ registry[l] = "ready" /\ cli[l] \in {"live", "failed"}
    BY <2>1, <2>2 DEF AgentInvariant, Backed, Latest, Mine
  <2>3. \A l \in DOMAIN rows : rows[l].agent \in Agent /\ l \in Mine(rows[l].agent)
    BY <2>1, RowFacts DEF Row
  <2>4. ASSUME phase # "down", NEW l \in DOMAIN rows, Open(rows[l]) PROVE l \in Owned(rows[l].agent)
    BY <2>1, <2>3, <2>4 DEF AgentInvariant, Placed
  <2>5. ASSUME NEW l \in Launch, cli[l] = "live" PROVE l \in Owned(rows[l].agent)
    <3>1. l \in DOMAIN rows
      <4>1. Len(rows) \in Nat /\ l \in Nat /\ l # 0 /\ DOMAIN rows = 1..Len(rows)
        BY <2>1, RowFacts, OrderFacts
      <4>2. ~(l > Len(rows)) BY <2>1, <2>5 DEF Unused
      <4> QED BY <4>1, <4>2
    <3>2. session[rows[l].agent] = l BY <2>1, <2>3, <2>5, <3>1 DEF AgentInvariant, LiveIsSession
    <3> QED BY <3>2, OrderFacts DEF Owned
  <2>6. ASSUME phase = "closed", NEW a \in Agent PROVE Owned(a) = {}
    BY <2>1, <2>6 DEF AgentInvariant, Placed, Owned, NoOp
  <2> QED BY <2>2, <2>4, <2>5, <2>6 DEF SessionsAreBacked
<1> QED BY RuntimeIsInvariant, <1>1, PTL

\* No binding lets its model act after the Turn it was opened for.
THEOREM LifecyclesAlwaysCleared == Spec => []LifecycleIsCleared
<1>1. RuntimeInvariant => LifecycleIsCleared BY DEF RuntimeInvariant, LaneInvariant
<1> QED BY RuntimeIsInvariant, <1>1, PTL

\* A restart that was answered as done has happened, whoever began it.
THEOREM RestartsAlwaysReal == Spec => []RestartsAreReal
<1>1. RuntimeInvariant => RestartsAreReal BY DEF RuntimeInvariant, LedgerInvariant
<1> QED BY RuntimeIsInvariant, <1>1, PTL

\* An agent keeps its native session across restarts, crashes and runtimes, unless
\* something of it has failed in this one.
THEOREM ContinuityAlwaysKept == Spec => ContinuityIsKept
<1> DEFINE Keeps ==
      \A l \in DOMAIN rows :
         rows'[l].native # rows[l].native =>
             \/ LatestNative(rows[l].agent) \in {0, rows'[l].native}
             \/ rows[l].agent \in broken
<1>1. RuntimeInvariant /\ [Next]_vars => [Keeps]_vars
  <2> SUFFICES ASSUME RuntimeInvariant, [Next]_vars PROVE Keeps OBVIOUS
  <2>1. SessionInvariant /\ SessionStep
    BY NextIsSessionStep DEF RuntimeInvariant, LedgerInvariant
  <2>2. ASSUME NEW l \in DOMAIN rows, rows'[l].native # rows[l].native
        PROVE  \/ LatestNative(rows[l].agent) \in {0, rows'[l].native}
               \/ rows[l].agent \in broken
    <3>1. PICK a \in Agent : Opens(a) /\ l = op[a].launch
      BY <2>1, <2>2, RowsAndRegistrations DEF StepRows
    <3>2. /\ op[a].pc = "opening" /\ rows[l].agent = a /\ rows[l] \in Row
          /\ a \in broken \/ LatestNative(a) \in {0, op[a].resume}
      BY <2>1, <3>1, Awaiting, RowFacts DEF Opens, SessionInvariant, AgentInvariant, Resumes
    <3>3. rows'[l].native = IF op[a].resume # 0 THEN op[a].resume ELSE l
      <4> DEFINE native == IF op[a].resume # 0 THEN op[a].resume ELSE l
      <4>1. rows' = [rows EXCEPT ![l] = [rows[l] EXCEPT !.instance = "ready", !.binding = "ready", !.native = native]]
        BY <3>1 DEF Opens
      <4> HIDE DEF native
      <4>2. rows \in Seq(Row) /\ l \in DOMAIN rows BY <2>1 DEF SessionInvariant, SessionType
      <4>3. rows'[l].native = native BY <3>2, <4>1, <4>2 DEF Row
      <4> QED BY <4>3 DEF native
    <3> QED BY <3>2, <3>3
  <2> QED BY <2>2
<1> QED BY RuntimeIsInvariant, <1>1, PTL DEF Spec, ContinuityIsKept
=============================================================================
