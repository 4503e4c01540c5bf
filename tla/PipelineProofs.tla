--------------------------- MODULE PipelineProofs ---------------------------
(***************************************************************************)
(* What the metrics, the verdict and the ledger of a run tell, for any     *)
(* requests, plugins, outcomes and failing appends.                        *)
(***************************************************************************)
EXTENDS Pipeline, PlacesProofs

-----------------------------------------------------------------------------
(* Operators of the model.                                                 *)

\* A set of naturals has a least element, and Min is it.
LEMMA MinIsLeast ==
  ASSUME NEW S \in SUBSET Nat, S # {}
  PROVE  Min(S) \in S /\ \A y \in S : Min(S) <= y
<1>1. \E z \in S : \A y \in S : z <= y
  BY HasLeast
<1> QED BY <1>1, Zenon DEF Min

\* What find() comes back with, if there is any.
LEMMA FindsFirst ==
  ASSUME NEW S, NEW s \in Seq(S), NEW a, \E i \in 1..Len(s) : s[i].agent = a
  PROVE  \E place \in 1..Len(s) :
           /\ Find(s, a) = s[place] /\ s[place].agent = a
           /\ \A i \in 1..Len(s) : s[i].agent = a => place <= i
<1> DEFINE I == {i \in 1..Len(s) : s[i].agent = a}
<1>1. I \in SUBSET Nat /\ I # {}
  BY LenProperties
<1>2. Min(I) \in I /\ \A y \in I : Min(I) <= y
  BY <1>1, MinIsLeast
<1>3. Find(s, a) = s[Min(I)]
  BY <1>1, Zenon DEF Find, SelectInSeq
<1> QED BY <1>2, <1>3

\* An intent that is known calls for some agent, and they are all built in.
LEMMA SomeAgent ==
  ASSUME NEW kind \in IntentKind
  PROVE  /\ AgentsForIntent(kind) \subseteq AgentId
         /\ kind # "unknown" => AgentsForIntent(kind) # {}
BY DEF AgentsForIntent, IntentKind, AgentId, BuiltinPlugins, ToSet

-----------------------------------------------------------------------------
(* One plugin's turn.                                                      *)

Came == [agent : AgentId, outcome : Outcome]
Told == [agent : AgentId, success : BOOLEAN]
Result == [agent : AgentId, ok : BOOLEAN, injected : BOOLEAN, domain : BOOLEAN]

Fine(result) == result.ok /\ result.injected /\ result.domain

\* The plugin came back ok with a finding and the metrics say so.
Good(came, told) == came.outcome = "ok" /\ told.success

\* One line for each turn, and a success only if the plugin came back ok.
Tells(came, told) ==
  /\ Len(told) = Len(came)
  /\ \A k \in 1..Len(came) :
       /\ told[k].agent = came[k].agent
       /\ told[k].success => came[k].outcome \in {"ok", "bare"}

\* Of the results of a turn the first is ok exactly when the plugin came
\* back ok, some is not fine unless the turn was good, and all are fine if it
\* was.
Traces(came, told, pushed) ==
  /\ \A k \in 1..Len(came) :
       \E j \in 1..Len(pushed) :
         /\ pushed[j].agent = came[k].agent
         /\ \A i \in 1..Len(pushed) : pushed[i].agent = came[k].agent => j <= i
         /\ pushed[j].ok <=> came[k].outcome \in {"ok", "bare"}
  /\ \A k \in 1..Len(came) : ~Good(came[k], told[k]) =>
       \E j \in 1..Len(pushed) : pushed[j].agent = came[k].agent /\ ~Fine(pushed[j])
  /\ \A j \in 1..Len(pushed) :
       \E k \in 1..Len(came) :
         /\ pushed[j].agent = came[k].agent
         /\ Good(came[k], told[k]) => Fine(pushed[j])

\* A turn of an agent that had none yet keeps both.
LEMMA TurnTells ==
  ASSUME NEW came \in Seq(Came), NEW told \in Seq(Told), Tells(came, told),
         NEW c \in Came, NEW t \in Told, t.agent = c.agent,
         t.success => c.outcome \in {"ok", "bare"}
  PROVE  Tells(Append(came, c), Append(told, t))
<1>1. Len(came) \in Nat /\ Len(told) = Len(came)
  BY LenProperties DEF Tells
<1>2. /\ Len(Append(came, c)) = Len(came) + 1
      /\ \A i \in 1..Len(came) : Append(came, c)[i] = came[i]
      /\ Append(came, c)[Len(came) + 1] = c
  BY AppendProperties
<1>3. /\ Len(Append(told, t)) = Len(came) + 1
      /\ \A i \in 1..Len(came) : Append(told, t)[i] = told[i]
      /\ Append(told, t)[Len(came) + 1] = t
  BY <1>1, AppendProperties
<1>4. \A k \in 1..(Len(came) + 1) : k \in 1..Len(came) \/ k = Len(came) + 1
  BY <1>1
<1> QED BY <1>2, <1>3, <1>4 DEF Tells

LEMMA TurnTraces ==
  ASSUME NEW came \in Seq(Came), NEW told \in Seq(Told), NEW res \in Seq(Result),
         Len(told) = Len(came), Traces(came, told, res),
         NEW c \in Came, NEW t \in Told, NEW pushed \in Seq(Result),
         \A k \in 1..Len(came) : came[k].agent # c.agent,
         Len(pushed) > 0, \A j \in 1..Len(pushed) : pushed[j].agent = c.agent,
         pushed[1].ok <=> c.outcome \in {"ok", "bare"},
         ~Good(c, t) => \E j \in 1..Len(pushed) : ~Fine(pushed[j]),
         Good(c, t) => \A j \in 1..Len(pushed) : Fine(pushed[j])
  PROVE  Traces(Append(came, c), Append(told, t), res \o pushed)
<1> DEFINE came2 == Append(came, c)
           told2 == Append(told, t)
           res2 == res \o pushed
           n == Len(came)
           m == Len(res)
           p == Len(pushed)
<1>1. n \in Nat /\ m \in Nat /\ p \in Nat /\ p > 0
  BY LenProperties
<1>2. /\ Len(came2) = n + 1
      /\ \A i \in 1..n : came2[i] = came[i]
      /\ came2[n + 1] = c
  BY AppendProperties
<1>3. \A i \in 1..n : told2[i] = told[i]
  BY AppendProperties
<1>4. told2[n + 1] = t
  BY AppendProperties
<1>5. Len(res2) = m + p
  BY ConcatProperties
<1>6. \A i \in 1..m : i \in 1..m + p /\ res2[i] = res[i]
  BY <1>1, ConcatProperties
<1>7. \A i \in 1..p : m + i \in 1..m + p /\ res2[m + i] = pushed[i]
  <2> SUFFICES ASSUME NEW i \in 1..p PROVE m + i \in 1..m + p /\ res2[m + i] = pushed[i]
    OBVIOUS
  <2>1. m + i \in 1..m + p /\ ~(m + i <= m) /\ m + i - m = i
    BY <1>1
  <2>2. res2[m + i] = IF m + i <= m THEN res[m + i] ELSE pushed[m + i - m]
    BY <2>1, ConcatProperties
  <2> QED BY <2>1, <2>2
<1>8. \A j \in 1..m + p : j \in 1..m \/ \E i \in 1..p : j = m + i
  <2> SUFFICES ASSUME NEW j \in 1..m + p, j \notin 1..m PROVE \E i \in 1..p : j = m + i
    OBVIOUS
  <2>1. j - m \in 1..p /\ j = m + (j - m)
    BY <1>1
  <2> QED BY <2>1
<1>9. \A k \in 1..n + 1 : k \in 1..n \/ k = n + 1
  BY <1>1
<1>10. \A j \in 1..m : res[j].agent # c.agent
  <2> SUFFICES ASSUME NEW j \in 1..m PROVE res[j].agent # c.agent
    OBVIOUS
  <2>1. PICK k \in 1..n : res[j].agent = came[k].agent
    BY Zenon DEF Traces
  <2> QED BY <2>1
<1>11. \A k \in 1..n + 1 :
         \E j \in 1..m + p :
           /\ res2[j].agent = came2[k].agent
           /\ \A i \in 1..m + p : res2[i].agent = came2[k].agent => j <= i
           /\ res2[j].ok <=> came2[k].outcome \in {"ok", "bare"}
  <2> SUFFICES ASSUME NEW k \in 1..n + 1
               PROVE  \E j \in 1..m + p :
                        /\ res2[j].agent = came2[k].agent
                        /\ \A i \in 1..m + p : res2[i].agent = came2[k].agent => j <= i
                        /\ res2[j].ok <=> came2[k].outcome \in {"ok", "bare"}
    OBVIOUS
  <2>1. CASE k \in 1..n
    <3>1. PICK j \in 1..m :
            /\ res[j].agent = came[k].agent
            /\ \A i \in 1..m : res[i].agent = came[k].agent => j <= i
            /\ res[j].ok <=> came[k].outcome \in {"ok", "bare"}
      BY <2>1 DEF Traces
    <3>2. j \in 1..m + p /\ res2[j] = res[j] /\ came2[k] = came[k]
      BY <1>2, <1>6, <2>1
    <3>3. \A i \in 1..m + p : res2[i].agent = came2[k].agent => j <= i
      <4> SUFFICES ASSUME NEW i \in 1..m + p, res2[i].agent = came2[k].agent PROVE j <= i
        OBVIOUS
      <4>1. CASE i \in 1..m
        BY <1>6, <3>1, <3>2, <4>1
      <4>2. CASE i \notin 1..m
        BY <1>1, <4>2
      <4> QED BY <4>1, <4>2
    <3> HIDE DEF came2, res2
    <3> QED BY <3>1, <3>2, <3>3
  <2>2. CASE k = n + 1
    <3>1. m + 1 \in 1..m + p /\ res2[m + 1] = pushed[1] /\ came2[k] = c
      BY <1>1, <1>2, <1>7, <2>2
    <3>2. pushed[1].agent = c.agent
      BY <1>1
    <3>3. \A i \in 1..m + p : res2[i].agent = c.agent => m + 1 <= i
      BY <1>1, <1>6, <1>10
    <3> HIDE DEF came2, res2
    <3> QED BY <3>1, <3>2, <3>3
  <2> QED BY <1>9, <2>1, <2>2
<1>12. \A k \in 1..n + 1 : ~Good(came2[k], told2[k]) =>
         \E j \in 1..m + p : res2[j].agent = came2[k].agent /\ ~Fine(res2[j])
  <2> SUFFICES ASSUME NEW k \in 1..n + 1, ~Good(came2[k], told2[k])
               PROVE  \E j \in 1..m + p : res2[j].agent = came2[k].agent /\ ~Fine(res2[j])
    OBVIOUS
  <2>1. CASE k \in 1..n
    <3>1. came2[k] = came[k] /\ told2[k] = told[k]
      BY <1>2, <1>3, <2>1
    <3> HIDE DEF came2, told2, res2
    <3>2. ~Good(came[k], told[k])
      BY <3>1
    <3>3. PICK j \in 1..m : res[j].agent = came[k].agent /\ ~Fine(res[j])
      BY <2>1, <3>2 DEF Traces
    <3> QED BY <1>6, <3>1, <3>3
  <2>2. CASE k = n + 1
    <3>1. came2[k] = c /\ told2[k] = t
      BY <1>2, <1>4, <2>2
    <3> HIDE DEF came2, told2, res2
    <3>2. PICK j \in 1..p : ~Fine(pushed[j])
      BY <3>1
    <3> QED BY <1>7, <3>1, <3>2
  <2> QED BY <1>9, <2>1, <2>2
<1>13. \A j \in 1..m + p :
         \E k \in 1..n + 1 :
           /\ res2[j].agent = came2[k].agent
           /\ Good(came2[k], told2[k]) => Fine(res2[j])
  <2> SUFFICES ASSUME NEW j \in 1..m + p
               PROVE  \E k \in 1..n + 1 :
                        /\ res2[j].agent = came2[k].agent
                        /\ Good(came2[k], told2[k]) => Fine(res2[j])
    OBVIOUS
  <2>1. CASE j \in 1..m
    <3>1. PICK k \in 1..n : res[j].agent = came[k].agent /\ (Good(came[k], told[k]) => Fine(res[j]))
      BY <2>1 DEF Traces
    <3>2. k \in 1..n + 1 /\ came2[k] = came[k] /\ told2[k] = told[k] /\ res2[j] = res[j]
      BY <1>1, <1>2, <1>3, <1>6, <2>1
    <3> HIDE DEF came2, told2, res2
    <3> QED BY <3>1, <3>2
  <2>2. CASE \E i \in 1..p : j = m + i
    <3>1. PICK i \in 1..p : j = m + i
      BY <2>2
    <3>2. n + 1 \in 1..n + 1 /\ came2[n + 1] = c /\ told2[n + 1] = t /\ res2[j] = pushed[i]
      BY <1>1, <1>2, <1>4, <1>7, <3>1
    <3> HIDE DEF came2, told2, res2
    <3> QED BY <3>2
  <2> QED BY <1>8, <2>1, <2>2
<1> HIDE DEF came2, told2, res2
<1>14. Traces(came2, told2, res2)
  BY <1>2, <1>5, <1>11, <1>12, <1>13, Zenon DEF Traces
<1> QED BY <1>14 DEF came2, told2, res2

-----------------------------------------------------------------------------
(* The workflow.                                                           *)

\* The agents whose turn is over.
Gone(r) == {request[r].plugins[i] : i \in ShouldRun(r) \ todo[r]}

\* No plugin has had two turns, and those that had one are those that should
\* run and are not left.
Turned(r) ==
  /\ todo[r] \subseteq ShouldRun(r)
  /\ \A k \in 1..Len(returned[r]) : returned[r][k].agent \in Gone(r)
  /\ \A a \in Gone(r) : \E k \in 1..Len(returned[r]) : returned[r][k].agent = a
  /\ \A k, l \in 1..Len(returned[r]) : returned[r][k].agent = returned[r][l].agent => k = l

\* The array `ran' of runWorkflow() names the agent of each result.
Named(r) ==
  /\ Len(ran[r]) = Len(results[r])
  /\ \A j \in 1..Len(results[r]) : ran[r][j] = results[r][j].agent

Quiet(r) == returned[r] = <<>> /\ events[r] = <<>> /\ results[r] = <<>> /\ ran[r] = <<>>

Running(r) == pc[r] \in {"working", "persisting", "answered"}

FlowType ==
  /\ pc \in [Run -> {"new", "working", "persisting", "answered", "aborted", "rejected", "dead"}]
  /\ request \in Workloads
  /\ todo \in [Run -> SUBSET Nat]
  /\ results \in [Run -> Seq(Result)]
  /\ ran \in [Run -> Seq(AgentId)]
  /\ events \in [Run -> Seq(Told)]
  /\ returned \in [Run -> Seq(Came)]
  /\ DOMAIN skipped = Run /\ DOMAIN verdict = Run /\ DOMAIN ledger = Run

\* An aborted request has lost count, any other tells of the turns it took;
\* one whose workflow goes on or is done has its results traced to them.
RequestInv(r) ==
  /\ pc[r] = "new" => Quiet(r)
  /\ pc[r] # "aborted" => Tells(returned[r], events[r])
  /\ Running(r) =>
       /\ r \in DOMAIN request
       /\ Turned(r) /\ Named(r)
       /\ Traces(returned[r], events[r], results[r])
       /\ skipped[r] = {request[r].plugins[i] : i \in DOMAIN request[r].plugins \ ShouldRun(r)}
  /\ Over(r) => todo[r] = {}

FlowInv == FlowType /\ \A r \in Run : RequestInv(r)

\* What a request asks for.
LEMMA Asked ==
  ASSUME request \in Workloads, NEW r \in DOMAIN request
  PROVE  /\ r \in Run
         /\ request[r].kind \in IntentKind /\ request[r].context \in BOOLEAN
         /\ request[r].plugins \in Seq(AgentId)
         /\ DOMAIN request[r].plugins = 1..Len(request[r].plugins)
         /\ Len(request[r].plugins) \in Nat
         /\ \A i, k \in 1..Len(request[r].plugins) :
              request[r].plugins[i] = request[r].plugins[k] => i = k
         /\ ShouldRun(r) \subseteq 1..Len(request[r].plugins)
         /\ \A i \in ShouldRun(r) : request[r].plugins[i] \in AgentsForIntent(request[r].kind)
<1>1. r \in Run /\ request[r] \in Request
  BY PipelineAssumption
<1>2. request[r].plugins \in Plugins /\ request[r].kind \in IntentKind /\ request[r].context \in BOOLEAN
  BY <1>1 DEF Request
<1>3. request[r].plugins \in Seq(AgentId)
  BY <1>2 DEF Plugins
<1>4. /\ DOMAIN request[r].plugins = 1..Len(request[r].plugins)
      /\ Len(request[r].plugins) \in Nat
  BY <1>3, LenProperties
<1> QED BY <1>1, <1>2, <1>3, <1>4 DEF Plugins, ShouldRun

LEMMA FlowInit == Init => FlowInv
<1> SUFFICES ASSUME Init PROVE FlowInv
  OBVIOUS
<1>1. \A S : <<>> \in Seq(S) /\ Len(<<>>) = 0
  BY EmptySeq
<1>2. \A n \in 1..0 : FALSE
  OBVIOUS
<1>3. Tells(<<>>, <<>>)
  BY <1>1, <1>2 DEF Tells
<1>4. FlowType
  BY <1>1 DEF Init, FlowType
<1> QED BY <1>3, <1>4 DEF Init, FlowInv, RequestInv, Quiet, Running, Over

\* A step that leaves a request's own record alone.
LEMMA Bystander ==
  ASSUME NEW q \in Run, RequestInv(q), request' = request,
         pc'[q] = pc[q], todo'[q] = todo[q], results'[q] = results[q], ran'[q] = ran[q],
         skipped'[q] = skipped[q], events'[q] = events[q], returned'[q] = returned[q]
  PROVE  RequestInv(q)'
<1>1. /\ Quiet(q)' <=> Quiet(q)
      /\ Running(q)' <=> Running(q)
      /\ Over(q)' <=> Over(q)
      /\ Named(q)' <=> Named(q)
  BY DEF Quiet, Running, Over, Named
<1>2. ShouldRun(q)' = ShouldRun(q)
  BY DEF ShouldRun
<1>3. Turned(q)' <=> Turned(q)
  BY <1>2 DEF Turned, Gone
<1>4. Tells(returned[q], events[q])' <=> Tells(returned[q], events[q])
  BY DEF Tells
<1>5. Traces(returned[q], events[q], results[q])' <=> Traces(returned[q], events[q], results[q])
  OBVIOUS
<1> QED BY <1>1, <1>2, <1>3, <1>4, <1>5 DEF RequestInv

\* The plugin whose turn it is had none before.
LEMMA NextTurn ==
  ASSUME FlowInv, NEW r \in Run, pc[r] = "working", todo[r] # {}
  PROVE  /\ Min(todo[r]) \in ShouldRun(r) /\ Min(todo[r]) \in todo[r]
         /\ Turn(r) \in AgentId
         /\ Turn(r) = request[r].plugins[Min(todo[r])]
         /\ Turn(r) \notin Gone(r)
<1>1. request \in Workloads /\ r \in DOMAIN request /\ Turned(r) /\ todo[r] \in SUBSET Nat
  BY DEF FlowInv, RequestInv, FlowType, Running
<1>2. Min(todo[r]) \in todo[r]
  BY <1>1, MinIsLeast
<1>3. Min(todo[r]) \in ShouldRun(r)
  BY <1>1, <1>2 DEF Turned
<1>4. Turn(r) = request[r].plugins[Min(todo[r])]
  BY DEF Turn
<1>5. Turn(r) \in AgentId
  BY <1>1, <1>3, <1>4, Asked, ElementOfSeq
<1>6. Turn(r) \notin Gone(r)
  BY <1>1, <1>2, <1>3, <1>4, Asked DEF Gone
<1> QED BY <1>2, <1>3, <1>4, <1>5, <1>6

\* The turn that ends: its agent is gone, and what it came to is noted.
LEMMA TurnedStep ==
  ASSUME FlowInv, NEW r \in Run, NEW outcome \in Outcome, Settle(r, outcome),
         todo' = [todo EXCEPT ![r] = @ \ {Min(@)}]
  PROVE  /\ Turned(r)'
         /\ returned' \in [Run -> Seq(Came)] /\ todo' \in [Run -> SUBSET Nat]
         /\ returned'[r] = Append(returned[r], [agent |-> Turn(r), outcome |-> outcome])
         /\ \A k \in 1..Len(returned[r]) : returned[r][k].agent # Turn(r)
<1> DEFINE a == Turn(r)
           m == Min(todo[r])
           c == [agent |-> a, outcome |-> outcome]
           n == Len(returned[r])
<1>1. pc[r] = "working" /\ todo[r] # {} /\ request' = request
  BY DEF Settle
<1>2. /\ request \in Workloads /\ r \in DOMAIN request /\ Turned(r)
      /\ todo \in [Run -> SUBSET Nat] /\ returned \in [Run -> Seq(Came)]
  BY <1>1 DEF FlowInv, RequestInv, FlowType, Running
<1>3. m \in ShouldRun(r) /\ m \in todo[r] /\ a \in AgentId /\ a = request[r].plugins[m] /\ a \notin Gone(r)
  BY <1>1, NextTurn
<1>4. /\ todo' \in [Run -> SUBSET Nat]
      /\ todo'[r] = todo[r] \ {m}
  BY <1>2
<1>5. c \in Came
  BY <1>3 DEF Came
<1>6. /\ returned' \in [Run -> Seq(Came)]
      /\ returned'[r] = Append(returned[r], c)
  <2>1. returned' = [returned EXCEPT ![r] = Append(@, c)]
    BY DEF Settle
  <2>2. Append(returned[r], c) \in Seq(Came)
    BY <1>2, <1>5, AppendProperties
  <2> HIDE DEF c
  <2> QED BY <1>2, <2>1, <2>2
<1>7. n \in Nat /\ \A k \in 1..n + 1 : k \in 1..n \/ k = n + 1
  BY <1>2, LenProperties
<1>8. /\ Len(returned'[r]) = n + 1
      /\ \A k \in 1..n : returned'[r][k] = returned[r][k]
      /\ returned'[r][n + 1] = c
  BY <1>2, <1>5, <1>6, AppendProperties
<1>9. ShouldRun(r)' = ShouldRun(r)
  BY <1>1 DEF ShouldRun
<1>10. Gone(r)' = Gone(r) \union {a}
  <2>1. ShouldRun(r) \ todo'[r] = (ShouldRun(r) \ todo[r]) \union {m}
    BY <1>3, <1>4
  <2>2. Gone(r)' = {request[r].plugins[i] : i \in ShouldRun(r) \ todo'[r]}
    BY <1>1, <1>9 DEF Gone
  <2> HIDE DEF m, a
  <2> QED BY <1>3, <2>1, <2>2 DEF Gone
<1>11. \A k \in 1..n : returned[r][k].agent \in Gone(r) /\ returned[r][k].agent # a
  BY <1>2, <1>3 DEF Turned
<1>12. c.agent = a
  OBVIOUS
<1> HIDE DEF c, a, m, n
<1>13. todo'[r] \subseteq ShouldRun(r)'
  BY <1>2, <1>4, <1>9 DEF Turned
<1>14. \A k \in 1..n + 1 : returned'[r][k].agent \in Gone(r)'
  BY <1>7, <1>8, <1>10, <1>11, <1>12
<1>15. \A b \in Gone(r)' : \E k \in 1..n + 1 : returned'[r][k].agent = b
  <2> SUFFICES ASSUME NEW b \in Gone(r)' PROVE \E k \in 1..n + 1 : returned'[r][k].agent = b
    OBVIOUS
  <2>1. CASE b \in Gone(r)
    <3>1. PICK k \in 1..n : returned[r][k].agent = b
      BY <1>2, <2>1 DEF Turned, n
    <3> QED BY <1>7, <1>8, <3>1
  <2>2. CASE b = a
    BY <1>7, <1>8, <1>12, <2>2
  <2> QED BY <1>10, <2>1, <2>2
<1>16. \A k, l \in 1..n : returned[r][k].agent = returned[r][l].agent => k = l
  BY <1>2 DEF Turned, n
<1>17. \A k, l \in 1..n + 1 : returned'[r][k].agent = returned'[r][l].agent => k = l
  BY <1>7, <1>8, <1>11, <1>12, <1>16
<1>18. Turned(r)'
  BY <1>8, <1>13, <1>14, <1>15, <1>17 DEF Turned
<1> QED BY <1>4, <1>6, <1>11, <1>18 DEF c, a, n

\* A plugin's turn that ends with these results and this line.
LEMMA PushStep ==
  ASSUME FlowInv, NEW r \in Run, NEW outcome \in Outcome, Settle(r, outcome),
         NEW pushed \in Seq(Result), Push(r, pushed),
         NEW success \in BOOLEAN, RecordAgentExecution(r, success), pc' = pc,
         success => outcome \in {"ok", "bare"},
         Len(pushed) > 0, \A j \in 1..Len(pushed) : pushed[j].agent = Turn(r),
         pushed[1].ok <=> outcome \in {"ok", "bare"},
         ~(outcome = "ok" /\ success) => \E j \in 1..Len(pushed) : ~Fine(pushed[j]),
         (outcome = "ok" /\ success) => \A j \in 1..Len(pushed) : Fine(pushed[j])
  PROVE  FlowInv'
<1> DEFINE c == [agent |-> Turn(r), outcome |-> outcome]
           t == [agent |-> Turn(r), success |-> success]
<1>1. /\ pc[r] = "working" /\ todo[r] # {}
      /\ UNCHANGED <<request, skipped, verdict, ledger>>
  BY DEF Settle
<1>2. /\ Turned(r)'
      /\ returned' \in [Run -> Seq(Came)] /\ todo' \in [Run -> SUBSET Nat]
      /\ returned'[r] = Append(returned[r], c)
      /\ \A k \in 1..Len(returned[r]) : returned[r][k].agent # Turn(r)
  BY TurnedStep DEF Push
<1>3. /\ FlowType
      /\ r \in DOMAIN request /\ Tells(returned[r], events[r])
      /\ Traces(returned[r], events[r], results[r])
      /\ skipped[r] = {request[r].plugins[i] : i \in DOMAIN request[r].plugins \ ShouldRun(r)}
      /\ Named(r)
  BY <1>1 DEF FlowInv, RequestInv, Running
<1>4. /\ returned[r] \in Seq(Came) /\ events[r] \in Seq(Told)
      /\ results[r] \in Seq(Result) /\ ran[r] \in Seq(AgentId)
  BY <1>3 DEF FlowType
<1>5. Turn(r) \in AgentId
  BY <1>1, NextTurn
<1>6. c \in Came /\ t \in Told /\ c.agent = Turn(r) /\ t.agent = Turn(r) /\ c.outcome = outcome /\ t.success = success
  BY <1>5 DEF Came, Told
<1> HIDE DEF c, t
<1>7. /\ events' \in [Run -> Seq(Told)]
      /\ events'[r] = Append(events[r], t)
  <2>1. events' = [events EXCEPT ![r] = Append(@, t)]
    BY DEF RecordAgentExecution, t
  <2>2. Append(events[r], t) \in Seq(Told)
    BY <1>4, <1>6, AppendProperties
  <2> QED BY <1>3, <2>1, <2>2 DEF FlowType
<1>8. /\ results' \in [Run -> Seq(Result)]
      /\ results'[r] = results[r] \o pushed
  <2>1. results[r] \o pushed \in Seq(Result)
    BY <1>4, ConcatProperties
  <2> QED BY <1>3, <2>1 DEF FlowType, Push
<1> DEFINE names == [i \in DOMAIN pushed |-> Turn(r)]
<1>9. names \in Seq(AgentId) /\ Len(names) = Len(pushed)
  <2>1. Len(pushed) \in Nat /\ DOMAIN pushed = 1..Len(pushed)
    BY LenProperties
  <2>2. names \in [1..Len(pushed) -> AgentId]
    BY <1>5, <2>1
  <2> QED BY <2>1, <2>2
<1>10. /\ ran' \in [Run -> Seq(AgentId)]
       /\ ran'[r] = ran[r] \o names
  <2>1. ran[r] \o names \in Seq(AgentId)
    BY <1>4, <1>9, ConcatProperties
  <2>2. ran' = [ran EXCEPT ![r] = @ \o names]
    BY DEF Push
  <2> HIDE DEF names
  <2> QED BY <1>3, <2>1, <2>2 DEF FlowType
<1>11. Named(r)'
  <2>1. Len(results[r]) \in Nat /\ Len(pushed) \in Nat /\ DOMAIN pushed = 1..Len(pushed)
    BY <1>4, LenProperties
  <2>2. /\ Len(results'[r]) = Len(results[r]) + Len(pushed)
        /\ \A i \in 1..Len(results[r]) + Len(pushed) :
             results'[r][i] = IF i <= Len(results[r]) THEN results[r][i] ELSE pushed[i - Len(results[r])]
    BY <1>4, <1>8, ConcatProperties
  <2> DEFINE both == ran[r] \o names
  <2>6. ran'[r] = both
    BY <1>10
  <2>7. /\ Len(both) = Len(ran[r]) + Len(names)
        /\ \A i \in 1..Len(ran[r]) + Len(names) :
             both[i] = IF i <= Len(ran[r]) THEN ran[r][i] ELSE names[i - Len(ran[r])]
    <3>1. ran[r] \in Seq(AgentId) /\ names \in Seq(AgentId)
      BY <1>4, <1>9
    <3> HIDE DEF names
    <3> QED BY <3>1, ConcatProperties
  <2> HIDE DEF both
  <2>3. /\ Len(ran'[r]) = Len(ran[r]) + Len(pushed)
        /\ \A i \in 1..Len(ran[r]) + Len(pushed) :
             ran'[r][i] = IF i <= Len(ran[r]) THEN ran[r][i] ELSE names[i - Len(ran[r])]
    <3> HIDE DEF names
    <3> QED BY <1>9, <2>6, <2>7
  <2>4. \A i \in 1..Len(pushed) : names[i] = pushed[i].agent
    BY <2>1
  <2> HIDE DEF names
  <2>5. ASSUME NEW i \in 1..Len(results[r]) + Len(pushed)
        PROVE  ran'[r][i] = results'[r][i].agent
    <3>1. CASE i <= Len(results[r])
      <4>1. i \in 1..Len(results[r])
        BY <2>1, <3>1
      <4> QED BY <1>3, <2>2, <2>3, <3>1, <4>1 DEF Named
    <3>2. CASE ~(i <= Len(results[r]))
      <4>1. i - Len(results[r]) \in 1..Len(pushed)
        BY <2>1, <3>2
      <4> QED BY <1>3, <2>2, <2>3, <2>4, <3>2, <4>1 DEF Named
    <3> QED BY <3>1, <3>2
  <2> QED BY <1>3, <2>2, <2>3, <2>5 DEF Named
<1>12. Tells(returned[r], events[r])'
  BY <1>2, <1>3, <1>4, <1>6, <1>7, TurnTells
<1>13. Traces(returned[r], events[r], results[r])'
  <2>1. Good(c, t) <=> outcome = "ok" /\ success
    BY <1>6 DEF Good
  <2>2. Len(events[r]) = Len(returned[r])
    BY <1>3 DEF Tells
  <2>3. Traces(Append(returned[r], c), Append(events[r], t), results[r] \o pushed)
    BY <1>2, <1>3, <1>4, <1>6, <2>1, <2>2, TurnTraces
  <2> QED BY <1>2, <1>7, <1>8, <2>3
<1>14. FlowType'
  BY <1>1, <1>2, <1>3, <1>7, <1>8, <1>10 DEF FlowType
<1>15. /\ skipped'[r] = {request'[r].plugins[i] : i \in DOMAIN request'[r].plugins \ ShouldRun(r)'}
       /\ r \in DOMAIN request'
  BY <1>1, <1>3 DEF ShouldRun
<1>16. ~Over(r)' /\ pc'[r] = "working"
  BY <1>1 DEF Over
<1>17. RequestInv(r)'
  BY <1>2, <1>11, <1>12, <1>13, <1>15, <1>16 DEF RequestInv
<1>18. ASSUME NEW q \in Run, q # r PROVE RequestInv(q)'
  <2>1. /\ pc'[q] = pc[q] /\ todo'[q] = todo[q] /\ results'[q] = results[q] /\ ran'[q] = ran[q]
        /\ events'[q] = events[q] /\ returned'[q] = returned[q]
    BY <1>3, <1>18 DEF Settle, Push, RecordAgentExecution, FlowType
  <2> QED BY <1>1, <2>1, Bystander DEF FlowInv
<1> QED BY <1>14, <1>17, <1>18 DEF FlowInv

\* The results of a turn, field by field.
LEMMA ResultFields ==
  ASSUME NEW r \in Run, Turn(r) \in AgentId, NEW outcome \in Outcome
  PROVE  /\ Enriched(r, outcome) \in Result /\ OrchestrationError(r) \in Result
         /\ Enriched(r, outcome).agent = Turn(r) /\ OrchestrationError(r).agent = Turn(r)
         /\ Enriched(r, outcome).ok <=> outcome \in {"ok", "bare"}
         /\ outcome = "ok" <=> Fine(Enriched(r, outcome))
         /\ ~OrchestrationError(r).ok
<1>1. OrchestrationError(r) \in Result
  BY DEF OrchestrationError, Result
<1>2. OrchestrationError(r).agent = Turn(r) /\ ~OrchestrationError(r).ok
  BY DEF OrchestrationError
<1>3. Enriched(r, outcome) \in Result
  BY DEF Enriched, Result
<1>4. Enriched(r, outcome).agent = Turn(r)
  BY DEF Enriched
<1>5. Enriched(r, outcome).ok <=> outcome \in {"ok", "bare"}
  BY DEF Enriched
<1>6. Enriched(r, outcome).injected
  BY DEF Enriched
<1>7. Enriched(r, outcome).domain <=> outcome # "bare"
  BY DEF Enriched
<1>8. outcome = "ok" <=> Fine(Enriched(r, outcome))
  BY <1>5, <1>6, <1>7 DEF Fine, Outcome
<1> QED BY <1>1, <1>2, <1>3, <1>4, <1>5, <1>8

\* What is pushed at the end of a turn.
LEMMA Pushed ==
  ASSUME NEW r \in Run, Turn(r) \in AgentId, NEW outcome \in Outcome
  PROVE  /\ <<Enriched(r, outcome)>> \in Seq(Result)
         /\ Caught(r, outcome) \in Seq(Result)
         /\ Len(Caught(r, outcome)) \in {1, 2}
         /\ \A j \in 1..Len(Caught(r, outcome)) : Caught(r, outcome)[j].agent = Turn(r)
         /\ Caught(r, outcome)[1].ok <=> outcome \in {"ok", "bare"}
         /\ ~Fine(Caught(r, outcome)[Len(Caught(r, outcome))])
<1> DEFINE e == Enriched(r, outcome)
           o == OrchestrationError(r)
<1>1. /\ e \in Result /\ e.agent = Turn(r)
      /\ e.ok <=> outcome \in {"ok", "bare"}
      /\ o \in Result /\ o.agent = Turn(r) /\ ~o.ok
  BY ResultFields
<1> HIDE DEF e, o
<1>2. <<>> \in Seq(Result) /\ <<e>> \in Seq(Result) /\ <<o>> \in Seq(Result)
  BY <1>1
<1>3. Len(<<e>>) = 1 /\ Len(<<o>>) = 1 /\ <<e>>[1] = e /\ <<o>>[1] = o
  OBVIOUS
<1>4. \A i \in 1..1 : i = 1
  OBVIOUS
<1>5. \A i \in 1..2 : i = 1 \/ i = 2
  OBVIOUS
<1>6. CASE outcome = "throws"
  <2>1. Caught(r, outcome) = <<>> \o <<o>>
    BY <1>6, Zenon DEF Caught, o
  <2>2. Caught(r, outcome) = <<o>>
    BY <1>2, <2>1, ConcatEmptySeq
  <2> QED BY <1>1, <1>2, <1>3, <1>4, <1>6, <2>2 DEF Fine, e
<1>7. CASE outcome # "throws"
  <2>1. Caught(r, outcome) = <<e>> \o <<o>>
    BY <1>7, Zenon DEF Caught, e, o
  <2> DEFINE both == <<e>> \o <<o>>
  <2>2. /\ both \in Seq(Result)
        /\ Len(both) = Len(<<e>>) + Len(<<o>>)
        /\ \A i \in 1..Len(<<e>>) + Len(<<o>>) :
             both[i] = IF i <= Len(<<e>>) THEN <<e>>[i] ELSE <<o>>[i - Len(<<e>>)]
    BY <1>2, ConcatProperties
  <2> HIDE DEF both
  <2>3. both \in Seq(Result) /\ Len(both) = 2 /\ both[1] = e /\ both[2] = o
    BY <1>3, <2>2
  <2>4. Caught(r, outcome) = both
    BY <2>1 DEF both
  <2> QED BY <1>1, <1>2, <1>5, <2>3, <2>4 DEF Fine, e
<1> QED BY <1>6, <1>7

LEMMA AgentDoneStep ==
  ASSUME FlowInv, NEW r \in Run, NEW outcome \in Outcome, AgentDone(r, outcome)
  PROVE  FlowInv'
<1> DEFINE e == Enriched(r, outcome)
<1>1. Settle(r, outcome) /\ Push(r, <<e>>) /\ RecordAgentExecution(r, e.ok) /\ pc' = pc
  BY DEF AgentDone
<1>2. Turn(r) \in AgentId
  BY NextTurn DEF AgentDone, Settle
<1>3. <<e>> \in Seq(Result)
  BY <1>2, Pushed
<1>4. /\ e.ok \in BOOLEAN /\ e.agent = Turn(r)
      /\ e.ok <=> outcome \in {"ok", "bare"}
      /\ outcome = "ok" <=> Fine(e)
  BY <1>2, ResultFields DEF Result
<1> HIDE DEF e
<1>5. Len(<<e>>) = 1 /\ <<e>>[1] = e /\ 1 \in 1..1 /\ \A j \in 1..1 : j = 1
  OBVIOUS
<1>6. /\ \A j \in 1..Len(<<e>>) : <<e>>[j].agent = Turn(r)
      /\ <<e>>[1].ok <=> outcome \in {"ok", "bare"}
      /\ ~(outcome = "ok" /\ e.ok) => \E j \in 1..Len(<<e>>) : ~Fine(<<e>>[j])
      /\ (outcome = "ok" /\ e.ok) => \A j \in 1..Len(<<e>>) : Fine(<<e>>[j])
      /\ e.ok => outcome \in {"ok", "bare"}
      /\ Len(<<e>>) > 0
  BY <1>4, <1>5
<1> QED BY <1>1, <1>3, <1>4, <1>6, PushStep

LEMMA AgentCaughtStep ==
  ASSUME FlowInv, NEW r \in Run, NEW outcome \in Outcome, AgentCaught(r, outcome)
  PROVE  FlowInv'
<1> DEFINE pushed == Caught(r, outcome)
<1>1. Settle(r, outcome) /\ Push(r, pushed) /\ RecordAgentExecution(r, FALSE) /\ pc' = pc
  BY DEF AgentCaught
<1>2. Turn(r) \in AgentId
  BY NextTurn DEF AgentCaught, Settle
<1>3. /\ pushed \in Seq(Result) /\ Len(pushed) \in {1, 2}
      /\ \A j \in 1..Len(pushed) : pushed[j].agent = Turn(r)
      /\ pushed[1].ok <=> outcome \in {"ok", "bare"}
      /\ ~Fine(pushed[Len(pushed)])
  BY <1>2, Pushed
<1> HIDE DEF pushed
<1>4. Len(pushed) \in 1..Len(pushed) /\ Len(pushed) > 0
  BY <1>3
<1> QED BY <1>1, <1>3, <1>4, PushStep

\* A step that only moves a request on: it may be over when none is left.
LEMMA MovesOn ==
  ASSUME FlowInv, NEW r \in Run, UNCHANGED <<request, todo, results, ran, skipped, events, returned>>,
         DOMAIN verdict' = Run, DOMAIN ledger' = Run, pc[r] # "aborted",
         NEW s \in {"persisting", "answered", "rejected", "dead"}, pc' = [pc EXCEPT ![r] = s],
         s \in {"persisting", "answered"} => Running(r) /\ todo[r] = {}
  PROVE  FlowInv'
<1>1. FlowType
  BY DEF FlowInv
<1>2. FlowType'
  BY <1>1 DEF FlowType
<1>3. pc'[r] = s
  BY <1>1 DEF FlowType
<1>4. ASSUME Running(r)' PROVE Running(r) /\ todo[r] = {}
  BY <1>3, <1>4 DEF Running
<1>5. RequestInv(r)
  BY DEF FlowInv
<1>6. ShouldRun(r)' = ShouldRun(r)
  BY DEF ShouldRun
<1>7. /\ Named(r)' <=> Named(r)
      /\ Turned(r)' <=> Turned(r)
  BY <1>6 DEF Named, Turned, Gone
<1>8. RequestInv(r)'
  <2>1. pc'[r] # "new"
    BY <1>3
  <2>2. Tells(returned[r], events[r])'
    BY <1>5 DEF RequestInv
  <2>3. Over(r)' => todo'[r] = {}
    BY <1>4 DEF Over, Running
  <2> QED BY <1>4, <1>5, <1>6, <1>7, <2>1, <2>2, <2>3 DEF RequestInv
<1>9. ASSUME NEW q \in Run, q # r PROVE RequestInv(q)'
  BY <1>1, <1>9, Bystander DEF FlowInv, FlowType
<1> QED BY <1>2, <1>8, <1>9 DEF FlowInv

LEMMA StartStep ==
  ASSUME FlowInv, NEW r \in Run, Start(r)
  PROVE  FlowInv'
<1>1. /\ FlowType /\ RequestInv(r) /\ r \in DOMAIN request /\ pc[r] = "new"
      /\ UNCHANGED <<request, results, ran, verdict, ledger, events, returned>>
  BY DEF FlowInv, Start
<1>2. ShouldRun(r) \in SUBSET Nat
  BY <1>1, Asked DEF FlowType
<1>3. FlowType'
  BY <1>1, <1>2 DEF Start, FlowType
<1>4. ShouldRun(r)' = ShouldRun(r)
  BY <1>1 DEF ShouldRun
<1>5. todo'[r] = ShouldRun(r) /\ pc'[r] = "working"
  BY <1>1 DEF Start, FlowType
<1>6. skipped'[r] = {request[r].plugins[i] : i \in DOMAIN request[r].plugins \ ShouldRun(r)}
  BY <1>1 DEF Start, FlowType
<1>7. /\ returned'[r] = <<>> /\ results'[r] = <<>> /\ events'[r] = <<>> /\ ran'[r] = <<>>
      /\ Len(<<>>) = 0 /\ \A k \in 1..0 : FALSE
  BY <1>1 DEF RequestInv, Quiet
<1>8. Gone(r)' = {}
  BY <1>4, <1>5 DEF Gone
<1>9. Turned(r)' /\ Named(r)'
  BY <1>4, <1>5, <1>7, <1>8 DEF Turned, Named
<1>10. Traces(returned[r], events[r], results[r])' /\ Tells(returned[r], events[r])'
  BY <1>7 DEF Traces, Tells
<1>11. RequestInv(r)'
  BY <1>1, <1>4, <1>5, <1>6, <1>9, <1>10 DEF RequestInv, Over
<1>12. ASSUME NEW q \in Run, q # r PROVE RequestInv(q)'
  <2>1. pc'[q] = pc[q] /\ todo'[q] = todo[q] /\ skipped'[q] = skipped[q]
    BY <1>1, <1>12 DEF Start, FlowType
  <2> QED BY <1>1, <2>1, Bystander DEF FlowInv
<1> QED BY <1>3, <1>11, <1>12 DEF FlowInv

\* The workflow rejects: nobody answers for its metrics any more.
LEMMA AbortStep ==
  ASSUME FlowInv, NEW r \in Run, NEW outcome \in Outcome, AgentAborts(r, outcome)
  PROVE  FlowInv'
<1>1. /\ FlowType /\ UNCHANGED <<request, skipped, verdict, ledger, events>>
      /\ pc[r] = "working" /\ todo[r] # {}
      /\ Settle(r, outcome) /\ Push(r, Caught(r, outcome))
  BY DEF FlowInv, AgentAborts, Settle
<1>2. returned' \in [Run -> Seq(Came)] /\ todo' \in [Run -> SUBSET Nat]
  BY <1>1, TurnedStep DEF Push
<1>3. Turn(r) \in AgentId
  BY <1>1, NextTurn
<1>4. Caught(r, outcome) \in Seq(Result)
  BY <1>3, Pushed
<1>5. results' \in [Run -> Seq(Result)]
  <2>1. results[r] \o Caught(r, outcome) \in Seq(Result)
    BY <1>1, <1>4, ConcatProperties DEF FlowType
  <2> QED BY <1>1, <2>1 DEF FlowType, Push
<1>6. ran' \in [Run -> Seq(AgentId)]
  <2> DEFINE names == [i \in DOMAIN Caught(r, outcome) |-> Turn(r)]
  <2>1. Len(Caught(r, outcome)) \in Nat /\ DOMAIN Caught(r, outcome) = 1..Len(Caught(r, outcome))
    BY <1>4, LenProperties
  <2>2. names \in [1..Len(Caught(r, outcome)) -> AgentId]
    BY <1>3, <2>1
  <2>3. names \in Seq(AgentId)
    BY <2>1, <2>2
  <2>4. ran' = [ran EXCEPT ![r] = @ \o names]
    BY <1>1 DEF Push
  <2> HIDE DEF names
  <2>5. ran[r] \o names \in Seq(AgentId)
    BY <1>1, <2>3, ConcatProperties DEF FlowType
  <2> QED BY <1>1, <2>4, <2>5 DEF FlowType
<1>7. FlowType'
  BY <1>1, <1>2, <1>5, <1>6 DEF FlowType, AgentAborts
<1>8. pc'[r] = "aborted"
  BY <1>1 DEF FlowType, AgentAborts
<1>9. RequestInv(r)'
  BY <1>8 DEF RequestInv, Running, Over
<1>10. ASSUME NEW q \in Run, q # r PROVE RequestInv(q)'
  <2>1. /\ pc'[q] = pc[q] /\ todo'[q] = todo[q] /\ results'[q] = results[q] /\ ran'[q] = ran[q]
        /\ returned'[q] = returned[q]
    BY <1>1, <1>10 DEF Settle, Push, AgentAborts, FlowType
  <2> QED BY <1>1, <2>1, Bystander DEF FlowInv
<1> QED BY <1>7, <1>9, <1>10 DEF FlowInv

LEMMA FlowStep == FlowInv /\ [Next]_vars => FlowInv'
<1> SUFFICES ASSUME FlowInv, [Next]_vars PROVE FlowInv'
  OBVIOUS
<1>1. FlowType
  BY DEF FlowInv
<1>2. CASE UNCHANGED vars
  <2>1. /\ UNCHANGED <<request, todo, results, ran, skipped, events, returned, pc, verdict, ledger>>
    BY <1>2 DEF vars, flowVars
  <2>2. FlowType'
    BY <1>1, <2>1 DEF FlowType
  <2>3. \A q \in Run : RequestInv(q)'
    BY <2>1, Bystander DEF FlowInv
  <2> QED BY <2>2, <2>3 DEF FlowInv
<1>3. ASSUME NEW r \in Run, RejectEarly(r) PROVE FlowInv'
  BY <1>1, <1>3, MovesOn DEF RejectEarly, FlowType
<1>4. ASSUME NEW r \in Run, NEW outcome \in Outcome,
             AgentDone(r, outcome) \/ AgentCaught(r, outcome) \/ AgentAborts(r, outcome)
      PROVE  FlowInv'
  BY <1>4, AgentDoneStep, AgentCaughtStep, AbortStep
<1>5. ASSUME NEW r \in Run, NEW catalog \in Catalogs, Finish(r, catalog) PROVE FlowInv'
  <2>1. /\ pc[r] = "working" /\ todo[r] = {}
        /\ UNCHANGED <<request, todo, results, ran, skipped, events, returned>>
    BY <1>5 DEF Finish
  <2>2. DOMAIN verdict' = Run /\ DOMAIN ledger' = Run
    BY <1>1, <1>5 DEF Finish, FlowType
  <2>3. PICK s \in {"persisting", "answered"} : pc' = [pc EXCEPT ![r] = s]
    BY <1>5 DEF Finish
  <2> QED BY <2>1, <2>2, <2>3, MovesOn DEF Running
<1>6. ASSUME NEW r \in Run, RejectLate(r) PROVE FlowInv'
  BY <1>1, <1>6, MovesOn DEF RejectLate, FlowType
<1>7. ASSUME NEW r \in Run, Persist(r) PROVE FlowInv'
  <2>1. /\ pc[r] = "persisting"
        /\ UNCHANGED <<request, todo, results, ran, skipped, verdict, ledger, events, returned>>
    BY <1>7 DEF Persist
  <2>2. PICK s \in {"persisting", "answered"} : pc' = [pc EXCEPT ![r] = s]
    BY <1>7 DEF Persist
  <2>3. todo[r] = {}
    BY <2>1 DEF FlowInv, RequestInv, Over
  <2> QED BY <1>1, <2>1, <2>2, <2>3, MovesOn DEF Running, FlowType
<1>8. ASSUME NEW r \in Run, Crash(r) PROVE FlowInv'
  <2>1. /\ pc[r] # "aborted" /\ pc' = [pc EXCEPT ![r] = "dead"]
        /\ UNCHANGED <<request, todo, results, ran, skipped, verdict, ledger, events, returned>>
    BY <1>8 DEF Crash
  <2> QED BY <1>1, <2>1, MovesOn DEF FlowType
<1> QED BY <1>2, <1>3, <1>4, <1>5, <1>6, <1>7, <1>8, StartStep DEF Next

LEMMA FlowHolds == Spec => []FlowInv
BY FlowInit, FlowStep, PTL DEF Spec

-----------------------------------------------------------------------------
(* What the metrics tell.                                                  *)

LEMMA MetricsOfFlow == FlowInv => MetricsTellOutcome
<1> SUFFICES ASSUME FlowInv, NEW r \in Run, pc[r] # "aborted"
             PROVE  /\ Len(events[r]) = Len(returned[r])
                    /\ \A i \in DOMAIN events[r] :
                         /\ events[r][i].agent = returned[r][i].agent
                         /\ events[r][i].success => returned[r][i].outcome \in {"ok", "bare"}
  BY DEF MetricsTellOutcome
<1>1. Tells(returned[r], events[r])
  BY DEF FlowInv, RequestInv
<1>2. DOMAIN events[r] = 1..Len(events[r])
  BY LenProperties DEF FlowInv, FlowType
<1> QED BY <1>1, <1>2 DEF Tells

\* For any number of requests at once, whatever the plugins come to and
\* whichever appends to the metrics fail: each turn of a request that was not
\* aborted has one line, and a line of success is never of a plugin that was
\* not ok.
THEOREM MetricsTold == Spec => []MetricsTellOutcome
BY FlowHolds, MetricsOfFlow, PTL

-----------------------------------------------------------------------------
(* What the verdict stands for.                                            *)

\* When runPipeline() is done with the workflow, the verdict and the ledger
\* are what the gate and the ledger's builder make of it.
Judged(r) ==
  verdict[r] = EvaluateQuality(results[r], request[r].kind, request[r].context, ActAvailable)

Recorded(r) ==
  \E catalog \in Catalogs :
    ledger[r] = Ledger(request[r], ran[r], results[r], skipped[r], catalog, verdict[r].passed)

DoneInv == \A r \in Run : Over(r) => Judged(r) /\ Recorded(r)

\* What a request has come to does not change any more once it is over.
LEMMA OverStays ==
  ASSUME FlowInv, [Next]_vars, NEW r \in Run, Over(r)'
  PROVE  \/ \E catalog \in Catalogs : Finish(r, catalog)
         \/ /\ Over(r) /\ request' = request
            /\ results'[r] = results[r] /\ ran'[r] = ran[r] /\ skipped'[r] = skipped[r]
            /\ verdict'[r] = verdict[r] /\ ledger'[r] = ledger[r]
<1> DEFINE Same == /\ Over(r) /\ request' = request
                   /\ results'[r] = results[r] /\ ran'[r] = ran[r] /\ skipped'[r] = skipped[r]
                   /\ verdict'[r] = verdict[r] /\ ledger'[r] = ledger[r]
<1>1. FlowType /\ pc'[r] \in {"persisting", "answered"}
  BY DEF FlowInv, Over
<1>2. CASE UNCHANGED vars
  BY <1>2 DEF vars, flowVars, Over
<1>3. ASSUME NEW q \in Run, RejectEarly(q) \/ RejectLate(q) \/ Crash(q) PROVE Same
  BY <1>1, <1>3 DEF RejectEarly, RejectLate, Crash, FlowType, Over
<1>4. ASSUME NEW q \in Run, Start(q) PROVE Same
  BY <1>1, <1>4 DEF Start, FlowType, Over
<1>5. ASSUME NEW q \in Run, NEW outcome \in Outcome,
             AgentDone(q, outcome) \/ AgentCaught(q, outcome) \/ AgentAborts(q, outcome)
      PROVE  Same
  <2>1. Settle(q, outcome) /\ pc' \in {pc, [pc EXCEPT ![q] = "aborted"]}
    BY <1>5 DEF AgentDone, AgentCaught, AgentAborts
  <2>2. pc[q] = "working" /\ UNCHANGED <<request, skipped, verdict, ledger>>
    BY <2>1 DEF Settle
  <2>3. q # r /\ pc'[r] = pc[r]
    BY <1>1, <2>1, <2>2 DEF FlowType
  <2>4. results'[r] = results[r] /\ ran'[r] = ran[r]
    BY <1>1, <1>5, <2>3 DEF AgentDone, AgentCaught, AgentAborts, Push, FlowType
  <2> QED BY <1>1, <2>2, <2>3, <2>4 DEF Over
<1>6. ASSUME NEW q \in Run, q # r, NEW catalog \in Catalogs, Finish(q, catalog) PROVE Same
  BY <1>1, <1>6 DEF Finish, FlowType, Over
<1>7. ASSUME NEW q \in Run, Persist(q) PROVE Same
  BY <1>1, <1>7 DEF Persist, FlowType, Over
<1> QED BY <1>2, <1>3, <1>4, <1>5, <1>6, <1>7 DEF Next

LEMMA FinishJudges ==
  ASSUME FlowInv, NEW r \in Run, NEW catalog \in Catalogs, Finish(r, catalog)
  PROVE  Judged(r)' /\ Recorded(r)'
<1> DEFINE v == EvaluateQuality(results[r], request[r].kind, request[r].context, ActAvailable)
           written == Ledger(request[r], ran[r], results[r], skipped[r], catalog, v.passed)
<1>1. /\ verdict' = [verdict EXCEPT ![r] = v]
      /\ ledger' = [ledger EXCEPT ![r] = written]
      /\ UNCHANGED <<request, results, ran, skipped>>
  BY DEF Finish
<1> HIDE DEF v, written
<1>2. verdict'[r] = v /\ ledger'[r] = written
  BY <1>1 DEF FlowInv, FlowType
<1>3. Judged(r)'
  BY <1>1, <1>2 DEF Judged, v, ActAvailable
<1>4. Recorded(r)'
  BY <1>1, <1>2 DEF Recorded, written
<1> QED BY <1>3, <1>4

LEMMA DoneHolds == Spec => [](FlowInv /\ DoneInv)
<1>1. Init => DoneInv
  BY DEF Init, DoneInv, Over
<1>2. FlowInv /\ DoneInv /\ [Next]_vars => DoneInv'
  <2> SUFFICES ASSUME FlowInv, DoneInv, [Next]_vars, NEW r \in Run, Over(r)'
               PROVE  Judged(r)' /\ Recorded(r)'
    BY DEF DoneInv
  <2>1. CASE \E catalog \in Catalogs : Finish(r, catalog)
    BY <2>1, FinishJudges
  <2>2. CASE /\ Over(r) /\ request' = request
             /\ results'[r] = results[r] /\ ran'[r] = ran[r] /\ skipped'[r] = skipped[r]
             /\ verdict'[r] = verdict[r] /\ ledger'[r] = ledger[r]
    BY <2>2 DEF DoneInv, Judged, Recorded, ActAvailable
  <2> QED BY <2>1, <2>2, OverStays
<1> QED BY <1>1, <1>2, FlowHolds, PTL DEF Spec

\* What evaluateQuality() passes.
LEMMA PassedMeans ==
  ASSUME NEW found \in Seq(Result), NEW kind \in IntentKind, NEW context \in BOOLEAN
  PROVE  EvaluateQuality(found, kind, context, ActAvailable).passed <=>
           /\ kind \notin ActIntentKind \union {"unknown"}
           /\ kind = "analyze.project" => context
           /\ found # <<>>
           /\ AgentsForIntent(kind) \subseteq {found[j].agent : j \in 1..Len(found)}
           /\ \A j \in 1..Len(found) : Fine(found[j])
<1> DEFINE checks == Checks(found, kind, context, ActAvailable)
           all == {found[i] : i \in DOMAIN found}
<1>1. DOMAIN found = 1..Len(found)
  BY LenProperties
<1>2. DOMAIN checks = {"agentsOk", "knownIntent", "agentsScheduled", "nonEmptyRun", "contextPresent",
                       "policiesInjected", "hasDomainFindings", "actAvailable"}
  BY DEF Checks
<1>3. EvaluateQuality(found, kind, context, ActAvailable).passed <=> \A c \in DOMAIN checks : checks[c]
  BY DEF EvaluateQuality
<1>4. /\ checks.agentsOk <=> \A x \in all : x.ok
      /\ checks.policiesInjected <=> \A x \in all : x.injected
      /\ checks.hasDomainFindings <=> \A x \in all : x.domain
  BY DEF Checks
<1>5. /\ checks.knownIntent <=> kind # "unknown"
      /\ checks.agentsScheduled <=> (kind = "unknown" \/ AgentsForIntent(kind) \subseteq {x.agent : x \in all})
      /\ checks.nonEmptyRun <=> (kind = "unknown" \/ found # <<>>)
      /\ checks.contextPresent <=> (kind = "analyze.project" => context)
      /\ checks.actAvailable <=> kind \notin ActIntentKind
  BY DEF Checks, ActAvailable
<1> HIDE DEF checks
<1>6. EvaluateQuality(found, kind, context, ActAvailable).passed <=>
        /\ checks.agentsOk /\ checks.policiesInjected /\ checks.hasDomainFindings
        /\ checks.knownIntent /\ checks.agentsScheduled /\ checks.nonEmptyRun
        /\ checks.contextPresent /\ checks.actAvailable
  BY <1>2, <1>3
<1>7. (\A x \in all : x.ok /\ x.injected /\ x.domain) <=> \A j \in 1..Len(found) : Fine(found[j])
  BY <1>1 DEF Fine
<1>8. {x.agent : x \in all} = {found[j].agent : j \in 1..Len(found)}
  BY <1>1
<1> HIDE DEF all
<1> QED BY <1>4, <1>5, <1>6, <1>7, <1>8

\* The outcomes of an agent that had its turn are the one of that turn.
LEMMA OutcomeOfTurn ==
  ASSUME FlowType, NEW r \in Run, Turned(r), NEW k \in 1..Len(returned[r])
  PROVE  OutcomesOf(r, returned[r][k].agent) = {returned[r][k].outcome}
<1>1. DOMAIN returned[r] = 1..Len(returned[r])
  BY LenProperties DEF FlowType
<1>2. {j \in DOMAIN returned[r] : returned[r][j].agent = returned[r][k].agent} = {k}
  BY <1>1 DEF Turned
<1> QED BY <1>2, Zenon DEF OutcomesOf

\* When a request is over, the agents that had a turn are the plugins to run.
LEMMA AllHadTurns ==
  ASSUME FlowInv, NEW r \in Run, Over(r)
  PROVE  {returned[r][k].agent : k \in 1..Len(returned[r])} =
           {request[r].plugins[i] : i \in ShouldRun(r)}
<1>1. Turned(r) /\ todo[r] = {}
  BY DEF FlowInv, RequestInv, Over, Running
<1>2. Gone(r) = {request[r].plugins[i] : i \in ShouldRun(r)}
  BY <1>1 DEF Gone
<1>3. /\ \A k \in 1..Len(returned[r]) : returned[r][k].agent \in Gone(r)
      /\ \A a \in Gone(r) : \E k \in 1..Len(returned[r]) : returned[r][k].agent = a
  BY <1>1 DEF Turned
<1>4. {returned[r][k].agent : k \in 1..Len(returned[r])} = Gone(r)
  BY <1>3
<1> QED BY <1>2, <1>4

LEMMA VerdictOfFlow == FlowInv /\ DoneInv => VerdictExact
<1> SUFFICES ASSUME FlowInv, DoneInv, NEW r \in Run, Over(r)
             PROVE  verdict[r].passed <=>
                      /\ request[r].kind \notin ActIntentKind \union {"unknown"}
                      /\ request[r].kind = "analyze.project" => request[r].context
                      /\ \A a \in AgentsForIntent(request[r].kind) :
                           OutcomesOf(r, a) = {"ok"} /\ ToldOnce(r, a)
  BY DEF VerdictExact
<1> DEFINE kind == request[r].kind
           came == returned[r]
           told == events[r]
           found == results[r]
<1>1. /\ request \in Workloads /\ r \in DOMAIN request /\ pc[r] # "aborted" /\ Running(r)
      /\ Turned(r) /\ Traces(came, told, found) /\ Tells(came, told)
  BY DEF FlowInv, FlowType, RequestInv, Over, Running
<1>2. kind \in IntentKind /\ request[r].context \in BOOLEAN
  BY <1>1, Asked
<1>3. came \in Seq(Came) /\ told \in Seq(Told) /\ found \in Seq(Result)
  BY DEF FlowInv, FlowType
<1>4. /\ DOMAIN told = 1..Len(came) /\ DOMAIN found = 1..Len(found)
      /\ Len(came) \in Nat /\ Len(found) \in Nat
  BY <1>1, <1>3, LenProperties DEF Tells
<1>5. verdict[r].passed <=>
        /\ kind \notin ActIntentKind \union {"unknown"}
        /\ kind = "analyze.project" => request[r].context
        /\ found # <<>>
        /\ AgentsForIntent(kind) \subseteq {found[j].agent : j \in 1..Len(found)}
        /\ \A j \in 1..Len(found) : Fine(found[j])
  <2>1. verdict[r] = EvaluateQuality(found, kind, request[r].context, ActAvailable)
    BY DEF DoneInv, Judged
  <2> HIDE DEF kind, found
  <2> QED BY <1>2, <1>3, <2>1, PassedMeans
<1> HIDE DEF kind, came, told, found
<1>6. \A k \in 1..Len(came) : Good(came[k], told[k]) <=>
        OutcomesOf(r, came[k].agent) = {"ok"} /\ ToldOnce(r, came[k].agent)
  <2> SUFFICES ASSUME NEW k \in 1..Len(came)
               PROVE  Good(came[k], told[k]) <=>
                        OutcomesOf(r, came[k].agent) = {"ok"} /\ ToldOnce(r, came[k].agent)
    OBVIOUS
  <2>1. OutcomesOf(r, came[k].agent) = {came[k].outcome}
    BY <1>1, OutcomeOfTurn DEF FlowInv, came
  <2>2. {i \in DOMAIN told : told[i].agent = came[k].agent} = {k}
    BY <1>1, <1>4 DEF Tells, Turned, came
  <2>3. ToldOnce(r, came[k].agent) <=> told[k].success
    BY <1>4, <2>2, Zenon DEF ToldOnce, told
  <2>4. OutcomesOf(r, came[k].agent) = {"ok"} <=> came[k].outcome = "ok"
    BY <2>1
  <2> QED BY <2>3, <2>4 DEF Good
<1>7. ASSUME \A j \in 1..Len(found) : Fine(found[j])
      PROVE  \A k \in 1..Len(came) : Good(came[k], told[k])
  BY <1>1, <1>7 DEF Traces
<1>8. ASSUME NEW a \in {found[j].agent : j \in 1..Len(found)}
      PROVE  \E k \in 1..Len(came) : came[k].agent = a
  BY <1>1, <1>8 DEF Traces
<1>9. ASSUME verdict[r].passed, NEW a \in AgentsForIntent(kind)
      PROVE  OutcomesOf(r, a) = {"ok"} /\ ToldOnce(r, a)
  <2>1. PICK k \in 1..Len(came) : came[k].agent = a
    BY <1>5, <1>8, <1>9
  <2>2. Good(came[k], told[k])
    BY <1>5, <1>7, <1>9
  <2> QED BY <1>6, <2>1, <2>2
<1>10. ASSUME /\ kind \notin ActIntentKind \union {"unknown"}
              /\ kind = "analyze.project" => request[r].context
              /\ \A a \in AgentsForIntent(kind) : OutcomesOf(r, a) = {"ok"} /\ ToldOnce(r, a)
       PROVE  verdict[r].passed
  <2>1. ASSUME NEW a \in AgentsForIntent(kind)
        PROVE  a \in {found[j].agent : j \in 1..Len(found)}
    <3>1. PICK i \in DOMAIN came : came[i].agent = a
      BY <1>10, <2>1 DEF OutcomesOf, came
    <3>2. i \in 1..Len(came)
      BY <1>3, <3>1, LenProperties
    <3>3. PICK j \in 1..Len(found) : found[j].agent = came[i].agent
      BY <1>1, <3>2 DEF Traces
    <3> QED BY <3>1, <3>3
  <2>2. found # <<>>
    <3>1. PICK a \in AgentsForIntent(kind) : TRUE
      BY <1>2, <1>10, SomeAgent
    <3>2. PICK j \in 1..Len(found) : TRUE
      BY <2>1, <3>1
    <3> QED BY <3>2
  <2>3. ASSUME NEW k \in 1..Len(came) PROVE came[k].agent \in AgentsForIntent(kind)
    <3>1. came[k].agent \in {request[r].plugins[i] : i \in ShouldRun(r)}
      BY <2>3, AllHadTurns DEF came
    <3> QED BY <1>1, <3>1, Asked DEF kind
  <2>4. \A k \in 1..Len(came) : Good(came[k], told[k])
    BY <1>6, <1>10, <2>3
  <2>5. ASSUME NEW j \in 1..Len(found) PROVE Fine(found[j])
    BY <1>1, <2>4, <2>5 DEF Traces
  <2> QED BY <1>5, <1>10, <2>1, <2>2, <2>5
<1> QED BY <1>5, <1>9, <1>10 DEF kind

\* The verdict of every run that is done, seen from the outside, for any
\* requests at once and any outcomes and failing appends: the gate passes it
\* exactly when the pipeline serves such an intent, there is the context it
\* needs, and each agent it calls for came back ok, once, in the metrics too.
THEOREM VerdictIsExact == Spec => []VerdictExact
BY DoneHolds, VerdictOfFlow, PTL

-----------------------------------------------------------------------------
(* What the ledger tells.                                                  *)

\* What Attention takes for a failure.
Bad(decision) == decision.outcome \in {"failed", "denied"}

\* A list's elements.
Elements(list) == {list[i] : i \in 1..Len(list)}

\* A function on 1..n is a list.
LEMMA ListOfFunction ==
  ASSUME NEW f, NEW n \in Nat, f = [i \in 1..n |-> f[i]]
  PROVE  f \in Seq(Elements(f)) /\ Len(f) = n /\ DOMAIN f = 1..n
<1> DEFINE R == {f[i] : i \in 1..n}
<1>1. f \in [1..n -> R]
  BY Zenon
<1>2. f \in Seq(R) /\ Len(f) = n /\ DOMAIN f = 1..n
  <2> HIDE DEF R
  <2> QED BY <1>1
<1>3. Elements(f) = R
  BY <1>2 DEF Elements
<1> QED BY <1>2, <1>3

\* The elements of two lists in a row.
LEMMA ElementsOfConcat ==
  ASSUME NEW S, NEW s \in Seq(S), NEW t \in Seq(S)
  PROVE  s \o t \in Seq(S) /\ Elements(s \o t) = Elements(s) \union Elements(t)
<1> DEFINE u == s \o t
<1>1. Len(s) \in Nat /\ Len(t) \in Nat
  BY LenProperties
<1>2. /\ u \in Seq(S) /\ Len(u) = Len(s) + Len(t)
      /\ \A i \in 1..Len(s) + Len(t) : u[i] = IF i <= Len(s) THEN s[i] ELSE t[i - Len(s)]
  BY ConcatProperties
<1> HIDE DEF u
<1>3. \A i \in 1..Len(s) : i \in 1..Len(s) + Len(t) /\ u[i] = s[i]
  BY <1>1, <1>2
<1>4. \A i \in 1..Len(t) : Len(s) + i \in 1..Len(s) + Len(t) /\ u[Len(s) + i] = t[i]
  <2> SUFFICES ASSUME NEW i \in 1..Len(t)
               PROVE  Len(s) + i \in 1..Len(s) + Len(t) /\ u[Len(s) + i] = t[i]
    OBVIOUS
  <2>1. Len(s) + i \in 1..Len(s) + Len(t) /\ ~(Len(s) + i <= Len(s)) /\ Len(s) + i - Len(s) = i
    BY <1>1
  <2> QED BY <1>2, <2>1
<1>5. \A i \in 1..Len(s) + Len(t) : i \in 1..Len(s) \/ (i - Len(s) \in 1..Len(t) /\ ~(i <= Len(s)))
  BY <1>1
<1>6. \A e \in Elements(s) \union Elements(t) : e \in Elements(u)
  <2>1. Elements(u) = {u[i] : i \in 1..Len(s) + Len(t)}
    BY <1>2 DEF Elements
  <2>2. \A e \in Elements(s) : e \in Elements(u)
    BY <1>3, <2>1 DEF Elements
  <2>3. \A i \in 1..Len(t) : t[i] \in Elements(u)
    BY <1>4, <2>1
  <2> QED BY <2>2, <2>3 DEF Elements
<1>7. \A e \in Elements(u) : e \in Elements(s) \union Elements(t)
  <2> SUFFICES ASSUME NEW i \in 1..Len(s) + Len(t)
               PROVE  u[i] \in Elements(s) \union Elements(t)
    BY <1>2 DEF Elements
  <2>1. CASE i \in 1..Len(s)
    BY <1>3, <2>1 DEF Elements
  <2>2. CASE i - Len(s) \in 1..Len(t) /\ ~(i <= Len(s))
    BY <1>2, <2>2 DEF Elements
  <2> QED BY <1>5, <2>1, <2>2
<1> QED BY <1>2, <1>6, <1>7 DEF u

\* A finite set in any order is a list of its elements.
LEMMA ListOfSet ==
  ASSUME NEW S, IsFiniteSet(S)
  PROVE  SetToSeq(S) \in Seq(S) /\ Elements(SetToSeq(S)) = S
<1> DEFINE n == Cardinality(S)
<1>1. n \in Nat /\ ExistsBijection(1..n, S)
  BY FS_CardinalityType
<1>2. \E f \in [1..n -> S] : IsInjective(f)
  BY <1>1 DEF ExistsBijection, Bijection, Injection, IsInjective
<1>3. SetToSeq(S) \in [1..n -> S] /\ IsInjective(SetToSeq(S))
  BY <1>2, Zenon DEF SetToSeq
<1> DEFINE f == SetToSeq(S)
<1> HIDE DEF f
<1>4. f \in Injection(1..n, S)
  BY <1>3 DEF Injection, IsInjective, f
<1>5. IsFiniteSet(1..n) /\ Cardinality(1..n) = n
  BY <1>1, FS_Interval
<1>6. f \in Surjection(1..n, S)
  BY <1>4, <1>5, FS_Injection
<1>7. f \in Seq(S) /\ Len(f) = n
  BY <1>1, <1>3 DEF f
<1>8. Elements(f) = S
  BY <1>3, <1>6, <1>7 DEF Surjection, Elements, f
<1> QED BY <1>7, <1>8 DEF f

\* The skills that are decided on are a list, and those that fail were asked
\* for.
LEMMA SkillsAreListed ==
  ASSUME NEW ids \in Seq(STRING), NEW catalog, NEW met
  PROVE  LET skills == ResolveSkillDecisions(ids, catalog, met)
         IN  /\ skills \in Seq(Elements(skills))
             /\ \A d \in Elements(skills) :
                  d.subject = "skill" /\ (Bad(d) => d.value \in ToSet(ids))
<1> DEFINE asked == NormalizeIds(ids)
           skills == ResolveSkillDecisions(ids, catalog, met)
<1>1. asked \in Seq(ToSet(ids))
  <2>1. PICK kept : kept = {i \in DOMAIN ids : ids[i] # "" /\ \A k \in 1..i - 1 : ids[k] # ids[i]}
    OBVIOUS
  <2>2. Len(ids) \in Nat /\ DOMAIN ids = 1..Len(ids)
    BY LenProperties
  <2>3. kept \in SUBSET (1..Len(ids)) /\ \A i \in kept : ids[i] \in ToSet(ids)
    <3>1. kept \subseteq DOMAIN ids
      BY <2>1
    <3> QED BY <2>2, <3>1 DEF ToSet
  <2>4. At(ids, kept) \in Seq(ToSet(ids))
    BY <2>2, <2>3, AtElements
  <2> QED BY <2>1, <2>4, Zenon DEF NormalizeIds
<1>2. DOMAIN asked = 1..Len(asked) /\ Len(asked) \in Nat /\ \A i \in 1..Len(asked) : asked[i] \in ToSet(ids)
  BY <1>1, LenProperties, ElementOfSeq
<1> HIDE DEF asked
<1>3. CASE ids = <<>>
  <2>1. skills = <<SkillDecided("none", "skipped")>>
    BY <1>3 DEF ResolveSkillDecisions
  <2>2. Len(skills) = 1 /\ skills[1].subject = "skill" /\ ~Bad(skills[1]) /\ skills = [i \in 1..1 |-> skills[i]]
    BY <2>1 DEF SkillDecided, Bad
  <2> HIDE DEF skills
  <2>3. skills \in Seq(Elements(skills))
    BY <2>2, ListOfFunction
  <2>4. \A i \in 1..1 : i = 1
    OBVIOUS
  <2>5. \A d \in Elements(skills) : d.subject = "skill" /\ ~Bad(d)
    BY <2>2, <2>4 DEF Elements
  <2> QED BY <2>3, <2>5 DEF skills
<1>4. CASE ids # <<>>
  <2> DEFINE n == Len(asked)
             Decide(id) == SkillDecided(id, IF Known(catalog, id)
                                              THEN VerifySkillPack(PackOf(catalog, id), met)
                                              ELSE "skipped")
  <2>1. skills = [i \in 1..n |-> Decide(asked[i])]
    BY <1>2, <1>4, Zenon DEF ResolveSkillDecisions, asked
  <2>2. \A i \in 1..n : Decide(asked[i]).subject = "skill" /\ Decide(asked[i]).value = asked[i]
    BY DEF SkillDecided
  <2> HIDE DEF Decide, skills, n
  <2>3. skills = [i \in 1..n |-> skills[i]] /\ \A i \in 1..n : skills[i].subject = "skill" /\ skills[i].value = asked[i]
    BY <2>1, <2>2
  <2>4. skills \in Seq(Elements(skills)) /\ Len(skills) = n
    BY <1>2, <2>3, ListOfFunction DEF n
  <2>5. \A d \in Elements(skills) : d.subject = "skill" /\ d.value \in ToSet(ids)
    BY <1>2, <2>3, <2>4 DEF Elements, n
  <2> QED BY <2>4, <2>5 DEF skills
<1> QED BY <1>3, <1>4

Skipping(left) == {Decided("agent", a, "skipped") : a \in left}
Skipped(left) == {[agent |-> a, status |-> "skip"] : a \in left}

\* There are four agents.
LEMMA AgentsFinite ==
  ASSUME NEW left \in SUBSET AgentId
  PROVE  IsFiniteSet(Skipping(left)) /\ IsFiniteSet(Skipped(left))
<1>1. AgentId = {"architecture", "appsec", "docs", "qa"}
  <2>1. DOMAIN BuiltinPlugins = 1..4
    BY DEF BuiltinPlugins
  <2>2. \A i \in 1..4 : i = 1 \/ i = 2 \/ i = 3 \/ i = 4
    OBVIOUS
  <2>3. AgentId = {BuiltinPlugins[i] : i \in 1..4}
    BY <2>1, Zenon DEF AgentId, ToSet
  <2>4. /\ BuiltinPlugins[1] = "architecture" /\ BuiltinPlugins[2] = "appsec"
        /\ BuiltinPlugins[3] = "docs" /\ BuiltinPlugins[4] = "qa"
    BY DEF BuiltinPlugins
  <2>5. 1 \in 1..4 /\ 2 \in 1..4 /\ 3 \in 1..4 /\ 4 \in 1..4
    OBVIOUS
  <2> QED BY <2>2, <2>3, <2>4, <2>5
<1>2. \A a, b, c, d : IsFiniteSet({a, b, c, d})
  <2> SUFFICES ASSUME NEW a, NEW b, NEW c, NEW d PROVE IsFiniteSet({a, b, c, d})
    OBVIOUS
  <2>1. IsFiniteSet({a} \cup {b})
    BY FS_Singleton, FS_AddElement
  <2>2. IsFiniteSet(({a} \cup {b}) \cup {c})
    BY <2>1, FS_AddElement
  <2>3. IsFiniteSet((({a} \cup {b}) \cup {c}) \cup {d})
    BY <2>2, FS_AddElement
  <2>4. (({a} \cup {b}) \cup {c}) \cup {d} = {a, b, c, d}
    OBVIOUS
  <2> QED BY <2>3, <2>4
<1>3. Skipping(left) \subseteq {Decided("agent", "architecture", "skipped"), Decided("agent", "appsec", "skipped"),
                                Decided("agent", "docs", "skipped"), Decided("agent", "qa", "skipped")}
  BY <1>1 DEF Skipping
<1>4. Skipped(left) \subseteq {[agent |-> "architecture", status |-> "skip"], [agent |-> "appsec", status |-> "skip"],
                               [agent |-> "docs", status |-> "skip"], [agent |-> "qa", status |-> "skip"]}
  BY <1>1 DEF Skipped
<1>5. \A T, a, b, c, d : T \subseteq {a, b, c, d} => IsFiniteSet(T)
  BY <1>2, FS_Subset
<1>6. IsFiniteSet(Skipping(left))
  BY <1>3, <1>5
<1>7. IsFiniteSet(Skipped(left))
  BY <1>4, <1>5
<1> QED BY <1>6, <1>7

\* An agent that ran is decided on as failed exactly when the first result
\* with its id is not ok.
LEMMA DecisionOfAgent ==
  ASSUME NEW ids \in Seq(AgentId), NEW found \in Seq(Result), NEW left \in SUBSET AgentId,
         NEW k \in 1..Len(ids), NEW j \in 1..Len(found), found[j].agent = ids[k],
         \A i \in 1..Len(found) : found[i].agent = ids[k] => j <= i
  PROVE  AgentDecision(ids[k], AgentSteps(ids, found, left)) =
           Decided("agent", ids[k], IF found[j].ok THEN "selected" ELSE "failed")
<1> DEFINE a == ids[k]
           turns == [i \in DOMAIN ids |-> [agent |-> ids[i], status |-> IF Find(found, ids[i]).ok THEN "ok" ELSE "fail"]]
           skips == SetToSeq(Skipped(left))
           steps == turns \o skips
<1>1. DOMAIN ids = 1..Len(ids) /\ Len(ids) \in Nat /\ Len(found) \in Nat
  BY LenProperties
<1>2. Find(found, a) = found[j]
  <2>1. PICK place \in 1..Len(found) :
          /\ Find(found, a) = found[place] /\ found[place].agent = a
          /\ \A i \in 1..Len(found) : found[i].agent = a => place <= i
    BY FindsFirst
  <2> QED BY <1>1, <2>1
<1>3. turns = [i \in 1..Len(ids) |-> turns[i]]
  BY <1>1
<1>4. \A i \in 1..Len(ids) :
        turns[i].agent = ids[i] /\ turns[i].status = IF Find(found, ids[i]).ok THEN "ok" ELSE "fail"
  BY <1>1
<1> HIDE DEF turns
<1>5. turns \in Seq(Elements(turns)) /\ Len(turns) = Len(ids)
  BY <1>1, <1>3, ListOfFunction
<1>6. skips \in Seq(Skipped(left))
  BY AgentsFinite, ListOfSet
<1> HIDE DEF skips
<1> DEFINE S == Elements(turns) \union Skipped(left)
<1>7. turns \in Seq(S) /\ skips \in Seq(S)
  BY <1>5, <1>6, SeqMonotonic
<1> HIDE DEF S
<1>8. Len(skips) \in Nat
  BY <1>7, LenProperties
<1>9. /\ steps \in Seq(S) /\ Len(steps) = Len(ids) + Len(skips)
      /\ \A i \in 1..Len(ids) : steps[i] = turns[i]
  <2>1. /\ steps \in Seq(S) /\ Len(steps) = Len(turns) + Len(skips)
        /\ \A i \in 1..Len(turns) + Len(skips) :
             steps[i] = IF i <= Len(turns) THEN turns[i] ELSE skips[i - Len(turns)]
    BY <1>7, ConcatProperties
  <2> HIDE DEF steps
  <2> QED BY <1>1, <1>5, <1>8, <2>1
<1> HIDE DEF steps
<1>10. k \in 1..Len(steps) /\ steps[k].agent = a
  BY <1>1, <1>4, <1>8, <1>9
<1>11. PICK place \in 1..Len(steps) :
         /\ Find(steps, a) = steps[place] /\ steps[place].agent = a
         /\ \A i \in 1..Len(steps) : steps[i].agent = a => place <= i
  BY <1>9, <1>10, FindsFirst
<1>12. place \in 1..Len(ids)
  BY <1>1, <1>9, <1>10, <1>11
<1>13. steps[place].status = IF found[j].ok THEN "ok" ELSE "fail"
  <2>1. ids[place] = a
    BY <1>4, <1>9, <1>11, <1>12
  <2> HIDE DEF a
  <2> QED BY <1>2, <1>4, <1>9, <1>12, <2>1
<1>14. AgentSteps(ids, found, left) = steps
  BY Zenon DEF AgentSteps, steps, turns, skips, Skipped
<1>15. AgentDecision(a, steps) = Decided("agent", a, IF steps[place].status = "fail" THEN "failed" ELSE "selected")
  BY <1>11, Zenon DEF AgentDecision
<1>16. (IF steps[place].status = "fail" THEN "failed" ELSE "selected") = IF found[j].ok THEN "selected" ELSE "failed"
  BY <1>13
<1> QED BY <1>14, <1>15, <1>16, Zenon

\* The decision on an agent that ran.
DecisionIn(r, k) == AgentDecision(ran[r][k], AgentSteps(ran[r], results[r], skipped[r]))

\* It goes by the outcome of the agent's turn.
DecidedByTurn(r, k) ==
  LET d == DecisionIn(r, k)
      outcomes == OutcomesOf(r, ran[r][k])
  IN  /\ d.subject = "agent" /\ d.value = ran[r][k] /\ outcomes # {}
      /\ \/ d.outcome = "failed" /\ outcomes \subseteq {"bad", "throws"}
         \/ d.outcome = "selected" /\ outcomes \subseteq {"ok", "bare"}

LEMMA DecisionOfTurn ==
  ASSUME FlowType, NEW r \in Run, Turned(r), Named(r),
         Traces(returned[r], events[r], results[r]), skipped[r] \in SUBSET AgentId,
         NEW k \in 1..Len(ran[r])
  PROVE  DecidedByTurn(r, k)
<1> DEFINE came == returned[r]
           found == results[r]
           ids == ran[r]
<1>1. came \in Seq(Came) /\ found \in Seq(Result) /\ ids \in Seq(AgentId)
  BY DEF FlowType
<1>2. Len(ids) = Len(found) /\ \A j \in 1..Len(found) : ids[j] = found[j].agent
  BY DEF Named
<1>3. PICK l \in 1..Len(came) : came[l].agent = ids[k]
  BY <1>2 DEF Traces
<1>4. PICK j \in 1..Len(found) :
        /\ found[j].agent = came[l].agent
        /\ \A i \in 1..Len(found) : found[i].agent = came[l].agent => j <= i
        /\ found[j].ok <=> came[l].outcome \in {"ok", "bare"}
  BY DEF Traces
<1>5. DecisionIn(r, k) = Decided("agent", ids[k], IF found[j].ok THEN "selected" ELSE "failed")
  <2>1. found[j].agent = ids[k] /\ \A i \in 1..Len(found) : found[i].agent = ids[k] => j <= i
    BY <1>3, <1>4
  <2> QED BY <1>1, <2>1, DecisionOfAgent DEF DecisionIn
<1>6. OutcomesOf(r, ids[k]) = {came[l].outcome}
  BY <1>3, OutcomeOfTurn
<1>7. came[l].outcome \in Outcome
  <2>1. came[l] \in Came
    BY <1>1, ElementOfSeq
  <2> QED BY <2>1 DEF Came
<1>8. CASE found[j].ok
  BY <1>4, <1>5, <1>6, <1>8 DEF Decided, DecidedByTurn
<1>9. CASE ~found[j].ok
  BY <1>4, <1>5, <1>6, <1>7, <1>9 DEF Decided, DecidedByTurn, Outcome
<1> QED BY <1>8, <1>9

GateDecision(passed) ==
  Decided("gate", IF passed THEN "pass" ELSE "fail", IF passed THEN "passed" ELSE "failed")

OnAgents(book) == {d \in Elements(book) : d.subject = "agent"}

DecisionsOn(ids, found, left) ==
  {AgentDecision(ids[i], AgentSteps(ids, found, left)) : i \in 1..Len(ids)} \union Skipping(left)

\* What is told of a ledger: the decisions in it are on the skills, on the
\* agents that ran or were skipped, and the gate's.
LedgerHolds(book, req, ids, found, left, catalog, passed) ==
  /\ DOMAIN book = 1..Len(book)
  /\ Len(book) \in Nat
  /\ Elements(book) = Elements(ResolveSkillDecisions(req.skillIds, catalog, Met(req)))
                      \union DecisionsOn(ids, found, left) \union {GateDecision(passed)}
  /\ OnAgents(book) = DecisionsOn(ids, found, left)

\* It is so of the ledger of a run.
LEMMA AgentsOfLedger ==
  ASSUME NEW req \in Request, NEW ids \in Seq(AgentId), NEW found, NEW left \in SUBSET AgentId,
         NEW catalog, NEW passed, NEW book, book = Ledger(req, ids, found, left, catalog, passed)
  PROVE  LedgerHolds(book, req, ids, found, left, catalog, passed)
<1> DEFINE skills == ResolveSkillDecisions(req.skillIds, catalog, Met(req))
           steps == AgentSteps(ids, found, left)
           agents == [i \in DOMAIN ids |-> AgentDecision(ids[i], steps)]
           skips == SetToSeq(Skipping(left))
           gate == GateDecision(passed)
           last == <<gate>>
<1>1. req.skillIds \in Seq(STRING)
  BY DEF Request
<1>2. /\ skills \in Seq(Elements(skills))
      /\ \A d \in Elements(skills) : d.subject = "skill"
  BY <1>1, SkillsAreListed
<1>3. DOMAIN ids = 1..Len(ids) /\ Len(ids) \in Nat
  BY LenProperties
<1> HIDE DEF steps
<1>4. agents = [i \in 1..Len(ids) |-> agents[i]] /\ \A i \in 1..Len(ids) : agents[i] = AgentDecision(ids[i], steps)
  BY <1>3
<1>5. \A i \in 1..Len(ids) : AgentDecision(ids[i], steps).subject = "agent"
  BY DEF AgentDecision, Decided
<1> HIDE DEF skills, agents
<1>6. agents \in Seq(Elements(agents)) /\ Len(agents) = Len(ids)
  BY <1>3, <1>4, ListOfFunction
<1>7. Elements(agents) = {AgentDecision(ids[i], steps) : i \in 1..Len(ids)}
  BY <1>4, <1>6 DEF Elements
<1>8. skips \in Seq(Skipping(left)) /\ Elements(skips) = Skipping(left)
  BY AgentsFinite, ListOfSet
<1>9. \A d \in Skipping(left) : d.subject = "agent"
  BY DEF Skipping, Decided
<1>10. gate.subject = "gate"
  BY DEF GateDecision, Decided
<1> HIDE DEF skips, gate
<1>11. last \in Seq({gate}) /\ Elements(last) = {gate}
  BY DEF Elements
<1> HIDE DEF last
<1> DEFINE S == Elements(skills) \union Elements(agents) \union Skipping(left) \union {gate}
<1>12. /\ skills \in Seq(S) /\ agents \in Seq(S)
       /\ skips \in Seq(S) /\ last \in Seq(S)
  <2>1. /\ Elements(skills) \subseteq S /\ Elements(agents) \subseteq S
        /\ Skipping(left) \subseteq S /\ {gate} \subseteq S
    OBVIOUS
  <2> HIDE DEF S
  <2> QED BY <1>2, <1>6, <1>8, <1>11, <2>1, SeqMonotonic
<1> HIDE DEF S
<1> DEFINE two == skills \o agents
           three == two \o skips
           four == three \o last
<1>13. two \in Seq(S) /\ Elements(two) = Elements(skills) \union Elements(agents)
  BY <1>12, ElementsOfConcat
<1> HIDE DEF two
<1>14. three \in Seq(S) /\ Elements(three) = Elements(two) \union Elements(skips)
  BY <1>12, <1>13, ElementsOfConcat
<1> HIDE DEF three
<1>15. four \in Seq(S) /\ Elements(four) = Elements(three) \union Elements(last)
  BY <1>12, <1>14, ElementsOfConcat
<1> HIDE DEF four
<1>16. book = four
  BY Zenon DEF Ledger, two, three, four, skills, agents, steps, skips, gate, last, Skipping, GateDecision
<1>17. book \in Seq(S) /\ Elements(book) = Elements(skills) \union Elements(agents) \union Skipping(left) \union {gate}
  BY <1>8, <1>11, <1>13, <1>14, <1>15, <1>16, Zenon
<1>18. DOMAIN book = 1..Len(book) /\ Len(book) \in Nat
  BY <1>17, LenProperties
<1>19. \A d \in Elements(agents) : d.subject = "agent"
  BY <1>5, <1>7
<1>20. OnAgents(book) = Elements(agents) \union Skipping(left)
  BY <1>2, <1>9, <1>10, <1>17, <1>19 DEF OnAgents
<1>21. Elements(agents) \union Skipping(left) = DecisionsOn(ids, found, left)
  BY <1>7, Zenon DEF steps, DecisionsOn
<1>22. Elements(book) = Elements(skills) \union DecisionsOn(ids, found, left) \union {gate}
  BY <1>17, <1>21
<1> QED BY <1>18, <1>20, <1>21, <1>22, Zenon DEF skills, gate, LedgerHolds

LEMMA LedgerOfFlow == FlowInv /\ DoneInv => LedgerTellsOutcome
<1> SUFFICES ASSUME FlowInv, DoneInv, NEW r \in Run, Over(r)
             PROVE  /\ \A i \in DOMAIN ledger[r] : ledger[r][i].subject = "agent" =>
                         LET outcomes == OutcomesOf(r, ledger[r][i].value)
                         IN  CASE ledger[r][i].outcome = "skipped"  -> outcomes = {}
                               [] ledger[r][i].outcome = "failed"   -> outcomes \subseteq {"bad", "throws"}
                               [] ledger[r][i].outcome = "selected" -> outcomes \subseteq {"ok", "bare"}
                    /\ {request[r].plugins[i] : i \in DOMAIN request[r].plugins} =
                         {ledger[r][i].value : i \in {j \in DOMAIN ledger[r] : ledger[r][j].subject = "agent"}}
  BY DEF LedgerTellsOutcome
<1> DEFINE came == returned[r]
           found == results[r]
           ids == ran[r]
           left == skipped[r]
           book == ledger[r]
           plugins == request[r].plugins
           Decision(k) == AgentDecision(ids[k], AgentSteps(ids, found, left))
<1>1. /\ request \in Workloads /\ r \in DOMAIN request /\ Running(r)
      /\ Turned(r) /\ Named(r) /\ Traces(came, events[r], found)
      /\ left = {plugins[i] : i \in DOMAIN plugins \ ShouldRun(r)}
  BY DEF FlowInv, FlowType, RequestInv, Over, Running
<1>2. /\ came \in Seq(Came) /\ found \in Seq(Result) /\ ids \in Seq(AgentId)
      /\ DOMAIN came = 1..Len(came)
  BY LenProperties DEF FlowInv, FlowType
<1>3. /\ plugins \in Seq(AgentId) /\ DOMAIN plugins = 1..Len(plugins)
      /\ \A i, k \in 1..Len(plugins) : plugins[i] = plugins[k] => i = k
      /\ ShouldRun(r) \subseteq 1..Len(plugins)
  BY <1>1, Asked
<1>4. left \in SUBSET AgentId
  BY <1>1, <1>3, ElementOfSeq
<1>5. request[r] \in Request
  BY <1>1, PipelineAssumption
<1>6. Len(ids) = Len(found) /\ \A j \in 1..Len(found) : ids[j] = found[j].agent
  BY <1>1 DEF Named
<1>7. {came[k].agent : k \in 1..Len(came)} = {plugins[i] : i \in ShouldRun(r)}
  BY AllHadTurns
<1>8. PICK catalog \in Catalogs : book = Ledger(request[r], ids, found, left, catalog, verdict[r].passed)
  BY DEF DoneInv, Recorded
<1> HIDE DEF came, found, ids, left, book, plugins
<1>9. /\ DOMAIN book = 1..Len(book)
      /\ {d \in Elements(book) : d.subject = "agent"} = {Decision(k) : k \in 1..Len(ids)} \union Skipping(left)
  <2>1. DOMAIN book = 1..Len(book) /\ OnAgents(book) = DecisionsOn(ids, found, left)
    <3>1. LedgerHolds(book, request[r], ids, found, left, catalog, verdict[r].passed)
      BY <1>2, <1>4, <1>5, <1>8, AgentsOfLedger
    <3> QED BY <3>1 DEF LedgerHolds
  <2> QED BY <2>1, Zenon DEF OnAgents, DecisionsOn
\* The decision on an agent that ran goes by the outcome of its turn.
<1>10. ASSUME NEW k \in 1..Len(ids)
       PROVE  /\ Decision(k).value = ids[k]
              /\ \/ Decision(k).outcome = "failed" /\ OutcomesOf(r, ids[k]) \subseteq {"bad", "throws"}
                 \/ Decision(k).outcome = "selected" /\ OutcomesOf(r, ids[k]) \subseteq {"ok", "bare"}
  <2>1. DecidedByTurn(r, k)
    BY <1>1, <1>4, <1>10, DecisionOfTurn DEF FlowInv, came, found, ids, left
  <2>2. DecisionIn(r, k) = Decision(k)
    BY Zenon DEF DecisionIn, found, ids, left
  <2> HIDE DEF Decision
  <2> QED BY <2>1, <2>2 DEF DecidedByTurn, ids
\* A skipped agent had no turn.
<1>11. ASSUME NEW d \in Skipping(left)
       PROVE  d.value \in left /\ d.outcome = "skipped" /\ OutcomesOf(r, d.value) = {}
  <2>1. PICK a \in left : d = Decided("agent", a, "skipped")
    BY <1>11 DEF Skipping
  <2>2. d.value = a /\ d.outcome = "skipped"
    BY <2>1 DEF Decided
  <2>3. PICK i \in DOMAIN plugins \ ShouldRun(r) : a = plugins[i]
    BY <1>1, <2>1 DEF left, plugins
  <2>4. a \notin {plugins[l] : l \in ShouldRun(r)}
    BY <1>3, <2>3
  <2>5. \A k \in DOMAIN came : came[k].agent # a
    BY <1>2, <1>7, <2>4
  <2>6. OutcomesOf(r, a) = {}
    BY <2>5 DEF OutcomesOf, came
  <2> QED BY <2>2, <2>6
<1> HIDE DEF Decision
<1>12. ASSUME NEW i \in DOMAIN book, book[i].subject = "agent"
       PROVE  LET outcomes == OutcomesOf(r, book[i].value)
              IN  CASE book[i].outcome = "skipped"  -> outcomes = {}
                    [] book[i].outcome = "failed"   -> outcomes \subseteq {"bad", "throws"}
                    [] book[i].outcome = "selected" -> outcomes \subseteq {"ok", "bare"}
  <2>1. book[i] \in {Decision(k) : k \in 1..Len(ids)} \union Skipping(left)
    BY <1>9, <1>12 DEF Elements
  <2>2. CASE book[i] \in Skipping(left)
    <3>1. book[i].outcome = "skipped" /\ OutcomesOf(r, book[i].value) = {}
      BY <1>11, <2>2
    <3> QED BY <3>1
  <2>3. CASE book[i] \in {Decision(k) : k \in 1..Len(ids)}
    <3>1. PICK k \in 1..Len(ids) : book[i] = Decision(k)
      BY <2>3
    <3>2. \/ book[i].outcome = "failed" /\ OutcomesOf(r, book[i].value) \subseteq {"bad", "throws"}
          \/ book[i].outcome = "selected" /\ OutcomesOf(r, book[i].value) \subseteq {"ok", "bare"}
      BY <1>10, <3>1
    <3> QED BY <3>2
  <2> QED BY <2>1, <2>2, <2>3
\* Every plugin ran or was skipped.
<1>13. {book[i].value : i \in {j \in DOMAIN book : book[j].subject = "agent"}} =
         {ids[k] : k \in 1..Len(ids)} \union left
  <2> DEFINE values == {d.value : d \in {Decision(k) : k \in 1..Len(ids)} \union Skipping(left)}
  <2>1. {book[i].value : i \in {j \in DOMAIN book : book[j].subject = "agent"}} = values
    <3>1. {book[i].value : i \in {j \in DOMAIN book : book[j].subject = "agent"}} =
            {d.value : d \in {e \in Elements(book) : e.subject = "agent"}}
      BY <1>9 DEF Elements
    <3> QED BY <1>9, <3>1
  <2>2. \A k \in 1..Len(ids) : Decision(k).value = ids[k]
    BY <1>10
  <2>3. {d.value : d \in Skipping(left)} = left
    <3>1. \A a \in left : Decided("agent", a, "skipped").value = a
      BY DEF Decided
    <3> QED BY <3>1 DEF Skipping
  <2> QED BY <2>1, <2>2, <2>3
<1>14. {ids[k] : k \in 1..Len(ids)} = {plugins[i] : i \in ShouldRun(r)}
  <2>1. {ids[k] : k \in 1..Len(ids)} = {found[j].agent : j \in 1..Len(found)}
    BY <1>6
  <2>2. \A k \in 1..Len(came) : \E j \in 1..Len(found) : found[j].agent = came[k].agent
    BY <1>1 DEF Traces
  <2>3. \A j \in 1..Len(found) : \E k \in 1..Len(came) : found[j].agent = came[k].agent
    BY <1>1 DEF Traces
  <2>4. {found[j].agent : j \in 1..Len(found)} = {came[k].agent : k \in 1..Len(came)}
    <3>1. \A k \in 1..Len(came) : came[k].agent \in {found[j].agent : j \in 1..Len(found)}
      BY <2>2
    <3>2. \A j \in 1..Len(found) : found[j].agent \in {came[k].agent : k \in 1..Len(came)}
      BY <2>3
    <3> QED BY <3>1, <3>2
  <2> QED BY <1>7, <2>1, <2>4
<1>15. {plugins[i] : i \in DOMAIN plugins} =
         {book[i].value : i \in {j \in DOMAIN book : book[j].subject = "agent"}}
  <2>1. left = {plugins[i] : i \in DOMAIN plugins \ ShouldRun(r)}
    BY <1>1 DEF left, plugins
  <2> QED BY <1>3, <1>13, <1>14, <2>1
<1> QED BY <1>12, <1>15 DEF book, plugins

\* The ledger of every run that is done, for any plugins, outcomes, skill
\* catalogs and failing appends: an agent's decision is failed or selected by
\* what its own turn came to, skipped if it had none, and no plugin lacks one.
THEOREM LedgerTells == Spec => []LedgerTellsOutcome
BY DoneHolds, LedgerOfFlow, PTL
-----------------------------------------------------------------------------
(* What Attention shows of the runs.                                       *)

\* The subjects and values of the decisions that failed.
Failing(book) == {<<d.subject, d.value>> : d \in {e \in Elements(book) : Bad(e)}}

\* They are what is looked for.
LEMMA FailuresOfBook ==
  ASSUME NEW book, DOMAIN book = 1..Len(book), Len(book) \in Nat
  PROVE  /\ DOMAIN FailuresIn(book) = 1..Len(FailuresIn(book)) /\ Len(FailuresIn(book)) \in Nat
         /\ Elements(FailuresIn(book)) = Failing(book)
<1>1. PICK kept : kept = {i \in DOMAIN book : book[i].outcome \in {"failed", "denied"}}
  OBVIOUS
<1>2. PICK names : names = Subjects(book)
  OBVIOUS
<1>3. PICK found : found = FailuresIn(book)
  OBVIOUS
<1>4. found = At(names, kept)
  BY <1>1, <1>2, <1>3, Zenon DEF FailuresIn
<1>5. \A i \in 1..Len(book) : names[i] = <<book[i].subject, book[i].value>>
  BY <1>2 DEF Subjects
<1>6. kept \in SUBSET (1..Len(book))
  BY <1>1
<1> DEFINE S == {names[i] : i \in 1..Len(book)}
<1>7. found \in Seq(S) /\ Draws(found, names, kept)
  <2>1. \A i \in kept : names[i] \in S
    BY <1>6
  <2> HIDE DEF S
  <2> QED BY <1>4, <1>6, <2>1, AtElements
<1>8. /\ \A j \in 1..Len(found) : \E i \in kept : found[j] = names[i]
      /\ \A i \in kept : \E j \in 1..Len(found) : found[j] = names[i]
  BY <1>7 DEF Draws
<1>9. DOMAIN found = 1..Len(found) /\ Len(found) \in Nat
  BY <1>7, LenProperties
<1>10. ASSUME NEW id \in Elements(found)
       PROVE  id \in Failing(book)
  <2>1. PICK j \in 1..Len(found) : id = found[j]
    BY <1>10 DEF Elements
  <2>2. PICK i \in kept : found[j] = names[i]
    BY <1>8
  <2>3. book[i] \in Elements(book) /\ Bad(book[i])
    BY <1>1, <1>6, <2>2 DEF Elements, Bad
  <2>4. id = <<book[i].subject, book[i].value>>
    BY <1>5, <1>6, <2>1, <2>2
  <2> QED BY <2>3, <2>4 DEF Failing
<1>11. ASSUME NEW id \in Failing(book)
       PROVE  id \in Elements(found)
  <2>1. PICK d \in Elements(book) : Bad(d) /\ id = <<d.subject, d.value>>
    BY <1>11 DEF Failing
  <2>2. PICK i \in 1..Len(book) : d = book[i]
    BY <2>1 DEF Elements
  <2>3. i \in kept
    BY <1>1, <2>1, <2>2 DEF Bad
  <2>4. PICK j \in 1..Len(found) : found[j] = names[i]
    BY <1>8, <2>3
  <2> QED BY <1>5, <2>1, <2>2, <2>4 DEF Elements
<1> QED BY <1>3, <1>9, <1>10, <1>11

\* What failed in a run: its gate, and each agent whose turn did.
Fails(r) ==
  (IF verdict[r].passed THEN {} ELSE {<<"gate", "fail">>})
    \union {<<"agent", a>> : a \in
              {b \in ToSet(ran[r]) : OutcomesOf(r, b) \subseteq {"bad", "throws"}}}

\* That is what the run store holds of the run, and of the skills some that
\* were asked for.
StoredTells(r) ==
  /\ r \in DOMAIN request
  /\ DOMAIN failed[r] = 1..Len(failed[r]) /\ Len(failed[r]) \in Nat
  /\ \A id \in Elements(failed[r]) :
       id \in Fails(r) \/ \E s \in ToSet(request[r].skillIds) : id = <<"skill", s>>
  /\ Fails(r) \subseteq Elements(failed[r])

\* A workflow that ends hands these to the store: what the turns of its agents
\* came to has passed through the results, the steps and the ledger.
LEMMA FinishStores ==
  ASSUME FlowInv, NEW r \in Run, NEW catalog \in Catalogs, Finish(r, catalog),
         DOMAIN failed = Run, stage'[r] # "new", stage[r] = "new"
  PROVE  StoredTells(r)'
<1> DEFINE v == EvaluateQuality(results[r], request[r].kind, request[r].context, ActAvailable)
           req == request[r]
           left == skipped[r]
           skills == Elements(ResolveSkillDecisions(req.skillIds, catalog, Met(req)))
<1>1. PICK book : book = Ledger(req, ran[r], results[r], left, catalog, v.passed)
  OBVIOUS
<1>2. /\ pc[r] = "working" /\ verdict' = [verdict EXCEPT ![r] = v]
      /\ UNCHANGED <<request, ran, returned>>
      /\ Store!Begin(r, FailuresIn(book)) \/ UNCHANGED storeVars
  BY <1>1 DEF Finish
<1>3. Store!Begin(r, FailuresIn(book))
  BY <1>2 DEF storeVars
<1>4. failed'[r] = FailuresIn(book)
  BY <1>3 DEF Store!Begin
<1>5. /\ FlowType /\ request \in Workloads /\ r \in DOMAIN request
      /\ Turned(r) /\ Named(r) /\ Traces(returned[r], events[r], results[r])
      /\ left = {req.plugins[i] : i \in DOMAIN req.plugins \ ShouldRun(r)}
  BY <1>2 DEF FlowInv, FlowType, RequestInv, Running
<1>6. left \in SUBSET AgentId
  <2>1. req.plugins \in Seq(AgentId) /\ DOMAIN req.plugins = 1..Len(req.plugins)
    BY <1>5, Asked
  <2> QED BY <1>5, <2>1, ElementOfSeq
<1>7. req \in Request /\ req.skillIds \in Seq(STRING)
  BY <1>5, PipelineAssumption DEF Request
<1>8. ran[r] \in Seq(AgentId) /\ DOMAIN ran[r] = 1..Len(ran[r])
  BY <1>5, LenProperties DEF FlowType
<1> HIDE DEF v, left, req
<1>9. /\ DOMAIN book = 1..Len(book) /\ Len(book) \in Nat
      /\ Elements(book) = skills \union DecisionsOn(ran[r], results[r], left) \union {GateDecision(v.passed)}
  <2>1. book = Ledger(req, ran[r], results[r], left, catalog, v.passed)
    BY <1>1
  <2>2. req \in Request /\ ran[r] \in Seq(AgentId) /\ left \in SUBSET AgentId
    BY <1>6, <1>7, <1>8
  <2>3. LedgerHolds(book, req, ran[r], results[r], left, catalog, v.passed)
    BY <2>1, <2>2, AgentsOfLedger
  <2> QED BY <2>3, Zenon DEF LedgerHolds, skills
<1>10. \A d \in skills : d.subject = "skill" /\ (Bad(d) => d.value \in ToSet(req.skillIds))
  BY <1>7, SkillsAreListed
<1>11. \A k \in 1..Len(ran[r]) : DecidedByTurn(r, k)
  BY <1>5, <1>6, DecisionOfTurn DEF left
<1> HIDE DEF skills
<1>12. DecisionsOn(ran[r], results[r], left) = {DecisionIn(r, k) : k \in 1..Len(ran[r])} \union Skipping(left)
  BY Zenon DEF DecisionsOn, DecisionIn, left
<1>13. \A d \in Skipping(left) : ~Bad(d)
  BY DEF Skipping, Decided, Bad
<1>14. /\ Bad(GateDecision(v.passed)) <=> ~v.passed
       /\ GateDecision(v.passed).subject = "gate"
       /\ ~v.passed => GateDecision(v.passed).value = "fail"
  BY DEF GateDecision, Decided, Bad
<1>15. /\ DOMAIN FailuresIn(book) = 1..Len(FailuresIn(book)) /\ Len(FailuresIn(book)) \in Nat
       /\ Elements(FailuresIn(book)) = Failing(book)
  BY <1>9, FailuresOfBook
<1>16. \A a : OutcomesOf(r, a)' = OutcomesOf(r, a)
  BY <1>2 DEF OutcomesOf
<1>17. verdict'[r] = v
  BY <1>2, <1>5 DEF FlowType
<1> DEFINE failing == {b \in ToSet(ran[r]) : OutcomesOf(r, b) \subseteq {"bad", "throws"}}
<1>18. Fails(r)' = (IF v.passed THEN {} ELSE {<<"gate", "fail">>}) \union {<<"agent", a>> : a \in failing}
  BY <1>2, <1>16, <1>17 DEF Fails
<1>19. ASSUME NEW d \in Elements(book), Bad(d)
       PROVE  \/ <<d.subject, d.value>> \in Fails(r)'
              \/ d.subject = "skill" /\ d.value \in ToSet(req.skillIds)
  <2>1. CASE d \in skills
    BY <1>10, <1>19, <2>1
  <2>2. CASE d = GateDecision(v.passed)
    <3>1. ~v.passed /\ <<d.subject, d.value>> = <<"gate", "fail">>
      BY <1>14, <1>19, <2>2
    <3> QED BY <1>18, <3>1
  <2>3. CASE d \in DecisionsOn(ran[r], results[r], left)
    <3>1. PICK k \in 1..Len(ran[r]) : d = DecisionIn(r, k)
      BY <1>12, <1>13, <1>19, <2>3
    <3>2. d.subject = "agent" /\ d.value = ran[r][k] /\ OutcomesOf(r, ran[r][k]) \subseteq {"bad", "throws"}
      BY <1>11, <1>19, <3>1 DEF DecidedByTurn, Bad
    <3>3. ran[r][k] \in failing
      BY <1>8, <3>2 DEF ToSet
    <3> HIDE DEF failing
    <3> QED BY <1>18, <3>2, <3>3
  <2> QED BY <1>9, <2>1, <2>2, <2>3
<1>20. ASSUME NEW id \in Fails(r)'
       PROVE  id \in Failing(book)
  <2>1. CASE ~v.passed /\ id = <<"gate", "fail">>
    <3>1. GateDecision(v.passed) \in Elements(book) /\ Bad(GateDecision(v.passed))
      BY <1>9, <1>14, <2>1
    <3> QED BY <1>14, <2>1, <3>1 DEF Failing
  <2>2. CASE \E a \in failing : id = <<"agent", a>>
    <3>1. PICK k \in 1..Len(ran[r]) :
            id = <<"agent", ran[r][k]>> /\ OutcomesOf(r, ran[r][k]) \subseteq {"bad", "throws"}
      BY <1>8, <2>2 DEF ToSet
    <3>2. PICK d : d = DecisionIn(r, k)
      OBVIOUS
    <3>3. DecidedByTurn(r, k)
      BY <1>11
    <3>4. d.subject = "agent" /\ d.value = ran[r][k] /\ Bad(d)
      BY <3>1, <3>2, <3>3 DEF DecidedByTurn, Bad
    <3>5. d \in Elements(book)
      BY <1>9, <1>12, <3>2
    <3> QED BY <3>1, <3>4, <3>5 DEF Failing
  <2> QED BY <1>18, <2>1, <2>2
<1>21. r \in DOMAIN request' /\ request'[r] = req
  BY <1>2, <1>5 DEF req
<1>22. Fails(r)' \subseteq Elements(failed'[r])
  BY <1>4, <1>15, <1>20
<1>23. ASSUME NEW id \in Elements(failed'[r])
       PROVE  id \in Fails(r)' \/ \E s \in ToSet(req.skillIds) : id = <<"skill", s>>
  <2>1. PICK d \in Elements(book) : Bad(d) /\ id = <<d.subject, d.value>>
    BY <1>4, <1>15, <1>23 DEF Failing
  <2> QED BY <1>19, <2>1
<1>24. Elements(failed[r])' = Elements(failed'[r]) /\ Len(failed[r])' = Len(failed'[r])
  BY DEF Elements
<1> QED BY <1>4, <1>15, <1>21, <1>22, <1>23, <1>24 DEF StoredTells

\* The run store of the pipeline: a row is written after its file is whole,
\* and a run past that point has its file left alone; so is a run whose row is
\* in the index.
FilesInv ==
  /\ stage \in [Run -> Store!Stage]
  /\ file \in [Run -> {"absent", "torn", "whole"}]
  /\ index \in Seq(Run)
  /\ DOMAIN failed = Run
  /\ \A r \in Run : stage[r] \in {"filed", "kept"} => file[r] = "whole"
  /\ \A i \in 1..Len(index) : stage[index[i]] \in {"kept", "lost"} /\ file[index[i]] = "whole"

\* What the index can become: rows only go from its end, and the row that
\* comes is that of the run at hand.
LEMMA RowsOfIndex ==
  ASSUME index \in Seq(Run), NEW r \in Run
  PROVE  /\ Store!Unbroken \in Seq(Run) /\ Store!WithRow(r) \in Seq(Run)
         /\ \A i \in 1..Len(Store!Unbroken) : i \in 1..Len(index) /\ Store!Unbroken[i] = index[i]
         /\ \A i \in 1..Len(Store!WithRow(r)) :
              \/ i \in 1..Len(index) /\ Store!WithRow(r)[i] = index[i]
              \/ Store!WithRow(r)[i] = r
BY DEF Store!Unbroken, Store!WithRow, Store!Front

\* What keeps the invariant: the index is cut or gains a run with its file.
LEMMA IndexStep ==
  ASSUME FilesInv, NEW r \in Run, file[r] = "whole",
         NEW s \in {"kept", "lost"}, stage' = [stage EXCEPT ![r] = s], failed' = failed,
         file' = file, index' \in {Store!Unbroken, Store!WithRow(r), index}
  PROVE  FilesInv'
<1> USE DEF FilesInv, Store!Stage
<1>1. index' \in Seq(Run)
  BY RowsOfIndex
<1>2. \A i \in 1..Len(index') :
        (i \in 1..Len(index) /\ index'[i] = index[i]) \/ index'[i] = r
  BY RowsOfIndex
<1>3. stage' \in [Run -> Store!Stage] /\ stage'[r] = s
  OBVIOUS
<1>4. ASSUME NEW i \in 1..Len(index')
      PROVE  stage'[index'[i]] \in {"kept", "lost"} /\ file'[index'[i]] = "whole"
  <2>1. CASE index'[i] = r
    BY <1>3, <2>1
  <2>2. CASE i \in 1..Len(index) /\ index'[i] = index[i]
    BY <2>2
  <2> QED BY <1>2, <2>1, <2>2
<1> QED BY <1>1, <1>3, <1>4

\* A step of the pipeline is one of its store, or leaves that alone.
LEMMA StoreMoves ==
  ASSUME [Next]_vars
  PROVE  \/ UNCHANGED storeVars
         \/ \E r \in Run : Store!Persist(r) \/ \E failures : Store!Begin(r, failures)
<1>1. CASE UNCHANGED vars
  BY <1>1 DEF vars
<1>2. ASSUME NEW r \in Run, RejectEarly(r) \/ RejectLate(r) \/ Start(r)
      PROVE  UNCHANGED storeVars
  BY <1>2 DEF RejectEarly, RejectLate, Start
<1>3. ASSUME NEW r \in Run, NEW outcome \in Outcome,
             AgentDone(r, outcome) \/ AgentCaught(r, outcome) \/ AgentAborts(r, outcome)
      PROVE  UNCHANGED storeVars
  BY <1>3 DEF AgentDone, AgentCaught, AgentAborts, Settle
<1>4. ASSUME NEW r \in Run, NEW catalog \in Catalogs, Finish(r, catalog)
      PROVE  UNCHANGED storeVars \/ \E failures : Store!Begin(r, failures)
  BY <1>4 DEF Finish
<1>5. ASSUME NEW r \in Run, Persist(r)
      PROVE  Store!Persist(r)
  BY <1>5 DEF Persist
<1>6. ASSUME NEW r \in Run, Crash(r)
      PROVE  UNCHANGED storeVars \/ Store!Persist(r)
  BY <1>6 DEF Crash, Store!Persist
<1> QED BY <1>1, <1>2, <1>3, <1>4, <1>5, <1>6 DEF Next

\* No step of the pipeline leaves a row without its file.
LEMMA FilesStep ==
  ASSUME FilesInv, [Next]_vars
  PROVE  FilesInv'
<1> USE DEF Store!Stage
<1>1. ASSUME NEW r \in Run, NEW failures, Store!Begin(r, failures)
      PROVE  FilesInv'
  BY <1>1 DEF Store!Begin, FilesInv
<1>2. ASSUME NEW r \in Run, Store!WriteFile(r)
      PROVE  FilesInv'
  BY <1>2 DEF Store!WriteFile, FilesInv
<1>3. ASSUME NEW r \in Run, Store!TearFile(r)
      PROVE  FilesInv'
  BY <1>3 DEF Store!TearFile, FilesInv
<1>4. ASSUME NEW r \in Run, Store!AppendRow(r)
      PROVE  FilesInv'
  BY <1>4, IndexStep DEF Store!AppendRow, FilesInv
<1>5. ASSUME NEW r \in Run, Store!TearRow(r)
      PROVE  FilesInv'
  BY <1>5, IndexStep DEF Store!TearRow, FilesInv
<1>6. ASSUME NEW r \in Run, Store!Abandon(r)
      PROVE  FilesInv'
  BY <1>6 DEF Store!Abandon, FilesInv
<1>7. CASE UNCHANGED storeVars
  BY <1>7 DEF storeVars, FilesInv
<1> QED BY <1>1, <1>2, <1>3, <1>4, <1>5, <1>6, <1>7, StoreMoves DEF Store!Persist

\* How a step moves a request on towards its end, and the store with it.
MovesTo(r) ==
  /\ pc'[r] \in {"new", "working"} => pc[r] \in {"new", "working"}
  /\ pc[r] \in {"persisting", "answered", "dead"} =>
       /\ pc'[r] \in {"persisting", "answered", "dead"}
       /\ request' = request /\ ran'[r] = ran[r] /\ returned'[r] = returned[r]
       /\ verdict'[r] = verdict[r]
  /\ stage[r] = "new" /\ stage'[r] # "new" => \E catalog \in Catalogs : Finish(r, catalog)
  /\ stage[r] # "new" => stage'[r] # "new" /\ failed'[r] = failed[r]

\* Every step moves every request so, its own and the others'.
LEMMA RequestMoves ==
  ASSUME FlowInv, FilesInv, [Next]_vars, NEW r \in Run
  PROVE  MovesTo(r)
<1> USE DEF MovesTo
<1>1. FlowType /\ stage \in [Run -> Store!Stage] /\ DOMAIN failed = Run
  BY DEF FlowInv, FilesInv
<1>2. CASE UNCHANGED vars
  BY <1>2 DEF vars, flowVars, storeVars
<1>3. ASSUME NEW q \in Run, RejectEarly(q) \/ RejectLate(q) PROVE MovesTo(r)
  BY <1>1, <1>3 DEF RejectEarly, RejectLate, FlowType, storeVars
<1>4. ASSUME NEW q \in Run, Start(q) PROVE MovesTo(r)
  BY <1>1, <1>4 DEF Start, FlowType, storeVars
<1>5. ASSUME NEW q \in Run, NEW outcome \in Outcome,
             AgentDone(q, outcome) \/ AgentCaught(q, outcome) \/ AgentAborts(q, outcome)
      PROVE  MovesTo(r)
  <2>1. Settle(q, outcome) /\ pc' \in {pc, [pc EXCEPT ![q] = "aborted"]}
    BY <1>5 DEF AgentDone, AgentCaught, AgentAborts
  <2>2. pc[q] = "working" /\ UNCHANGED <<request, skipped, verdict, ledger, storeVars>>
    BY <2>1 DEF Settle
  <2>3. q # r => pc'[r] = pc[r]
    BY <1>1, <2>1, <2>2 DEF FlowType
  <2>4. q # r => ran'[r] = ran[r] /\ returned'[r] = returned[r]
    BY <1>1, <1>5, <2>1 DEF AgentDone, AgentCaught, AgentAborts, Settle, Push, FlowType
  <2> QED BY <1>1, <2>1, <2>2, <2>3, <2>4 DEF FlowType, storeVars
<1>6. ASSUME NEW q \in Run, NEW catalog \in Catalogs, Finish(q, catalog) PROVE MovesTo(r)
  <2>1. /\ pc[q] = "working" /\ UNCHANGED <<request, ran, returned>>
        /\ pc' \in {[pc EXCEPT ![q] = "persisting"], [pc EXCEPT ![q] = "answered"]}
        /\ q # r => verdict'[r] = verdict[r]
    BY <1>1, <1>6 DEF Finish, FlowType
  <2>2. CASE UNCHANGED storeVars
    BY <1>1, <2>1, <2>2 DEF FlowType, storeVars
  <2>3. ASSUME NEW failures, Store!Begin(q, failures) PROVE MovesTo(r)
    <3>1. /\ stage[q] = "new" /\ stage' = [stage EXCEPT ![q] = "stamped"]
          /\ failed' = [failed EXCEPT ![q] = failures]
      BY <2>3 DEF Store!Begin
    <3>2. q # r => stage'[r] = stage[r] /\ failed'[r] = failed[r]
      BY <1>1, <3>1
    <3>3. CASE q # r
      BY <1>1, <2>1, <3>2, <3>3 DEF FlowType
    <3>4. CASE q = r
      BY <1>1, <1>6, <2>1, <3>1, <3>4 DEF FlowType
    <3> QED BY <3>3, <3>4
  <2>4. UNCHANGED storeVars \/ \E failures : Store!Begin(q, failures)
    BY <1>6 DEF Finish
  <2> QED BY <2>2, <2>3, <2>4
<1>7. ASSUME NEW q \in Run, Store!Persist(q)
      PROVE  /\ stage[r] = "new" => stage'[r] = "new"
             /\ stage[r] # "new" => stage'[r] # "new" /\ failed'[r] = failed[r]
  BY <1>1, <1>7 DEF Store!Persist, Store!WriteFile, Store!TearFile, Store!AppendRow, Store!TearRow, Store!Abandon
<1>8. ASSUME NEW q \in Run, Persist(q) PROVE MovesTo(r)
  <2>1. /\ pc[q] = "persisting" /\ Store!Persist(q)
        /\ pc' \in {[pc EXCEPT ![q] = "persisting"], [pc EXCEPT ![q] = "answered"]}
        /\ UNCHANGED <<request, ran, returned, verdict>>
    BY <1>8 DEF Persist
  <2> QED BY <1>1, <1>7, <2>1 DEF FlowType
<1>9. ASSUME NEW q \in Run, Crash(q) PROVE MovesTo(r)
  <2>1. /\ pc[q] \in {"working", "persisting"} /\ pc' = [pc EXCEPT ![q] = "dead"]
        /\ UNCHANGED storeVars \/ Store!Persist(q)
        /\ UNCHANGED <<request, ran, returned, verdict>>
    BY <1>9 DEF Crash, Store!Persist
  <2>2. /\ stage[r] = "new" => stage'[r] = "new"
        /\ stage[r] # "new" => stage'[r] # "new" /\ failed'[r] = failed[r]
    BY <1>7, <2>1 DEF storeVars
  <2> QED BY <1>1, <2>1, <2>2 DEF FlowType
<1> QED BY <1>2, <1>3, <1>4, <1>5, <1>6, <1>8, <1>9 DEF Next

\* A run comes to the store once it is over, with what failed in it, and
\* neither changes any more.
StoredInv ==
  \A r \in Run :
    /\ pc[r] \in {"new", "working"} => stage[r] = "new"
    /\ stage[r] # "new" => pc[r] \in {"persisting", "answered", "dead"} /\ StoredTells(r)

\* What a run stored tells is not touched.
LEMMA ToldStays ==
  ASSUME NEW r \in Run, StoredTells(r), request' = request, ran'[r] = ran[r],
         returned'[r] = returned[r], verdict'[r] = verdict[r], failed'[r] = failed[r]
  PROVE  StoredTells(r)'
<1>1. \A a : OutcomesOf(r, a)' = OutcomesOf(r, a)
  BY DEF OutcomesOf
<1>2. Fails(r)' = Fails(r)
  BY <1>1 DEF Fails
<1>3. Elements(failed[r])' = Elements(failed[r])
  BY DEF Elements
<1> QED BY <1>2, <1>3 DEF StoredTells

\* Only a workflow that ends brings a run to the store.
LEMMA StoredStep ==
  ASSUME FlowInv, FilesInv, StoredInv, [Next]_vars
  PROVE  StoredInv'
<1> SUFFICES ASSUME NEW r \in Run
             PROVE  /\ pc'[r] \in {"new", "working"} => stage'[r] = "new"
                    /\ stage'[r] # "new" => pc'[r] \in {"persisting", "answered", "dead"} /\ StoredTells(r)'
  BY DEF StoredInv
<1>1. MovesTo(r)
  BY RequestMoves
<1>2. CASE stage[r] # "new"
  <2>1. pc[r] \in {"persisting", "answered", "dead"} /\ StoredTells(r)
    BY <1>2 DEF StoredInv
  <2>2. /\ pc'[r] \in {"persisting", "answered", "dead"}
        /\ request' = request /\ ran'[r] = ran[r] /\ returned'[r] = returned[r]
        /\ verdict'[r] = verdict[r] /\ failed'[r] = failed[r]
    BY <1>1, <1>2, <2>1 DEF MovesTo
  <2> QED BY <2>1, <2>2, ToldStays
<1>3. CASE stage[r] = "new" /\ stage'[r] = "new"
  BY <1>3
<1>4. CASE stage[r] = "new" /\ stage'[r] # "new"
  <2>1. PICK catalog \in Catalogs : Finish(r, catalog)
    BY <1>1, <1>4 DEF MovesTo
  <2>2. pc'[r] \in {"persisting", "answered"}
    BY <2>1 DEF Finish, FlowInv, FlowType
  <2>3. StoredTells(r)'
    BY <1>4, <2>1, FinishStores DEF FilesInv
  <2> QED BY <2>2, <2>3
<1> QED BY <1>2, <1>3, <1>4

\* A row in the window is of a run that is stored.
LEMMA WindowOfStore ==
  ASSUME FilesInv
  PROVE  LET rowsOf == Store!Listed(Window)
         IN  /\ rowsOf \in Seq(Run) /\ Len(rowsOf) \in Nat
             /\ \A i \in 1..Len(rowsOf) : file[rowsOf[i]] = "whole" /\ stage[rowsOf[i]] # "new"
             /\ DOMAIN Store!NewestFirst = 1..Len(rowsOf)
             /\ \A n \in 1..Len(rowsOf) : Store!NewestFirst[n] = rowsOf[(Len(rowsOf) - n) + 1]
<1> DEFINE from == IF Len(index) > Window THEN Len(index) - Window + 1 ELSE 1
           rowsOf == Store!Listed(Window)
<1>1. Len(index) \in Nat /\ Window \in Nat
  BY LenProperties, PipelineAssumption DEF FilesInv
<1>2. from \in Nat \ {0}
  BY <1>1
<1>3. rowsOf = SubSeq(index, from, Len(index))
  BY DEF Store!Listed
<1> HIDE DEF rowsOf
<1>4. \A i \in from..Len(index) : index[i] \in Run
  BY <1>1, <1>2, ElementOfSeq DEF FilesInv
<1>5. /\ rowsOf \in Seq(Run)
      /\ Len(rowsOf) = IF from <= Len(index) THEN Len(index) - from + 1 ELSE 0
      /\ \A i \in 1..Len(index) - from + 1 : rowsOf[i] = index[from + i - 1]
  BY <1>1, <1>2, <1>3, <1>4, SubSeqProperties
<1>6. ASSUME NEW i \in 1..Len(rowsOf)
      PROVE  file[rowsOf[i]] = "whole" /\ stage[rowsOf[i]] # "new"
  <2>1. from + i - 1 \in 1..Len(index) /\ i \in 1..Len(index) - from + 1
    BY <1>1, <1>2, <1>5
  <2> QED BY <1>5, <2>1 DEF FilesInv
<1>7. Len(rowsOf) \in Nat
  BY <1>5, LenProperties
<1>8. Store!NewestFirst = [n \in 1..Len(rowsOf) |-> rowsOf[(Len(rowsOf) - n) + 1]]
  BY Zenon DEF Store!NewestFirst, Store!Reverse, rowsOf
<1> QED BY <1>5, <1>6, <1>7, <1>8 DEF rowsOf

\* Each failure of the window has its place.
LEMMA FailuresHavePlaces ==
  ASSUME FilesInv, StoredInv
  PROVE  LET rowsOf == Store!Listed(Window)
         IN  /\ Store!Found \in SUBSET (Nat \X Nat) /\ IsFiniteSet(Store!Found)
             /\ \A p \in Store!Found :
                  \E i \in 1..Len(rowsOf) : /\ Store!Item(p).run = rowsOf[i]
                                            /\ Store!Item(p).id \in Elements(failed[rowsOf[i]])
             /\ \A i \in 1..Len(rowsOf) : \A id \in Elements(failed[rowsOf[i]]) :
                  \E p \in Store!Found : Store!Item(p).id = id
<1> DEFINE rowsOf == Store!Listed(Window)
           n == Len(rowsOf)
           newest == Store!NewestFirst
<1>1. /\ rowsOf \in Seq(Run) /\ n \in Nat
      /\ \A i \in 1..n : file[rowsOf[i]] = "whole" /\ stage[rowsOf[i]] # "new"
      /\ DOMAIN newest = 1..n
      /\ \A m \in 1..n : newest[m] = rowsOf[(n - m) + 1]
  BY WindowOfStore
<1> HIDE DEF rowsOf
<1>2. \A i \in 1..n : rowsOf[i] \in Run
  BY <1>1, ElementOfSeq
<1>3. \A m \in 1..n : (n - m) + 1 \in 1..n
  BY <1>1
<1>4. ASSUME NEW m \in 1..n
      PROVE  /\ Store!Loads(newest[m])
             /\ DOMAIN failed[newest[m]] = 1..Len(failed[newest[m]])
             /\ Len(failed[newest[m]]) \in Nat
             /\ IsFiniteSet(DOMAIN failed[newest[m]])
  <2>1. PICK i \in 1..n : newest[m] = rowsOf[i]
    BY <1>1, <1>3
  <2>2. PICK r \in Run : r = rowsOf[i]
    BY <1>2
  <2>3. StoredTells(r) /\ file[r] = "whole"
    BY <1>1, <2>2 DEF StoredInv
  <2>4. DOMAIN failed[r] = 1..Len(failed[r]) /\ Len(failed[r]) \in Nat
    BY <2>3 DEF StoredTells
  <2>5. IsFiniteSet(DOMAIN failed[r])
    BY <2>4, FS_Interval
  <2> HIDE DEF newest
  <2>6. newest[m] = r
    BY <2>1, <2>2
  <2> QED BY <2>3, <2>4, <2>5, <2>6 DEF Store!Loads
<1> DEFINE Of(m) == {m} \X DOMAIN failed[newest[m]]
<1>6. Store!Found = UNION {Of(m) : m \in 1..n}
  <2>1. {m \in DOMAIN newest : Store!Loads(newest[m])} = 1..n
    BY <1>1, <1>4
  <2> QED BY <2>1, Zenon DEF Store!Found
<1> HIDE DEF newest
<1>7. \A m \in 1..n : IsFiniteSet(Of(m)) /\ Of(m) \in SUBSET (Nat \X Nat)
  <2> SUFFICES ASSUME NEW m \in 1..n
               PROVE  IsFiniteSet(Of(m)) /\ Of(m) \in SUBSET (Nat \X Nat)
    OBVIOUS
  <2>1. IsFiniteSet({m}) /\ IsFiniteSet(DOMAIN failed[newest[m]])
    BY <1>4, FS_Singleton
  <2>2. IsFiniteSet(Of(m))
    BY <2>1, FS_Product
  <2>3. DOMAIN failed[newest[m]] \subseteq Nat
    BY <1>4
  <2> QED BY <2>2, <2>3
<1>8. IsFiniteSet(Store!Found)
  <2> DEFINE of == [m \in 1..n |-> Of(m)]
             T == {Of(m) : m \in 1..n}
  <2>1. IsFiniteSet(1..n)
    BY <1>1, FS_Interval
  <2>2. of \in Surjection(1..n, T)
    BY DEF Surjection
  <2>3. IsFiniteSet(T)
    BY <2>1, <2>2, FS_Surjection
  <2>4. \A U \in T : IsFiniteSet(U)
    BY <1>7
  <2> QED BY <1>6, <2>3, <2>4, FS_UNION
<1>9. Store!Found \in SUBSET (Nat \X Nat)
  BY <1>6, <1>7
<1>10. ASSUME NEW p \in Store!Found
       PROVE  \E i \in 1..n : /\ Store!Item(p).run = rowsOf[i]
                              /\ Store!Item(p).id \in Elements(failed[rowsOf[i]])
  <2>1. PICK m \in 1..n : p \in Of(m)
    BY <1>6
  <2>2. p[1] = m /\ p[2] \in DOMAIN failed[newest[m]]
    BY <2>1
  <2>3. PICK i \in 1..n : newest[m] = rowsOf[i]
    BY <1>1, <1>3 DEF newest
  <2>4. p[2] \in 1..Len(failed[newest[m]])
    BY <1>4, <2>2
  <2>5. Store!Item(p) = [id |-> failed[newest[m]][p[2]], run |-> newest[m]]
    BY <2>2 DEF Store!Item, newest
  <2>6. Store!Item(p).id \in Elements(failed[newest[m]])
    BY <2>4, <2>5 DEF Elements
  <2> QED BY <2>3, <2>5, <2>6
<1>11. ASSUME NEW i \in 1..n, NEW id \in Elements(failed[rowsOf[i]])
       PROVE  \E p \in Store!Found : Store!Item(p).id = id
  <2>1. PICK k \in 1..Len(failed[rowsOf[i]]) : failed[rowsOf[i]][k] = id
    BY <1>11 DEF Elements
  <2>2. PICK m : m = (n - i) + 1
    OBVIOUS
  <2>3. m \in 1..n /\ (n - m) + 1 = i
    BY <1>1, <2>2
  <2>4. newest[m] = rowsOf[i]
    BY <1>1, <2>3 DEF newest
  <2>5. k \in DOMAIN failed[newest[m]]
    BY <1>4, <2>1, <2>3, <2>4
  <2>6. <<m, k>> \in Of(m)
    BY <2>5
  <2>7. <<m, k>> \in Store!Found
    BY <1>6, <2>3, <2>6
  <2>8. Store!Item(<<m, k>>).id = id
    BY <2>1, <2>4 DEF Store!Item, newest
  <2> QED BY <2>7, <2>8
<1> QED BY <1>8, <1>9, <1>10, <1>11 DEF rowsOf

\* The invariant gives the property: what is found is in the window, and of
\* what is in the window nothing goes unseen while there is room.
LEMMA ShownOfStore ==
  ASSUME FlowInv, FilesInv, StoredInv
  PROVE  FailuresShow
<1> PICK rowsOf : rowsOf = Store!Listed(Window)
  OBVIOUS
<1> DEFINE n == Len(rowsOf)
           Shown == Store!Skim
           ids == [p \in Store!Found |-> Store!Item(p).id]
<1> PICK kept : kept = FirstNew(Store!Found, ids, MaxItems)
  OBVIOUS
<1>1. /\ rowsOf \in Seq(Run) /\ n \in Nat
      /\ \A i \in 1..n : stage[rowsOf[i]] # "new"
  BY WindowOfStore
<1>2. DOMAIN rowsOf = 1..n /\ \A i \in 1..n : rowsOf[i] \in Run
  BY <1>1, LenProperties, ElementOfSeq
<1>3. /\ Store!Found \in SUBSET (Nat \X Nat) /\ IsFiniteSet(Store!Found)
      /\ \A p \in Store!Found :
           \E i \in 1..n : /\ Store!Item(p).run = rowsOf[i]
                           /\ Store!Item(p).id \in Elements(failed[rowsOf[i]])
      /\ \A i \in 1..n : \A id \in Elements(failed[rowsOf[i]]) :
           \E p \in Store!Found : Store!Item(p).id = id
  BY FailuresHavePlaces
<1>4. /\ FirstsTell(kept, Store!Found, ids, MaxItems) /\ IsFiniteSet(kept)
      /\ \A p, q \in kept : ids[p] = ids[q] => p = q
  BY <1>3, PipelineAssumption, FirstNewTells
<1>5. Shown = {Store!Item(p) : p \in kept}
  <2>1. Store!FirstNew(Store!Found, ids, MaxItems) = kept
    BY Zenon DEF Store!FirstNew, FirstNew, Store!Before, Before, Store!Cardinality, Cardinality
  <2> QED BY <2>1, Zenon DEF Store!Skim
<1>6. kept \subseteq Store!Found
  BY <1>4 DEF FirstsTell
<1>7. \A i \in 1..n : StoredTells(rowsOf[i])
  BY <1>1, <1>2 DEF StoredInv
<1>8. ToSet(rowsOf) = {rowsOf[i] : i \in 1..n}
  BY <1>2 DEF ToSet
<1>9. ASSUME NEW x \in Shown
      PROVE  /\ x.run \in ToSet(rowsOf)
             /\ \/ x.id \in Fails(x.run)
                \/ \E s \in ToSet(request[x.run].skillIds) : s \in STRING /\ x.id = <<"skill", s>>
  <2>1. PICK p \in kept : x = Store!Item(p)
    BY <1>5
  <2>2. PICK i \in 1..n : x.run = rowsOf[i] /\ x.id \in Elements(failed[rowsOf[i]])
    BY <1>3, <1>6, <2>1
  <2>3. PICK r : r = rowsOf[i] /\ r = x.run
    BY <2>2
  <2>4. StoredTells(r) /\ x.id \in Elements(failed[r])
    BY <1>7, <2>2, <2>3
  <2>5. ToSet(request[r].skillIds) \subseteq STRING
    <3>1. request[r].skillIds \in Seq(STRING)
      BY <2>4, PipelineAssumption DEF StoredTells, FlowInv, FlowType, Request
    <3> QED BY <3>1, LenProperties, ElementOfSeq DEF ToSet
  <2>6. x.id \in Fails(r) \/ \E s \in ToSet(request[r].skillIds) : x.id = <<"skill", s>>
    BY <2>4 DEF StoredTells
  <2> QED BY <1>8, <2>2, <2>3, <2>5, <2>6
<1>10. ASSUME Cardinality(Shown) < MaxItems, NEW r \in ToSet(rowsOf), NEW id \in Fails(r)
       PROVE  \E x \in Shown : x.id = id
  <2>1. Cardinality(kept) = Cardinality(Shown)
    <3> DEFINE f == [p \in kept |-> Store!Item(p)]
    <3>1. f \in Bijection(kept, Shown)
      <4>1. \A p, q \in kept : f[p] = f[q] => p = q
        BY <1>4, <1>6
      <4>2. f \in [kept -> Shown] /\ \A item \in Shown : \E p \in kept : f[p] = item
        BY <1>5
      <4> QED BY <4>1, <4>2 DEF Bijection, Injection, Surjection, IsInjective
    <3>2. ExistsBijection(kept, Shown)
      BY <3>1 DEF ExistsBijection
    <3> QED BY <1>4, <3>2, FS_Bijection
  <2>2. \A p \in Store!Found : \E q \in kept : ids[q] = ids[p]
    BY <1>4, <1>10, <2>1 DEF FirstsTell
  <2>3. PICK i \in 1..n : r = rowsOf[i]
    BY <1>8
  <2>4. id \in Elements(failed[rowsOf[i]])
    BY <1>7, <2>3 DEF StoredTells
  <2>5. PICK p \in Store!Found : Store!Item(p).id = id
    BY <1>3, <2>4
  <2>6. PICK q \in kept : ids[q] = ids[p]
    BY <2>2
  <2> QED BY <1>5, <1>6, <2>5, <2>6
<1>11. \A r, id : id \in Fails(r) => id[1] \in {"gate", "agent"} /\ id \notin {"skill"} \X STRING
  BY DEF Fails
<1> HIDE DEF Shown
<1>12. \A s \in STRING : <<"skill", s>> \in {"skill"} \X STRING
  <2>1. \A S, a : \A s \in S : <<a, s>> \in {a} \X S
    OBVIOUS
  <2> QED BY <2>1, Zenon
<1>13. ASSUME Cardinality(Shown) < MaxItems
       PROVE  {x.id : x \in Shown} \ ({"skill"} \X STRING) = UNION {Fails(r) : r \in ToSet(rowsOf)}
  <2>1. ASSUME NEW x \in Shown, x.id \notin {"skill"} \X STRING
        PROVE  x.id \in Fails(x.run) /\ x.run \in ToSet(rowsOf)
    <3>1. \A s \in STRING : x.id # <<"skill", s>>
      BY <1>12, <2>1, Zenon
    <3> QED BY <1>9, <3>1, Zenon
  <2>2. ASSUME NEW r \in ToSet(rowsOf), NEW id \in Fails(r)
        PROVE  id \notin {"skill"} \X STRING /\ \E x \in Shown : x.id = id
    BY <1>10, <1>11, <1>13
  <2> QED BY <2>1, <2>2
<1>14. ASSUME NEW x \in Shown
       PROVE  IF x.id[1] = "skill" THEN x.id[2] \in ToSet(request[x.run].skillIds)
                                   ELSE x.id \in Fails(x.run)
  BY <1>9, <1>11
<1> QED BY <1>13, <1>14, Zenon DEF FailuresShow, Fails, Shown

\* Attention, from the plugins to the skim: while it is not full it shows
\* exactly the gates and agents that failed in a run of its window, each with
\* such a run, and no skill that nobody asked for.
THEOREM AttentionShowsFailures == Spec => []FailuresShow
<1>1. Init => FilesInv /\ StoredInv
  BY DEF Init, Store!Init, FilesInv, StoredInv, Store!Stage
<1>2. FlowInv /\ FilesInv /\ StoredInv /\ [Next]_vars => FilesInv' /\ StoredInv'
  BY FilesStep, StoredStep
<1>3. FlowInv /\ FilesInv /\ StoredInv => FailuresShow
  BY ShownOfStore
<1> QED BY <1>1, <1>2, <1>3, FlowHolds, PTL DEF Spec
=============================================================================
