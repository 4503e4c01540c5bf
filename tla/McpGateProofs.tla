---------------------------- MODULE McpGateProofs ----------------------------
(***************************************************************************)
(* For any calls, environments, skill catalogs and failing appends: what   *)
(* lets a call into the body of its tool, and what the event log tells.    *)
(***************************************************************************)
EXTENDS McpGate, PlacesProofs

-----------------------------------------------------------------------------
(* Operators of the model.                                                 *)

\* authorizeMcpTool() says "allowed" only of what PrivilegeBinds asks for.
LEMMA AllowedBinds ==
  ASSUME NEW req, NEW must, AuthorizeMcpTool(req, must) = "allowed"
  PROVE  LET caller   == ResolveCallerPrivilege(req.env)
             required == PrivilegeForMcpTool(req.tool)
         IN  /\ caller = "READ_ONLY" => required = "READ_ONLY"
             /\ caller = "SAFE_WRITE" => required \in {"READ_ONLY", "SAFE_WRITE"}
             /\ required = "PRIVILEGED" =>
                  /\ caller \in {"PRIVILEGED", "HUMAN_APPROVAL_REQUIRED"}
                  /\ req.env.allowPrivileged
             /\ must /\ req.tool \in SafeWriteConsentTools => req.env.allowSafeWrite
<1> DEFINE caller   == ResolveCallerPrivilege(req.env)
           required == PrivilegeForMcpTool(req.tool)
<1>1. required \in Privilege
  BY DEF PrivilegeForMcpTool, Privilege, PrivilegeRank
<1>2. caller \in Privilege
  BY DEF ResolveCallerPrivilege, Privilege, PrivilegeRank
<1>3. /\ required # "HUMAN_APPROVAL_REQUIRED"
      /\ ~(PrivilegeRank[caller] < PrivilegeRank[required])
      /\ ~(required = "PRIVILEGED" /\ ~req.env.allowPrivileged)
      /\ ~(must /\ req.tool \in SafeWriteConsentTools /\ ~req.env.allowSafeWrite)
  BY DEF AuthorizeMcpTool
<1> HIDE DEF caller, required
<1>4. /\ caller = "READ_ONLY" => required = "READ_ONLY"
      /\ caller = "SAFE_WRITE" => required \in {"READ_ONLY", "SAFE_WRITE"}
      /\ required = "PRIVILEGED" => caller \in {"PRIVILEGED", "HUMAN_APPROVAL_REQUIRED"}
  BY <1>1, <1>2, <1>3 DEF Privilege, PrivilegeRank
<1> QED BY <1>3, <1>4 DEF caller, required

\* What is left of a list without its last row.
LEMMA FrontOfSeq ==
  ASSUME NEW S, NEW s \in Seq(S), Len(s) > 0
  PROVE  /\ Front(s) \in Seq(S)
         /\ Len(Front(s)) = Len(s) - 1
         /\ \A i \in 1..Len(s) - 1 : Front(s)[i] = s[i]
<1>1. Len(s) \in Nat /\ Len(s) - 1 \in Int /\ 1 \in Int
  BY LenProperties
<1>2. \A i \in 1..Len(s) - 1 : s[i] \in S
  BY <1>1, ElementOfSeq
<1>3. /\ SubSeq(s, 1, Len(s) - 1) \in Seq(S)
      /\ Len(SubSeq(s, 1, Len(s) - 1)) = IF 1 <= Len(s) - 1 THEN Len(s) - 1 - 1 + 1 ELSE 0
      /\ \A i \in 1..(Len(s) - 1 - 1 + 1) : SubSeq(s, 1, Len(s) - 1)[i] = s[1 + i - 1]
  BY <1>1, <1>2, SubSeqProperties
<1>4. \A n \in Nat : n > 0 => n - 1 - 1 + 1 = n - 1 /\ (~(1 <= n - 1) => n - 1 = 0)
  OBVIOUS
<1>5. \A i \in 1..Len(s) - 1 : 1 + i - 1 = i
  BY <1>1
<1>6. \A i \in 1..Len(s) - 1 : Front(s)[i] = s[i]
  BY <1>1, <1>3, <1>4, <1>5, Zenon DEF Front
<1>7. Len(Front(s)) = Len(s) - 1
  BY <1>1, <1>3, <1>4, Zenon DEF Front
<1> QED BY <1>3, <1>6, <1>7 DEF Front

\* A set that gains one element at most grows by one at most.
LEMMA OneMore ==
  ASSUME NEW M, IsFiniteSet(M), NEW x, NEW N, N \subseteq M \union {x}
  PROVE  /\ IsFiniteSet(N)
         /\ Cardinality(N) \in Nat /\ Cardinality(M) \in Nat
         /\ Cardinality(N) <= Cardinality(M) + 1
         /\ N \subseteq M => Cardinality(N) <= Cardinality(M)
<1>1. Cardinality(M) \in Nat
  BY FS_CardinalityType
<1>2. /\ IsFiniteSet(M \union {x})
      /\ Cardinality(M \union {x}) \in Nat
      /\ Cardinality(M \union {x}) <= Cardinality(M) + 1
  BY <1>1, FS_AddElement, FS_CardinalityType
<1>3. IsFiniteSet(N) /\ Cardinality(N) <= Cardinality(M \union {x})
  BY <1>2, FS_Subset
<1>4. Cardinality(N) \in Nat
  BY <1>3, FS_CardinalityType
<1>5. N \subseteq M => Cardinality(N) <= Cardinality(M)
  BY FS_Subset
<1> QED BY <1>1, <1>2, <1>3, <1>4, <1>5

\* A set of naturals has a least element, and a bounded one a greatest.
LEMMA MinIsLeast ==
  ASSUME NEW S \in SUBSET Nat, S # {}
  PROVE  Min(S) \in S /\ \A y \in S : Min(S) <= y
<1>1. \E z \in S : \A y \in S : z <= y
  BY HasLeast
<1> QED BY <1>1, Zenon DEF Min

LEMMA MaxIsGreatest ==
  ASSUME NEW n \in Nat, NEW S \in SUBSET (1..n), S # {}
  PROVE  Max(S) \in S
<1> DEFINE T == {k \in Nat : n - k \in S}
<1>1. T \in SUBSET Nat /\ T # {}
  <2>1. PICK x \in S : x \in 1..n
    OBVIOUS
  <2>2. n - x \in Nat /\ n - (n - x) = x
    BY <2>1
  <2> QED BY <2>2
<1>2. Min(T) \in T /\ \A k \in T : Min(T) <= k
  BY <1>1, MinIsLeast
<1>3. \A y \in S : n - y \in T
  <2> SUFFICES ASSUME NEW y \in S PROVE n - y \in T
    OBVIOUS
  <2>1. y \in 1..n
    OBVIOUS
  <2>2. n - y \in Nat /\ n - (n - y) = y
    BY <2>1
  <2> QED BY <2>2
<1> DEFINE x == n - Min(T)
<1>4. x \in S
  BY <1>2
<1>5. \A y \in S : x >= y
  <2> SUFFICES ASSUME NEW y \in S PROVE x >= y
    OBVIOUS
  <2>1. Min(T) \in Nat /\ y \in 1..n /\ Min(T) <= n - y
    BY <1>2, <1>3
  <2> QED BY <2>1
<1> HIDE DEF x, T
<1>6. \E z \in S : \A y \in S : z >= y
  BY <1>4, <1>5
<1> QED BY <1>6, Zenon DEF Max

\* What is in a list has a first place there.
LEMMA FoundFirst ==
  ASSUME NEW S, NEW s \in Seq(S), NEW x \in ToSet(s)
  PROVE  \E least \in DOMAIN s : s[least] = x /\ \A k \in 1..least - 1 : s[k] # x
<1> DEFINE I == {i \in 1..Len(s) : s[i] = x}
<1>1. Len(s) \in Nat /\ DOMAIN s = 1..Len(s)
  BY LenProperties
<1>2. \E i \in 1..Len(s) : s[i] = x
  BY <1>1 DEF ToSet
<1>3. I \in SUBSET Nat /\ I # {}
  BY <1>1, <1>2
<1>4. Min(I) \in I /\ \A y \in I : Min(I) <= y
  BY <1>3, MinIsLeast
<1>5. PICK least \in 1..Len(s) : s[least] = x /\ \A y \in I : least <= y
  BY <1>4
<1>6. ASSUME NEW k \in 1..least - 1, s[k] = x PROVE FALSE
  <2>1. k \in 1..Len(s) /\ ~(least <= k)
    BY <1>1
  <2> QED BY <1>5, <1>6, <2>1
<1> QED BY <1>1, <1>5, <1>6

\* normalizeSkillIds() returns ids that were asked for, none of them blank, and
\* nothing only if there were none but blanks.
LEMMA NormalIds ==
  ASSUME NEW ids \in Seq(STRING)
  PROVE  /\ \A n \in DOMAIN NormalizeIds(ids) : NormalizeIds(ids)[n] \in ToSet(ids) \ {""}
         /\ NormalizeIds(ids) = <<>> => ToSet(ids) \ {""} = {}
<1>1. PICK n : n = Len(ids)
  OBVIOUS
<1>2. PICK kept : kept = {i \in DOMAIN ids : ids[i] # "" /\ \A k \in 1..i - 1 : ids[k] # ids[i]}
  OBVIOUS
<1>3. PICK at : at = NormalizeIds(ids)
  OBVIOUS
<1>4. at = At(ids, kept)
  BY <1>2, <1>3, Zenon DEF NormalizeIds
<1>5. n \in Nat /\ DOMAIN ids = 1..n /\ \A i \in 1..n : ids[i] \in STRING
  BY <1>1, LenProperties
<1>6. kept \in SUBSET (1..n) /\ \A i \in kept : ids[i] \in ToSet(ids) \ {""}
  <2>1. kept \subseteq DOMAIN ids /\ \A i \in kept : ids[i] # ""
    BY <1>2, Zenon
  <2>2. \A i \in DOMAIN ids : ids[i] \in ToSet(ids)
    BY DEF ToSet
  <2>3. kept \subseteq 1..n
    BY <1>5, <2>1, Zenon
  <2> QED BY <2>1, <2>2, <2>3
<1>7. /\ at \in Seq(STRING)
      /\ \A j \in 1..Len(at) : \E i \in kept : at[j] = ids[i]
      /\ \A i \in kept : \E j \in 1..Len(at) : at[j] = ids[i]
  <2>1. \A i \in kept : ids[i] \in STRING
    BY <1>5, <1>6
  <2>2. n \in Nat /\ kept \in SUBSET (1..n)
    BY <1>5, <1>6
  <2>3. At(ids, kept) \in Seq(STRING) /\ Draws(At(ids, kept), ids, kept)
    BY <2>1, <2>2, AtElements
  <2> QED BY <1>4, <2>3 DEF Draws
<1>8. \A j \in DOMAIN at : at[j] \in ToSet(ids) \ {""}
  <2>1. DOMAIN at = 1..Len(at)
    BY <1>7, LenProperties
  <2> QED BY <1>6, <1>7, <2>1
<1>9. \A id \in ToSet(ids) \ {""} : kept # {}
  <2> SUFFICES ASSUME NEW id \in ToSet(ids), id # "" PROVE kept # {}
    OBVIOUS
  <2>1. PICK least \in DOMAIN ids : ids[least] = id /\ \A k \in 1..least - 1 : ids[k] # id
    BY FoundFirst
  <2>2. least \in kept
    BY <1>2, <2>1, Zenon
  <2> QED BY <2>2
<1>10. ASSUME at = <<>>
       PROVE  kept = {}
  <2>1. Len(at) = 0
    BY <1>10
  <2>2. 1..0 = {}
    OBVIOUS
  <2> QED BY <1>7, <2>1, <2>2
<1> QED BY <1>3, <1>8, <1>9, <1>10

\* The pack by a name that is known is in the catalog, and has that name.
LEMMA PackIsThere ==
  ASSUME NEW S, NEW catalog \in Seq(S), NEW id, Known(catalog, id)
  PROVE  PackOf(catalog, id) \in ToSet(catalog) /\ PackOf(catalog, id).id = id
<1> DEFINE I == {i \in 1..Len(catalog) : catalog[i].id = id}
<1>1. Len(catalog) \in Nat /\ DOMAIN catalog = 1..Len(catalog)
  BY LenProperties
<1>2. I \in SUBSET (1..Len(catalog)) /\ I # {}
  BY <1>1 DEF Known
<1>3. Max(I) \in I
  BY <1>1, <1>2, MaxIsGreatest
<1>4. PackOf(catalog, id) = catalog[Max(I)]
  BY <1>2, Zenon DEF PackOf, SelectLastInSeq
<1> QED BY <1>1, <1>3, <1>4 DEF ToSet

\* A call that the packs let through is bound by none, or by one that allows
\* its tool.
LEMMA SkillAllows ==
  ASSUME McpAssumption, NEW req \in Requests, NEW catalog \in Catalogs,
         AuthorizeSkillTool(req.tool, EffectiveSkillIds(req), catalog)
  PROVE  LET ids == ToSet(req.env.skillIds \o req.skillIds) \ {""}
         IN  ids # {} => \E pack \in ToSet(catalog) :
                            pack.id \in ids /\ req.tool \in pack.allowedTools
<1> DEFINE asked == req.env.skillIds \o req.skillIds
           ids == ToSet(asked) \ {""}
           bound == NormalizeIds(asked)
<1>1. asked \in Seq(STRING)
  BY ConcatProperties DEF McpAssumption
<1>2. catalog \in Seq(ToSet(catalog))
  BY DEF McpAssumption
<1>3. /\ \A n \in DOMAIN bound : bound[n] \in ids
      /\ bound = <<>> => ids = {}
  BY <1>1, NormalIds
<1>4. \/ bound = <<>>
      \/ \E i \in DOMAIN bound :
           Known(catalog, bound[i]) /\ req.tool \in PackOf(catalog, bound[i]).allowedTools
  BY Zenon DEF AuthorizeSkillTool, EffectiveSkillIds
<1> HIDE DEF bound, ids
<1>5. CASE bound = <<>>
  BY <1>3, <1>5 DEF ids
<1>6. ASSUME NEW i \in DOMAIN bound,
             Known(catalog, bound[i]), req.tool \in PackOf(catalog, bound[i]).allowedTools
      PROVE  \E pack \in ToSet(catalog) : pack.id \in ids /\ req.tool \in pack.allowedTools
  <2>1. PackOf(catalog, bound[i]) \in ToSet(catalog) /\ PackOf(catalog, bound[i]).id = bound[i]
    BY <1>2, <1>6, PackIsThere
  <2> QED BY <1>3, <1>6, <2>1
<1>7. ids # {} => \E pack \in ToSet(catalog) : pack.id \in ids /\ req.tool \in pack.allowedTools
  BY <1>3, <1>4, <1>6
<1> QED BY <1>7 DEF ids

-----------------------------------------------------------------------------
(* What lets a call in.                                                    *)

\* The first check said so, by the policies of that moment.
Decided(c) ==
  reason[c] = AuthorizeMcpTool(request[c], judged[c]) /\ reason[c] = "allowed"

\* The second one did, by some catalog.
Entitled(c) ==
  \E catalog \in Catalogs :
    AuthorizeSkillTool(request[c].tool, EffectiveSkillIds(request[c]), catalog)

\* Of a call whose body is yet to be entered PrivilegeBinds and SkillsBind say
\* nothing, and TypeOK not where a call in its body stands: neither of them is
\* inductive.
GateInv ==
  /\ TypeOK
  /\ tail = "open" => Len(rows) > 0
  /\ \A c \in Call : pc[c] = "judged" => reason[c] = AuthorizeMcpTool(request[c], judged[c])
  /\ \A c \in Call :
       pc[c] \in {"authorized", "skill denied", "running", "answered"} => Decided(c)
  /\ \A c \in Call : pc[c] \in {"running", "answered"} => c \in ran
  /\ \A c \in Call : c \in ran =>
       pc[c] \in {"running", "answered", "dead"} /\ Decided(c) /\ Entitled(c)

LogLine == [call : Call, allowed : BOOLEAN]

LEMMA ReasonGiven ==
  ASSUME NEW req, NEW must
  PROVE  AuthorizeMcpTool(req, must) \in Reasons
BY DEF AuthorizeMcpTool, Reasons

\* What is left of the log when a line joins one that lost its end, and what
\* a line makes of it.
LEMMA LogRows ==
  ASSUME rows \in Seq(LogLine), NEW row \in LogLine, tail = "open" => Len(rows) > 0
  PROVE  /\ Unjoined \in Seq(LogLine) /\ With(row) \in Seq(LogLine)
         /\ \A i \in 1..Len(Unjoined) : i \in 1..Len(rows) /\ Unjoined[i] = rows[i]
         /\ tail # "open" => Unjoined = rows
         /\ tail = "open" =>
              /\ \A i \in 1..Len(rows) : i # Len(rows) =>
                   i \in 1..Len(Unjoined) /\ Unjoined[i] = rows[i]
              /\ Len(rows) \notin 1..Len(Unjoined)
         /\ With(row) = IF tail = "ended" THEN Append(rows, row) ELSE Unjoined
<1> HIDE DEF LogLine
<1>1. CASE tail = "open"
  <2>1. /\ Unjoined \in Seq(LogLine) /\ Len(Unjoined) = Len(rows) - 1
        /\ \A i \in 1..Len(rows) - 1 : Unjoined[i] = rows[i]
    BY <1>1, FrontOfSeq DEF Unjoined
  <2>2. Len(rows) \in Nat
    BY LenProperties
  <2> QED BY <1>1, <2>1, <2>2 DEF With
<1>2. CASE tail = "ended"
  <2>1. Unjoined = rows /\ With(row) = Append(rows, row)
    BY <1>2 DEF Unjoined, With
  <2>2. Append(rows, row) \in Seq(LogLine)
    BY AppendProperties
  <2> QED BY <1>2, <2>1, <2>2
<1>3. CASE tail \notin {"open", "ended"}
  BY <1>3 DEF Unjoined, With
<1> QED BY <1>1, <1>2, <1>3

\* A line of a call, or nothing, comes out of auditMcpDecision() or of a
\* server that dies in it.
Appends(c, allowed) ==
  \/ UNCHANGED logVars
  \/ RecordMetricEvent(Line(c, allowed))
  \/ Tear(Line(c, allowed))

LEMMA LogTypes ==
  ASSUME rows \in Seq(LogLine), tail \in Ending, tears \in Nat,
         tail = "open" => Len(rows) > 0,
         NEW c \in Call, NEW allowed \in BOOLEAN, Appends(c, allowed)
  PROVE  /\ rows' \in Seq(LogLine) /\ tail' \in Ending /\ tears' \in Nat
         /\ tail' = "open" => Len(rows') > 0
<1>1. Line(c, allowed) \in LogLine
  BY DEF Line, LogLine
<1>2. /\ Unjoined \in Seq(LogLine) /\ With(Line(c, allowed)) \in Seq(LogLine)
      /\ With(Line(c, allowed))
           = IF tail = "ended" THEN Append(rows, Line(c, allowed)) ELSE Unjoined
  BY <1>1, LogRows
<1>3. Len(Append(rows, Line(c, allowed))) > 0
  <2>1. Len(Append(rows, Line(c, allowed))) = Len(rows) + 1 /\ Len(rows) \in Nat
    BY <1>1, AppendProperties, LenProperties
  <2> QED BY <2>1
<1> HIDE DEF LogLine
<1>4. CASE UNCHANGED logVars
  BY <1>4 DEF logVars
<1>5. CASE RecordMetricEvent(Line(c, allowed))
  BY <1>2, <1>5 DEF RecordMetricEvent, Ending
<1>6. CASE Tear(Line(c, allowed))
  BY <1>2, <1>3, <1>6 DEF Tear, Ending
<1> QED BY <1>4, <1>5, <1>6 DEF Appends

LEMMA AuditAppends ==
  ASSUME NEW c, NEW allowed, AuditMcpDecision(c, allowed)
  PROVE  Appends(c, allowed) /\ (lost' = lost \/ lost' = lost \union {c})
BY DEF AuditMcpDecision, RecordThrows, Appends

LEMMA InitGate == Init => GateInv
<1> SUFFICES ASSUME Init PROVE GateInv
  OBVIOUS
<1>1. rows = <<>> /\ tail = "ended" /\ tears = 0
  BY DEF Init, InitLog
<1>2. rows \in Seq([call : Call, allowed : BOOLEAN])
  BY <1>1
<1> QED BY <1>1, <1>2 DEF Init, GateInv, TypeOK, Reasons, Ending

LEMMA NextGate == GateInv /\ [Next]_vars => GateInv'
<1> SUFFICES ASSUME GateInv, [Next]_vars PROVE GateInv'
  OBVIOUS
<1> USE DEF GateInv, TypeOK, Decided, Entitled
<1>1. CASE EditPolicies
  BY <1>1 DEF EditPolicies, callVars, logVars
<1>2. ASSUME NEW c \in Call, Authorize(c) PROVE GateInv'
  BY <1>2, ReasonGiven DEF Authorize, logVars
<1>3. ASSUME NEW c \in Call, Unreadable(c) PROVE GateInv'
  BY <1>3 DEF Unreadable, logVars
<1>4. ASSUME NEW c \in Call, Audit(c) PROVE GateInv'
  <2>1. Appends(c, reason[c] = "allowed") /\ (lost' = lost \/ lost' = lost \union {c})
    BY <1>4, AuditAppends DEF Audit
  <2>2. /\ rows' \in Seq(LogLine) /\ tail' \in Ending /\ tears' \in Nat
        /\ tail' = "open" => Len(rows') > 0
    BY <2>1, LogTypes DEF LogLine
  <2> QED BY <1>4, <2>1, <2>2 DEF Audit, LogLine
<1>5. ASSUME NEW c \in Call, NEW catalog \in Catalogs, Enter(c, catalog) PROVE GateInv'
  BY <1>5 DEF Enter, logVars
<1>6. ASSUME NEW c \in Call, NEW catalog \in Catalogs, DeniedBySkill(c, catalog) PROVE GateInv'
  BY <1>6 DEF DeniedBySkill, logVars
<1>7. ASSUME NEW c \in Call, CatalogThrows(c) PROVE GateInv'
  BY <1>7 DEF CatalogThrows, logVars
<1>8. ASSUME NEW c \in Call, AuditSkillDenial(c) PROVE GateInv'
  <2>1. Appends(c, FALSE) /\ (lost' = lost \/ lost' = lost \union {c})
    BY <1>8, AuditAppends DEF AuditSkillDenial
  <2>2. /\ rows' \in Seq(LogLine) /\ tail' \in Ending /\ tears' \in Nat
        /\ tail' = "open" => Len(rows') > 0
    BY <2>1, LogTypes DEF LogLine
  <2> QED BY <1>8, <2>1, <2>2 DEF AuditSkillDenial, LogLine
<1>9. ASSUME NEW c \in Call, Return(c) PROVE GateInv'
  BY <1>9 DEF Return, logVars
<1>10. ASSUME NEW c \in Call, Die(c) PROVE GateInv'
  <2>1. Appends(c, reason[c] = "allowed") \/ Appends(c, FALSE)
    BY <1>10 DEF Die, Appends
  <2>2. /\ rows' \in Seq(LogLine) /\ tail' \in Ending /\ tears' \in Nat
        /\ tail' = "open" => Len(rows') > 0
    BY <2>1, LogTypes DEF LogLine
  <2> QED BY <1>10, <2>2 DEF Die, LogLine
<1>11. CASE UNCHANGED vars
  BY <1>11 DEF vars, callVars, logVars
<1> QED
  BY <1>1, <1>2, <1>3, <1>4, <1>5, <1>6, <1>7, <1>8, <1>9, <1>10, <1>11 DEF Next

\* Every variable keeps its type, and only a call that authorizeMcpTool()
\* allowed gets past the wrapper's first check.
THEOREM GateTypes == Spec => []TypeOK
<1>1. GateInv => TypeOK
  BY DEF GateInv
<1> QED BY <1>1, InitGate, NextGate, PTL DEF Spec

\* No body of a tool is entered that the environment of the server does not
\* grant, by any order of calls and edits of the policies.
THEOREM PrivilegeAlwaysBinds == Spec => []PrivilegeBinds
<1>1. GateInv => PrivilegeBinds
  <2> SUFFICES ASSUME GateInv, NEW c \in ran
               PROVE  LET caller   == ResolveCallerPrivilege(request[c].env)
                          required == PrivilegeForMcpTool(request[c].tool)
                      IN  /\ caller = "READ_ONLY" => required = "READ_ONLY"
                          /\ caller = "SAFE_WRITE" => required \in {"READ_ONLY", "SAFE_WRITE"}
                          /\ required = "PRIVILEGED" =>
                               /\ caller \in {"PRIVILEGED", "HUMAN_APPROVAL_REQUIRED"}
                               /\ request[c].env.allowPrivileged
                          /\ judged[c] /\ request[c].tool \in SafeWriteConsentTools =>
                               request[c].env.allowSafeWrite
    BY DEF PrivilegeBinds
  <2>1. AuthorizeMcpTool(request[c], judged[c]) = "allowed"
    BY DEF GateInv, TypeOK, Decided
  <2> QED BY <2>1, AllowedBinds
<1> QED BY <1>1, InitGate, NextGate, PTL DEF Spec

\* A call bound to skills, by the environment or by its arguments, enters its
\* body only if a pack of one of those names allows its tool.
THEOREM SkillsAlwaysBind == Spec => []SkillsBind
<1>1. GateInv => SkillsBind
  <2> SUFFICES ASSUME GateInv, NEW c \in ran
               PROVE  LET ids == ToSet(request[c].env.skillIds \o request[c].skillIds) \ {""}
                      IN  ids # {} =>
                            \E catalog \in Catalogs : \E pack \in ToSet(catalog) :
                              pack.id \in ids /\ request[c].tool \in pack.allowedTools
    BY DEF SkillsBind
  <2>1. c \in Call /\ request[c] \in Requests /\ Entitled(c)
    BY DEF GateInv, TypeOK
  <2>2. PICK catalog \in Catalogs :
          AuthorizeSkillTool(request[c].tool, EffectiveSkillIds(request[c]), catalog)
    BY <2>1 DEF Entitled
  <2> QED BY <2>1, <2>2, McpAssumption, SkillAllows
<1> QED BY <1>1, InitGate, NextGate, PTL DEF Spec

-----------------------------------------------------------------------------
(* What the event log tells.                                               *)

\* The lines a call should have by the time it got where it stands.
Traced(c) ==
  /\ pc[c] \in {"new", "judged"} => LinesOf(c) = {}
  /\ pc[c] \in {"authorized", "skill denied", "running", "answered"} => OneLine(c, TRUE)
  /\ pc[c] = "denied" => IF reason[c] = "allowed" THEN Retracted(c) ELSE OneLine(c, FALSE)

\* The calls that lost a line to an append that was not theirs.
Untraced == {c \in Call \ lost : pc[c] \notin {"failed", "dead"} /\ ~Traced(c)}

\* A line without its newline is of a call that counts as lost or whose server
\* died, so that the line which joins it takes nothing from another call: that
\* line itself is what a broken append costs, once, while the log lacks the
\* end of a line.  LinesTell leaves out the calls under way, and is not
\* inductive.
LinesInv ==
  /\ GateInv
  /\ tail = "open" => rows[Len(rows)].call \in lost \/ pc[rows[Len(rows)].call] = "dead"
  /\ IsFiniteSet(Untraced)
  /\ Cardinality(Untraced) + (IF tail = "ended" THEN 0 ELSE 1) <= tears

\* A call is told of by its lines alone.
LEMMA SameLines ==
  ASSUME NEW d, LinesOf(d)' = LinesOf(d), \A i \in LinesOf(d) : rows'[i] = rows[i]
  PROVE  /\ \A allowed \in BOOLEAN : OneLine(d, allowed)' <=> OneLine(d, allowed)
         /\ Retracted(d)' <=> Retracted(d)
<1>1. LinesOf(d) \subseteq DOMAIN rows /\ LinesOf(d)' \subseteq DOMAIN rows'
  BY DEF LinesOf
<1> QED BY <1>1 DEF OneLine, Retracted

\* No line of a call goes that is neither lost nor of a dead server, and an
\* append adds none but its own.
LEMMA LinesStay ==
  ASSUME LinesInv, NEW c \in Call, NEW allowed \in BOOLEAN, Appends(c, allowed),
         NEW d \in Call \ lost, pc[d] # "dead"
  PROVE  /\ d # c => LinesOf(d)' = LinesOf(d) /\ \A i \in LinesOf(d) : rows'[i] = rows[i]
         /\ RecordMetricEvent(Line(c, allowed)) /\ tail = "ended" =>
              /\ \A i \in LinesOf(d) : rows'[i] = rows[i] /\ i < Len(rows')
              /\ LinesOf(c)' = LinesOf(c) \union {Len(rows')}
              /\ Len(rows') \in DOMAIN rows' /\ rows'[Len(rows')].allowed = allowed
<1> DEFINE row == Line(c, allowed)
<1>1. row \in LogLine /\ row.call = c /\ row.allowed = allowed
  BY DEF Line, LogLine
<1>2. rows \in Seq(LogLine) /\ Len(rows) \in Nat /\ DOMAIN rows = 1..Len(rows)
  <2>1. rows \in Seq(LogLine)
    BY DEF LinesInv, GateInv, TypeOK, LogLine
  <2> QED BY <2>1, LenProperties
<1>3. /\ Unjoined \in Seq(LogLine) /\ With(row) \in Seq(LogLine)
      /\ \A i \in 1..Len(Unjoined) : i \in 1..Len(rows) /\ Unjoined[i] = rows[i]
      /\ tail # "open" => Unjoined = rows
      /\ tail = "open" =>
           \A i \in 1..Len(rows) : i # Len(rows) =>
             i \in 1..Len(Unjoined) /\ Unjoined[i] = rows[i]
      /\ With(row) = IF tail = "ended" THEN Append(rows, row) ELSE Unjoined
  BY <1>1, <1>2, LogRows DEF LinesInv, GateInv
<1>4. tail = "open" => rows[Len(rows)].call # d
  BY DEF LinesInv
<1> HIDE DEF row, LogLine
<1>5. \A i \in LinesOf(d) : i \in 1..Len(Unjoined) /\ Unjoined[i] = rows[i]
  BY <1>2, <1>3, <1>4 DEF LinesOf
<1>6. DOMAIN Unjoined = 1..Len(Unjoined)
  BY <1>3, LenProperties
<1>7. ASSUME rows' = rows \/ rows' = Unjoined
      PROVE  LinesOf(d)' = LinesOf(d) /\ \A i \in LinesOf(d) : rows'[i] = rows[i]
  <2>1. LinesOf(d)' = LinesOf(d)
    BY <1>2, <1>3, <1>5, <1>6, <1>7 DEF LinesOf
  <2> QED BY <1>5, <1>7, <2>1
<1>8. ASSUME tail = "ended", rows' = Append(rows, row)
      PROVE  /\ Len(rows') = Len(rows) + 1 /\ DOMAIN rows' = 1..Len(rows) + 1
             /\ rows'[Len(rows) + 1] = row /\ \A i \in 1..Len(rows) : rows'[i] = rows[i]
  <2>1. /\ Append(rows, row) \in Seq(LogLine) /\ Len(Append(rows, row)) = Len(rows) + 1
        /\ \A i \in 1..Len(rows) : Append(rows, row)[i] = rows[i]
        /\ Append(rows, row)[Len(rows) + 1] = row
    BY <1>1, <1>2, AppendProperties
  <2> QED BY <1>8, <2>1, LenProperties
<1>9. CASE tail = "ended" /\ rows' = Append(rows, row)
  <2>1. /\ Len(rows') = Len(rows) + 1 /\ DOMAIN rows' = 1..Len(rows) + 1
        /\ rows'[Len(rows) + 1] = row /\ \A i \in 1..Len(rows) : rows'[i] = rows[i]
    BY <1>8, <1>9
  <2>2. /\ \A i \in 1..Len(rows) : i \in 1..Len(rows) + 1 /\ i < Len(rows) + 1
        /\ Len(rows) + 1 \in 1..Len(rows) + 1
        /\ \A i \in 1..Len(rows) + 1 : i \in 1..Len(rows) \/ i = Len(rows) + 1
    BY <1>2
  <2>3. LinesOf(c)' = LinesOf(c) \union {Len(rows) + 1}
    BY <1>1, <1>2, <2>1, <2>2 DEF LinesOf
  <2>4. d # c => LinesOf(d)' = LinesOf(d)
    BY <1>1, <1>2, <2>1, <2>2 DEF LinesOf
  <2>5. \A i \in LinesOf(d) : i \in 1..Len(rows)
    BY <1>2 DEF LinesOf
  <2> QED BY <1>1, <2>1, <2>2, <2>3, <2>4, <2>5
<1>10. \/ rows' = rows \/ rows' = Unjoined
       \/ tail = "ended" /\ rows' = Append(rows, row)
  BY <1>3 DEF Appends, logVars, RecordMetricEvent, Tear, row
<1>11. RecordMetricEvent(row) /\ tail = "ended" => rows' = Append(rows, row)
  BY <1>3 DEF RecordMetricEvent
<1>12. RecordMetricEvent(row) /\ tail = "ended" => rows' # rows /\ rows' # Unjoined
  BY <1>2, <1>3, <1>8, <1>11
<1> QED BY <1>7, <1>9, <1>10, <1>12 DEF row

\* The last row of a log that lacks its newline is of the call that broke off.
LEMMA OpenIsOwn ==
  ASSUME LinesInv, NEW c \in Call, NEW allowed \in BOOLEAN, Tear(Line(c, allowed)),
         tail' = "open"
  PROVE  rows'[Len(rows')].call = c
<1>1. Line(c, allowed) \in LogLine /\ Line(c, allowed).call = c
  BY DEF Line, LogLine
<1>2. rows \in Seq(LogLine)
  BY DEF LinesInv, GateInv, TypeOK, LogLine
<1>3. rows' = Append(rows, Line(c, allowed))
  BY DEF Tear, With
<1> HIDE DEF LogLine
<1> QED BY <1>1, <1>2, <1>3, AppendProperties, LenProperties

\* What a step of another call, and what a step that writes nothing, leaves.
LEMMA OthersTraced ==
  ASSUME LinesInv, NEW c \in Call, NEW allowed \in BOOLEAN, Appends(c, allowed),
         NEW d \in Call \ lost, d # c, pc[d] # "dead", pc'[d] = pc[d], reason'[d] = reason[d]
  PROVE  Traced(d)' <=> Traced(d)
<1>1. LinesOf(d)' = LinesOf(d) /\ \A i \in LinesOf(d) : rows'[i] = rows[i]
  BY LinesStay
<1>2. /\ \A told \in BOOLEAN : OneLine(d, told)' <=> OneLine(d, told)
      /\ Retracted(d)' <=> Retracted(d)
  BY <1>1, SameLines
<1>3. (OneLine(d, TRUE)' <=> OneLine(d, TRUE)) /\ (OneLine(d, FALSE)' <=> OneLine(d, FALSE))
  BY <1>2
<1> QED BY <1>1, <1>2, <1>3 DEF Traced

\* A step of call c that makes no other call lose a line, and leaves c where
\* its lines still say so.
LEMMA LinesQuiet ==
  ASSUME LinesInv, GateInv', NEW c \in Call, NEW to, UNCHANGED logVars,
         pc' = [pc EXCEPT ![c] = to], pc[c] # "dead",
         \A d \in Call : d # c => reason'[d] = reason[d],
         lost' = lost \/ lost' = lost \union {c},
         c \in lost' \/ to \in {"failed", "dead"} \/ (Traced(c) /\ pc[c] # "failed" => Traced(c)'),
         pc[c] # "failed"
  PROVE  LinesInv'
<1>1. \A d \in Call : d # c => pc'[d] = pc[d]
  BY DEF LinesInv, GateInv, TypeOK
<1>2. pc'[c] = to
  BY DEF LinesInv, GateInv, TypeOK
<1>3. Appends(c, TRUE)
  BY DEF Appends
<1>4. Untraced' \subseteq Untraced
  <2> SUFFICES ASSUME NEW d \in Call \ lost', pc'[d] \notin {"failed", "dead"}, ~Traced(d)'
               PROVE  d \in Call \ lost /\ pc[d] \notin {"failed", "dead"} /\ ~Traced(d)
    BY DEF Untraced
  <2>1. CASE d = c
    BY <1>2, <2>1
  <2>2. CASE d # c
    <3>1. d \in Call \ lost /\ pc'[d] = pc[d] /\ reason'[d] = reason[d]
      BY <1>1, <2>2
    <3> QED BY <1>3, <2>2, <3>1, OthersTraced
  <2> QED BY <2>1, <2>2
<1>5. IsFiniteSet(Untraced)
  BY DEF LinesInv
<1>6. /\ IsFiniteSet(Untraced') /\ Cardinality(Untraced') \in Nat
      /\ Cardinality(Untraced) \in Nat /\ Cardinality(Untraced') <= Cardinality(Untraced)
  BY <1>4, <1>5, OneMore
<1>7. tail' = "open" => rows'[Len(rows')].call \in lost' \/ pc'[rows'[Len(rows')].call] = "dead"
  <2>1. rows' = rows /\ tail' = tail /\ tears' = tears
    BY DEF logVars
  <2> SUFFICES ASSUME tail = "open"
               PROVE  rows[Len(rows)].call \in lost' \/ pc'[rows[Len(rows)].call] = "dead"
    BY <2>1
  <2> DEFINE last == rows[Len(rows)].call
  <2>2. last \in lost \/ pc[last] = "dead"
    BY DEF LinesInv
  <2>3. last \in Call
    <3>1. rows \in Seq(LogLine) /\ Len(rows) > 0
      BY DEF LinesInv, GateInv, TypeOK, LogLine
    <3>2. Len(rows) \in 1..Len(rows)
      BY <3>1, LenProperties
    <3>3. rows[Len(rows)] \in LogLine
      BY <3>1, <3>2, ElementOfSeq
    <3> QED BY <3>3 DEF LogLine
  <2> HIDE DEF last
  <2>4. last \in lost' \/ pc'[last] = "dead"
    BY <1>1, <2>2, <2>3
  <2> QED BY <2>4 DEF last
<1>8. tail' = tail /\ tears' = tears /\ tears \in Nat
  BY DEF LinesInv, GateInv, TypeOK, logVars
<1>9. Cardinality(Untraced) + (IF tail = "ended" THEN 0 ELSE 1) <= tears
  BY DEF LinesInv
<1>10. Cardinality(Untraced') + (IF tail' = "ended" THEN 0 ELSE 1) <= tears'
  BY <1>6, <1>8, <1>9
<1> QED BY <1>6, <1>7, <1>10 DEF LinesInv

\* A step of call c that writes its line, or breaks off in it.
LEMMA LinesWrite ==
  ASSUME LinesInv, GateInv', NEW c \in Call, NEW allowed \in BOOLEAN, NEW to,
         pc' = [pc EXCEPT ![c] = to], pc[c] \notin {"failed", "dead"}, reason' = reason,
         \/ /\ RecordMetricEvent(Line(c, allowed)) /\ lost' = lost
            /\ c \notin lost /\ tail = "ended" /\ Traced(c) => Traced(c)'
         \/ /\ Tear(Line(c, allowed))
            /\ \/ lost' = lost \union {c}
               \/ lost' = lost /\ to = "dead"
  PROVE  LinesInv'
<1>1. /\ \A d \in Call : d # c => pc'[d] = pc[d]
      /\ pc'[c] = to
  BY DEF LinesInv, GateInv, TypeOK
<1>2. Appends(c, allowed)
  BY DEF Appends
<1>3. ASSUME NEW d \in Call \ lost', pc'[d] \notin {"failed", "dead"}, ~Traced(d)', d # c
      PROVE  d \in Untraced
  <2>1. d \in Call \ lost /\ pc'[d] = pc[d] /\ reason'[d] = reason[d]
    BY <1>1, <1>3
  <2>2. ~Traced(d)
    BY <1>2, <1>3, <2>1, OthersTraced
  <2> QED BY <1>3, <2>1, <2>2 DEF Untraced
<1>4. Untraced' \subseteq Untraced \union {c}
  BY <1>3 DEF Untraced
<1>5. tears' = tears + 1 \/ tail = "ended" => Untraced' \subseteq Untraced
  <2>1. CASE lost' = lost \union {c} \/ to = "dead"
    <3>1. c \notin Untraced'
      BY <1>1, <2>1 DEF Untraced
    <3> QED BY <1>4, <3>1
  <2>2. CASE /\ RecordMetricEvent(Line(c, allowed)) /\ lost' = lost
             /\ c \notin lost /\ tail = "ended" /\ Traced(c) => Traced(c)'
    <3>1. tears \in Nat /\ tears' = tears
      BY <2>2 DEF LinesInv, GateInv, TypeOK, RecordMetricEvent
    <3>2. tail = "ended" /\ c \in Untraced' => c \in Untraced
      BY <2>2 DEF Untraced
    <3> QED BY <1>4, <3>1, <3>2
  <2> QED BY <2>1, <2>2
<1>6. IsFiniteSet(Untraced)
  BY DEF LinesInv
<1>7. /\ IsFiniteSet(Untraced') /\ Cardinality(Untraced') \in Nat
      /\ Cardinality(Untraced) \in Nat /\ Cardinality(Untraced') <= Cardinality(Untraced) + 1
      /\ Untraced' \subseteq Untraced => Cardinality(Untraced') <= Cardinality(Untraced)
  BY <1>4, <1>6, OneMore
<1>8. tail' = "open" => rows'[Len(rows')].call \in lost' \/ pc'[rows'[Len(rows')].call] = "dead"
  <2>1. CASE RecordMetricEvent(Line(c, allowed))
    BY <2>1 DEF RecordMetricEvent
  <2>2. CASE /\ Tear(Line(c, allowed))
             /\ \/ lost' = lost \union {c}
                \/ lost' = lost /\ to = "dead"
    <3>1. tail' = "open" => rows'[Len(rows')].call = c
      BY <2>2, OpenIsOwn
    <3> HIDE DEF Traced
    <3> QED BY <1>1, <2>2, <3>1
  <2> QED BY <2>1, <2>2
<1>9. /\ tears \in Nat
      /\ \/ tail' = "ended" /\ tears' = tears
         \/ tears' = tears + 1
  BY DEF LinesInv, GateInv, TypeOK, RecordMetricEvent, Tear
<1>10. Cardinality(Untraced') + (IF tail' = "ended" THEN 0 ELSE 1) <= tears'
  BY <1>5, <1>7, <1>9 DEF LinesInv
<1> QED BY <1>7, <1>8, <1>10 DEF LinesInv

\* auditMcpDecision(), whatever becomes of its line.
LEMMA LinesAudited ==
  ASSUME LinesInv, GateInv', NEW c \in Call, NEW allowed \in BOOLEAN, NEW to,
         pc' = [pc EXCEPT ![c] = to], pc[c] \notin {"failed", "dead"}, reason' = reason,
         AuditMcpDecision(c, allowed),
         RecordMetricEvent(Line(c, allowed)) /\ c \notin lost /\ tail = "ended" /\ Traced(c)
           => Traced(c)'
  PROVE  LinesInv'
<1>1. CASE RecordMetricEvent(Line(c, allowed)) /\ lost' = lost
  BY <1>1, LinesWrite
<1>2. CASE Tear(Line(c, allowed)) /\ lost' = lost \union {c}
  BY <1>2, LinesWrite
<1>3. CASE UNCHANGED logVars /\ lost' = lost \union {c}
  BY <1>3, LinesQuiet
<1> QED BY <1>1, <1>2, <1>3 DEF AuditMcpDecision, RecordThrows

LEMMA InitLines == Init => LinesInv
<1> SUFFICES ASSUME Init PROVE LinesInv
  OBVIOUS
<1>1. rows = <<>> /\ tail = "ended" /\ tears = 0
  BY DEF Init, InitLog
<1>2. \A c \in Call : LinesOf(c) = {}
  BY <1>1 DEF LinesOf
<1>3. \A c \in Call : Traced(c)
  BY <1>2 DEF Traced, Init
<1>4. Untraced = {}
  BY <1>3 DEF Untraced
<1>5. IsFiniteSet(Untraced) /\ Cardinality(Untraced) = 0
  BY <1>4, FS_EmptySet
<1> QED BY <1>1, <1>5, InitGate DEF LinesInv

LEMMA NextLines == LinesInv /\ [Next]_vars => LinesInv'
<1> SUFFICES ASSUME LinesInv, [Next]_vars PROVE LinesInv'
  OBVIOUS
<1>1. GateInv'
  BY NextGate DEF LinesInv
<1>2. /\ DOMAIN pc = Call /\ DOMAIN reason = Call /\ ran \subseteq Call
      /\ \A c \in Call : pc[c] \in {"authorized", "skill denied"} => reason[c] = "allowed"
  BY DEF LinesInv, GateInv, TypeOK
\* Lines that are left alone tell the same.
<1>3. ASSUME UNCHANGED logVars, NEW d \in Call
      PROVE  /\ LinesOf(d)' = LinesOf(d)
             /\ OneLine(d, TRUE)' <=> OneLine(d, TRUE)
             /\ OneLine(d, FALSE)' <=> OneLine(d, FALSE)
             /\ Retracted(d)' <=> Retracted(d)
  BY <1>3 DEF logVars, LinesOf, OneLine, Retracted
<1>4. CASE EditPolicies
  <2>1. UNCHANGED <<logVars, pc, reason, lost>>
    BY <1>4 DEF EditPolicies, callVars
  <2>2. Untraced' = Untraced
    BY <2>1 DEF Untraced, Traced, OneLine, Retracted, LinesOf, logVars
  <2> QED BY <1>1, <2>1, <2>2 DEF LinesInv, logVars
<1>5. ASSUME NEW c \in Call, Authorize(c) PROVE LinesInv'
  <2>1. Traced(c) => Traced(c)'
    BY <1>2, <1>3, <1>5 DEF Authorize, Traced
  <2>2. \A d \in Call : d # c => reason'[d] = reason[d]
    BY <1>2, <1>5 DEF Authorize
  <2>3. /\ UNCHANGED logVars /\ pc' = [pc EXCEPT ![c] = "judged"] /\ lost' = lost
        /\ pc[c] # "dead" /\ pc[c] # "failed"
    BY <1>5 DEF Authorize
  <2> QED BY <1>1, <2>1, <2>2, <2>3, LinesQuiet
<1>6. ASSUME NEW c \in Call, Unreadable(c) PROVE LinesInv'
  BY <1>1, <1>6, LinesQuiet DEF Unreadable
<1>7. ASSUME NEW c \in Call, Audit(c) PROVE LinesInv'
  <2>1. PICK allowed \in BOOLEAN : allowed = (reason[c] = "allowed")
    OBVIOUS
  <2>2. PICK to \in {"authorized", "denied"} : to = "authorized" <=> allowed
    OBVIOUS
  <2>3. /\ pc[c] = "judged" /\ pc' = [pc EXCEPT ![c] = to] /\ reason' = reason
        /\ AuditMcpDecision(c, allowed)
    BY <1>7, <2>1, <2>2 DEF Audit
  <2>4. ASSUME RecordMetricEvent(Line(c, allowed)), c \notin lost, tail = "ended", Traced(c)
        PROVE  Traced(c)'
    <3>1. Appends(c, allowed)
      BY <2>4 DEF Appends
    <3>2. /\ LinesOf(c)' = LinesOf(c) \union {Len(rows')}
          /\ Len(rows') \in DOMAIN rows' /\ rows'[Len(rows')].allowed = allowed
      BY <2>3, <2>4, <3>1, LinesStay
    <3>3. LinesOf(c)' = {Len(rows')}
      BY <2>3, <2>4, <3>2 DEF Traced
    <3>4. OneLine(c, allowed)'
      BY <3>2, <3>3 DEF OneLine
    <3>5. pc'[c] = to /\ reason'[c] = reason[c]
      BY <1>2, <2>3
    <3>6. CASE allowed = TRUE
      BY <2>1, <2>2, <3>4, <3>5, <3>6 DEF Traced
    <3>7. CASE allowed = FALSE
      BY <2>1, <2>2, <3>4, <3>5, <3>7 DEF Traced
    <3> QED BY <3>6, <3>7
  <2> QED BY <1>1, <2>3, <2>4, LinesAudited
<1>8. ASSUME NEW c \in Call, NEW catalog \in Catalogs, Enter(c, catalog) PROVE LinesInv'
  <2>1. Traced(c) => Traced(c)'
    BY <1>2, <1>3, <1>8 DEF Enter, Traced
  <2> QED BY <1>1, <1>8, <2>1, LinesQuiet DEF Enter
<1>9. ASSUME NEW c \in Call, NEW catalog \in Catalogs, DeniedBySkill(c, catalog) PROVE LinesInv'
  <2>1. Traced(c) => Traced(c)'
    BY <1>2, <1>3, <1>9 DEF DeniedBySkill, Traced
  <2> QED BY <1>1, <1>9, <2>1, LinesQuiet DEF DeniedBySkill
<1>10. ASSUME NEW c \in Call, CatalogThrows(c) PROVE LinesInv'
  BY <1>1, <1>10, LinesQuiet DEF CatalogThrows
<1>11. ASSUME NEW c \in Call, AuditSkillDenial(c) PROVE LinesInv'
  <2>1. /\ pc[c] = "skill denied" /\ pc' = [pc EXCEPT ![c] = "denied"] /\ reason' = reason
        /\ AuditMcpDecision(c, FALSE) /\ reason[c] = "allowed"
    BY <1>2, <1>11 DEF AuditSkillDenial
  <2>2. ASSUME RecordMetricEvent(Line(c, FALSE)), c \notin lost, tail = "ended", Traced(c)
        PROVE  Traced(c)'
    <3>1. Appends(c, FALSE)
      BY <2>2 DEF Appends
    <3>2. /\ \A i \in LinesOf(c) : rows'[i] = rows[i] /\ i < Len(rows')
          /\ LinesOf(c)' = LinesOf(c) \union {Len(rows')}
          /\ Len(rows') \in DOMAIN rows' /\ rows'[Len(rows')].allowed = FALSE
      BY <2>1, <2>2, <3>1, LinesStay
    <3>3. PICK i \in DOMAIN rows : LinesOf(c) = {i} /\ rows[i].allowed = TRUE
      BY <2>1, <2>2 DEF Traced, OneLine
    <3>4. /\ LinesOf(c)' = {i, Len(rows')} /\ i < Len(rows')
          /\ rows'[i].allowed /\ ~rows'[Len(rows')].allowed
      BY <3>2, <3>3
    <3>5. i \in DOMAIN rows'
      BY <3>4 DEF LinesOf
    <3>6. Retracted(c)'
      BY <3>2, <3>4, <3>5 DEF Retracted
    <3>7. pc'[c] = "denied" /\ reason'[c] = "allowed"
      BY <1>2, <2>1
    <3> QED BY <3>6, <3>7 DEF Traced
  <2> QED BY <1>1, <2>1, <2>2, LinesAudited
<1>12. ASSUME NEW c \in Call, Return(c) PROVE LinesInv'
  <2>1. Traced(c) => Traced(c)'
    BY <1>2, <1>3, <1>12 DEF Return, Traced
  <2> QED BY <1>1, <1>12, <2>1, LinesQuiet DEF Return
<1>13. ASSUME NEW c \in Call, Die(c) PROVE LinesInv'
  <2>1. /\ pc[c] \notin {"failed", "dead"} /\ pc' = [pc EXCEPT ![c] = "dead"]
        /\ reason' = reason /\ lost' = lost
        /\ \/ UNCHANGED logVars
           \/ Tear(Line(c, reason[c] = "allowed")) \/ Tear(Line(c, FALSE))
    BY <1>13 DEF Die
  <2>2. CASE UNCHANGED logVars
    BY <1>1, <2>1, <2>2, LinesQuiet
  <2>3. ASSUME NEW allowed \in BOOLEAN, Tear(Line(c, allowed)) PROVE LinesInv'
    BY <1>1, <2>1, <2>3, LinesWrite
  <2> QED BY <2>1, <2>2, <2>3
<1>14. CASE UNCHANGED vars
  <2>1. UNCHANGED <<logVars, pc, reason, lost>>
    BY <1>14 DEF vars, callVars
  <2>2. Untraced' = Untraced
    BY <2>1 DEF Untraced, Traced, OneLine, Retracted, LinesOf, logVars
  <2> QED BY <1>1, <2>1, <2>2 DEF LinesInv, logVars
<1> QED
  BY <1>4, <1>5, <1>6, <1>7, <1>8, <1>9, <1>10, <1>11, <1>12, <1>13, <1>14 DEF Next

\* The event log ends each call's lines with what became of it, however the
\* calls overlap, unless an append of its own threw; an append that broke off
\* spoils this for at most one other call.
THEOREM LinesAlwaysTell == Spec => []LinesTell
<1>1. LinesInv => LinesTell
  <2> SUFFICES ASSUME LinesInv PROVE LinesTell
    OBVIOUS
  <2> DEFINE Wrong == {c \in Call \ lost :
                         /\ pc[c] \in {"running", "answered", "denied"}
                         /\ ~Told(c)}
  <2>1. Wrong \subseteq Untraced
    <3>1. \A c \in Call : pc[c] \in {"running", "answered"} => c \in ran
      BY DEF LinesInv, GateInv
    <3>2. \A c \in Call : pc[c] = "denied" => c \notin ran
      BY DEF LinesInv, GateInv
    <3> QED BY <3>1, <3>2 DEF Untraced, Traced, Told
  <2>2. IsFiniteSet(Untraced)
    BY DEF LinesInv
  <2>3. /\ Cardinality(Wrong) \in Nat /\ Cardinality(Untraced) \in Nat
        /\ Cardinality(Wrong) <= Cardinality(Untraced)
    BY <2>1, <2>2, FS_Subset, FS_CardinalityType
  <2>4. tears \in Nat /\ Cardinality(Untraced) + (IF tail = "ended" THEN 0 ELSE 1) <= tears
    BY DEF LinesInv, GateInv, TypeOK
  <2> HIDE DEF Wrong
  <2>5. Cardinality(Wrong) <= tears
    BY <2>3, <2>4
  <2> QED BY <2>5 DEF LinesTell, Wrong
<1> QED BY <1>1, InitLines, NextLines, PTL DEF Spec
=============================================================================
