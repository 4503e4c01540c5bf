---------------------------- MODULE EnginesProofs ----------------------------
(***************************************************************************)
(* What holds of remote agents, listings of agents, rebuilds of the index, *)
(* contexts, audits of documents, graphs of a repository, dependency trees *)
(* and exports for any number of calls, files and edits.                   *)
(***************************************************************************)
EXTENDS Engines, PlacesProofs

\* A part's step leaves the other parts' variables alone; the part never changes.
LEMMA PartStays == [EnginesNext]_enginesVars => part' = part
BY DEF EnginesNext, enginesVars, AgentsPart, RemotesPart, TreesPart, PromptsPart, ContextPart,
       GraphPart, VaultPart, DocsPart

-----------------------------------------------------------------------------
(* Remote agents.                                                          *)

RemotePhase ==
  {"new", "fetch", "mkdir", "clone", "cloning", "parse", "tags", "cleanup",
   "cleanupAnswered", "answered", "failed", "dead"}

\* At most two calls share a millisecond.
Paired ==
  \A c \in Resolver : phase[c] # "new" =>
    \A d, e \in Resolver :
      d # c /\ e # c /\ born[d] = born[c] /\ born[e] = born[c] => d = e

\* Nobody else asked in the millisecond of the call.
Alone(c) == \A d \in Resolver : born[d] = born[c] => d = c

\* A call with its manifest has its own; a clone that is under way or done is
\* its own, or the one other call of the millisecond has removed it and is
\* over.
Owns(c) ==
  /\ phase[c] \in {"tags", "cleanupAnswered", "answered"} => manifest[c] = wants[c]
  /\ phase[c] = "cloning" => temp[born[c]] \in {"cloning", "none"}
  /\ phase[c] = "parse" => temp[born[c]] \in {wants[c], "none"}
  /\ phase[c] \in {"cloning", "parse"} /\ temp[born[c]] = "none" =>
       \E d \in Resolver : d # c /\ born[d] = born[c] /\ phase[d] \in {"answered", "failed"}
  /\ \A d \in Resolver :
       d # c /\ born[d] = born[c] /\ phase[c] \in {"cloning", "parse"} =>
         phase[d] \notin {"cloning", "parse"}

\* A call that is alone finds its directory as it left it.
Undisturbed(c) ==
  /\ phase[c] = "mkdir" => temp[born[c]] = "none"
  /\ phase[c] = "clone" => temp[born[c]] = "empty"
  /\ phase[c] = "cloning" => temp[born[c]] = "cloning"
  /\ phase[c] \in {"parse", "tags"} => temp[born[c]] = wants[c]
  /\ phase[c] \in {"cleanup", "failed"} => c \in refused

RemoteInv ==
  /\ ms \in 0..MaxMs
  /\ DOMAIN temp = 0..MaxMs
  /\ DOMAIN kept = Remote
  /\ phase \in [Resolver -> RemotePhase]
  /\ DOMAIN wants = Resolver /\ DOMAIN manifest = Resolver
  /\ born \in [Resolver -> Int]
  /\ \A c \in Resolver : IF phase[c] = "new" THEN born[c] = -1
                         ELSE born[c] \in 0..MaxMs /\ born[c] <= ms /\ wants[c] \in Remote
  /\ \A t \in 0..MaxMs : temp[t] # "none" => \E c \in Resolver : born[c] = t
  /\ \A c \in Resolver : phase[c] # "new" /\ Alone(c) => Undisturbed(c)
  /\ Paired => /\ \A r \in Remote : kept[r] \in {"none", r}
               /\ \A c \in Resolver : Owns(c)

\* Calls only come: of two at a time there were never three.
LEMMA PairedBefore ==
  ASSUME RemoteInv, NEW c \in Resolver, phase[c] = "new",
         born' = [born EXCEPT ![c] = ms],
         \A d \in Resolver : d # c => phase'[d] = phase[d]
  PROVE  Paired' => Paired
<1> SUFFICES ASSUME Paired', NEW d \in Resolver, phase[d] # "new",
                    NEW e \in Resolver, NEW f \in Resolver,
                    e # d, f # d, born[e] = born[d], born[f] = born[d]
             PROVE  e = f
  BY DEF Paired
<1>1. born[d] # -1 /\ born[c] = -1
  BY DEF RemoteInv
<1>2. e # c /\ f # c /\ d # c
  BY <1>1
<1>3. born'[d] = born[d] /\ born'[e] = born[e] /\ born'[f] = born[f] /\ phase'[d] # "new"
  BY <1>2 DEF RemoteInv
<1> QED BY <1>3 DEF Paired

LEMMA RemoteStep ==
  ASSUME RemoteInv, Remotes!RemoteNext, EnginesAssumption
  PROVE  RemoteInv'
<1> USE DEF Remotes!Goes, Remotes!DirOf, Remotes!TempDir, RemotePhase
<1>1. CASE Remotes!NextMs
  BY <1>1 DEF Remotes!NextMs, RemoteInv, Paired, Owns, Alone, Undisturbed
<1>2. CASE Remotes!Expire
  BY <1>2 DEF Remotes!Expire, RemoteInv, Paired, Owns, Alone, Undisturbed
<1>3. ASSUME NEW c \in Resolver, NEW r \in Remote, NEW to \in {"mkdir", "fetch"},
             Remotes!AskRemote(c, r, to)
      PROVE  RemoteInv'
  <2>1. /\ phase[c] = "new" /\ born[c] = -1 /\ born' = [born EXCEPT ![c] = ms]
        /\ wants' = [wants EXCEPT ![c] = r] /\ UNCHANGED <<ms, temp, kept, refused>>
        /\ \/ /\ kept[r] # "none" /\ manifest' = [manifest EXCEPT ![c] = kept[r]]
              /\ phase' = [phase EXCEPT ![c] = "answered"]
           \/ manifest' = manifest /\ phase' = [phase EXCEPT ![c] = to]
    BY <1>3 DEF Remotes!AskRemote, RemoteInv
  <2>2. /\ born'[c] = ms /\ wants'[c] = r /\ phase'[c] \in {"answered", "mkdir", "fetch"}
        /\ \A d \in Resolver : d # c =>
             /\ born'[d] = born[d] /\ wants'[d] = wants[d] /\ phase'[d] = phase[d]
             /\ manifest'[d] = manifest[d]
    BY <2>1 DEF RemoteInv
  <2>3. /\ phase' \in [Resolver -> RemotePhase] /\ born' \in [Resolver -> Int]
        /\ DOMAIN wants' = Resolver /\ DOMAIN manifest' = Resolver
    <3>1. /\ phase \in [Resolver -> RemotePhase] /\ born \in [Resolver -> Int]
          /\ DOMAIN wants = Resolver /\ DOMAIN manifest = Resolver /\ ms \in Int
          /\ {"answered", "mkdir", "fetch"} \subseteq RemotePhase
      BY DEF RemoteInv
    <3>2. born' \in [Resolver -> Int]
      BY <2>1, <3>1
    <3>3. DOMAIN wants' = Resolver /\ DOMAIN manifest' = Resolver
      BY <2>1, <3>1
    <3>4. \E q \in RemotePhase : phase' = [phase EXCEPT ![c] = q]
      BY <2>1, <3>1
    <3>5. phase' \in [Resolver -> RemotePhase]
      BY <3>1, <3>4
    <3> QED BY <3>2, <3>3, <3>5
  <2>4. ASSUME NEW d \in Resolver, phase'[d] # "new", Alone(d)' PROVE Undisturbed(d)'
    <3>1. CASE d = c
      <4>1. \A e \in Resolver : born[e] # ms
        BY <2>1, <2>2, <2>4, <3>1 DEF Alone, RemoteInv
      <4>2. temp[ms] = "none"
        BY <4>1 DEF RemoteInv
      <4> QED BY <2>1, <2>2, <3>1, <4>2 DEF Undisturbed
    <3>2. CASE d # c
      <4>1. Alone(d)
        BY <2>1, <2>2, <2>4, <3>2 DEF Alone, RemoteInv
      <4>2. Undisturbed(d)
        BY <2>2, <2>4, <3>2, <4>1 DEF RemoteInv
      <4> QED BY <2>1, <2>2, <3>2, <4>2 DEF Undisturbed
    <3> QED BY <3>1, <3>2
  <2>5. ASSUME Paired', NEW d \in Resolver PROVE Owns(d)'
    <3>1. Paired
      BY <2>1, <2>2, <2>5, PairedBefore
    <3>2. Owns(d) /\ Owns(c) /\ kept[r] \in {"none", r}
      BY <3>1 DEF RemoteInv
    <3>3. CASE d = c
      BY <2>1, <2>2, <3>2, <3>3 DEF Owns, RemoteInv
    <3>4. CASE d # c
      BY <2>1, <2>2, <3>2, <3>4 DEF Owns, RemoteInv
    <3> QED BY <3>3, <3>4
  <2>6. Paired' => \A q \in Remote : kept'[q] \in {"none", q}
    BY <2>1, <2>2, PairedBefore DEF RemoteInv
  <2>7. \A t \in 0..MaxMs : temp'[t] # "none" => \E d \in Resolver : born'[d] = t
    BY <2>1, <2>2 DEF RemoteInv
  <2>8. \A d \in Resolver : IF phase'[d] = "new" THEN born'[d] = -1
                            ELSE born'[d] \in 0..MaxMs /\ born'[d] <= ms' /\ wants'[d] \in Remote
    BY <2>1, <2>2 DEF RemoteInv
  <2> QED BY <2>1, <2>3, <2>4, <2>5, <2>6, <2>7, <2>8 DEF RemoteInv
\* Everything after the question leaves the pairs as they are.
<1>4. ASSUME NEW c \in Resolver, phase[c] # "new", UNCHANGED <<ms, wants, born>>,
             NEW to \in RemotePhase \ {"new"}, phase' = [phase EXCEPT ![c] = to],
             DOMAIN temp' = 0..MaxMs, DOMAIN kept' = Remote, DOMAIN manifest' = Resolver,
             \A t \in 0..MaxMs : t # born[c] => temp'[t] = temp[t],
             \A d \in Resolver : d # c => manifest'[d] = manifest[d],
             refused' = refused \/ refused' = refused \union {c},
             Alone(c) /\ Undisturbed(c) => Undisturbed(c)',
             Paired => \A r \in Remote : kept'[r] \in {"none", r},
             Paired => \A d \in Resolver : Owns(d)'
      PROVE  RemoteInv'
  <2>1. /\ \A d \in Resolver : d # c => phase'[d] = phase[d]
        /\ phase'[c] = to /\ phase' \in [Resolver -> RemotePhase]
    BY <1>4 DEF RemoteInv
  <2>2. (Paired' <=> Paired) /\ \A d \in Resolver : Alone(d)' <=> Alone(d)
    BY <1>4, <2>1 DEF Paired, Alone
  <2>3. ASSUME NEW d \in Resolver, phase'[d] # "new", Alone(d)' PROVE Undisturbed(d)'
    <3>1. CASE d = c
      BY <1>4, <2>2, <2>3, <3>1 DEF RemoteInv
    <3>2. CASE d # c
      <4>1. Alone(d) /\ phase[d] # "new" /\ born[c] # born[d]
        BY <2>1, <2>2, <2>3, <3>2 DEF Alone
      <4>2. Undisturbed(d) /\ born[d] \in 0..MaxMs
        BY <4>1 DEF RemoteInv
      <4>3. temp'[born[d]] = temp[born[d]]
        BY <1>4, <4>1, <4>2
      <4> QED BY <1>4, <2>1, <3>2, <4>2, <4>3 DEF Undisturbed
    <3> QED BY <3>1, <3>2
  <2>4. \A d \in Resolver : IF phase'[d] = "new" THEN born'[d] = -1
                            ELSE born'[d] \in 0..MaxMs /\ born'[d] <= ms' /\ wants'[d] \in Remote
    BY <1>4, <2>1 DEF RemoteInv
  <2>5. \A t \in 0..MaxMs : temp'[t] # "none" => \E d \in Resolver : born'[d] = t
    BY <1>4 DEF RemoteInv
  <2> QED BY <1>4, <2>1, <2>2, <2>3, <2>4, <2>5 DEF RemoteInv
<1>5. ASSUME NEW c \in Resolver, phase[c] # "new"
      PROVE  /\ DOMAIN phase = Resolver /\ DOMAIN temp = 0..MaxMs /\ DOMAIN kept = Remote
             /\ DOMAIN manifest = Resolver /\ born[c] \in 0..MaxMs /\ wants[c] \in Remote
             /\ wants[c] \notin {"none", "empty", "cloning"}
             /\ \A d \in Resolver : phase[d] = "new" => born[d] # born[c]
             /\ Paired => /\ Owns(c)
                          /\ \A d \in Resolver : Owns(d)
                          /\ \A r \in Remote : kept[r] \in {"none", r}
  BY <1>5 DEF RemoteInv, EnginesAssumption
<1>6. ASSUME NEW c \in Resolver, Remotes!FetchNpm(c) PROVE RemoteInv'
  <2>1. phase[c] = "fetch"
    BY <1>6 DEF Remotes!FetchNpm
  <2>2. Alone(c) /\ Undisturbed(c) => Undisturbed(c)'
    BY <1>5, <1>6, <2>1 DEF Remotes!FetchNpm, Undisturbed
  <2>3. ASSUME Paired, NEW d \in Resolver PROVE Owns(d)'
    <3>1. Owns(d) /\ Owns(c)
      BY <1>5, <2>1, <2>3
    <3> QED BY <1>5, <1>6, <2>1, <3>1 DEF Remotes!FetchNpm, Owns
  <2>4. Paired => \A r \in Remote : kept'[r] \in {"none", r}
    BY <1>5, <1>6, <2>1 DEF Remotes!FetchNpm
  <2>5. PICK to \in {"answered", "failed"} : phase' = [phase EXCEPT ![c] = to]
    BY <1>6 DEF Remotes!FetchNpm
  <2>6. /\ UNCHANGED <<ms, wants, born, temp>>
        /\ refused' = refused \/ refused' = refused \union {c}
        /\ DOMAIN kept' = Remote /\ DOMAIN manifest' = Resolver
        /\ \A d \in Resolver : d # c => manifest'[d] = manifest[d]
    BY <1>5, <1>6, <2>1 DEF Remotes!FetchNpm
  <2>7. DOMAIN temp' = 0..MaxMs /\ \A t \in 0..MaxMs : temp'[t] = temp[t]
    BY <1>5, <2>1, <2>6
  <2> HIDE DEF RemotePhase
  <2>8. to \in RemotePhase \ {"new"}
    BY DEF RemotePhase
  <2> QED BY <1>4, <2>1, <2>2, <2>3, <2>4, <2>5, <2>6, <2>7, <2>8
<1>7. ASSUME NEW c \in Resolver, Remotes!MakeTempDir(c) PROVE RemoteInv'
  <2>1. /\ phase[c] \in {"mkdir"}
        /\ UNCHANGED <<ms, wants, born>>
        /\ refused' = refused \/ refused' = refused \union {c}
    BY <1>7 DEF Remotes!MakeTempDir
  <2>2. /\ phase[c] # "new" /\ born[c] \in 0..MaxMs /\ wants[c] \in Remote
        /\ wants[c] \notin {"none", "empty", "cloning"}
    BY <1>5, <2>1
  <2>3. PICK to \in {"clone"} : phase' = [phase EXCEPT ![c] = to]
    BY <1>7, <2>2 DEF Remotes!MakeTempDir
  <2>4. phase'[c] = to /\ \A d \in Resolver : d # c => phase'[d] = phase[d]
    BY <1>5, <2>2, <2>3
  <2>5. /\ DOMAIN temp' = 0..MaxMs /\ DOMAIN kept' = Remote /\ DOMAIN manifest' = Resolver
        /\ \A t \in 0..MaxMs : t # born[c] => temp'[t] = temp[t]
        /\ \A d \in Resolver : d # c => manifest'[d] = manifest[d]
    BY <1>5, <1>7, <2>2 DEF Remotes!MakeTempDir
  <2>6. Alone(c) /\ Undisturbed(c) => Undisturbed(c)'
    BY <1>5, <1>7, <2>1, <2>2, <2>4 DEF Remotes!MakeTempDir, Undisturbed
  <2>7. ASSUME Paired, NEW d \in Resolver, d # c, born[d] = born[c],
               temp[born[c]] \in {"none", "empty"}, phase[d] \in {"cloning", "parse"}
        PROVE  temp[born[c]] # "none"
    <3>1. \A e \in Resolver : e # d /\ born[e] = born[d] => e = c
      BY <2>7 DEF Paired
    <3>2. phase[c] \notin {"answered", "failed"} /\ Owns(d)
      BY <1>5, <2>1, <2>2, <2>7
    <3> QED BY <2>7, <3>1, <3>2 DEF Owns
  <2>8. ASSUME Paired, NEW d \in Resolver PROVE Owns(d)'
    <3>1. Owns(d) /\ Owns(c) /\ (d # c => phase'[d] = phase[d] /\ manifest'[d] = manifest[d])
      BY <1>5, <2>2, <2>4, <2>5, <2>8
    <3>2. CASE d = c
      BY <1>5, <1>7, <2>1, <2>2, <2>4, <3>1, <3>2, <2>7, <2>8 DEF Remotes!MakeTempDir, Owns
    <3>3. CASE d # c /\ born[d] = born[c]
      BY <1>5, <1>7, <2>1, <2>2, <2>4, <3>1, <3>3, <2>7, <2>8 DEF Remotes!MakeTempDir, Owns
    <3>4. CASE d # c /\ born[d] # born[c]
      <4>1. phase[d] \in {"cloning", "parse"} => temp'[born[d]] = temp[born[d]]
        BY <1>5, <2>5, <3>4
      <4> QED BY <2>1, <2>4, <3>1, <3>4, <4>1, <1>7 DEF Owns, Remotes!MakeTempDir
    <3> QED BY <3>2, <3>3, <3>4
  <2>9. Paired => \A r \in Remote : kept'[r] \in {"none", r}
    BY <1>5, <1>7, <2>1, <2>2 DEF Remotes!MakeTempDir, Owns
  <2> HIDE DEF RemotePhase
  <2>10. to \in RemotePhase \ {"new"}
    BY DEF RemotePhase
  <2> QED BY <1>4, <2>1, <2>2, <2>3, <2>5, <2>6, <2>8, <2>9, <2>10
<1>8. ASSUME NEW c \in Resolver, Remotes!BeginClone(c) PROVE RemoteInv'
  <2>1. /\ phase[c] \in {"clone"}
        /\ UNCHANGED <<ms, wants, born>>
        /\ refused' = refused \/ refused' = refused \union {c}
    BY <1>8 DEF Remotes!BeginClone
  <2>2. /\ phase[c] # "new" /\ born[c] \in 0..MaxMs /\ wants[c] \in Remote
        /\ wants[c] \notin {"none", "empty", "cloning"}
    BY <1>5, <2>1
  <2>3. PICK to \in {"cloning", "cleanup"} : phase' = [phase EXCEPT ![c] = to]
    BY <1>8, <2>2 DEF Remotes!BeginClone
  <2>4. phase'[c] = to /\ \A d \in Resolver : d # c => phase'[d] = phase[d]
    BY <1>5, <2>2, <2>3
  <2>5. /\ DOMAIN temp' = 0..MaxMs /\ DOMAIN kept' = Remote /\ DOMAIN manifest' = Resolver
        /\ \A t \in 0..MaxMs : t # born[c] => temp'[t] = temp[t]
        /\ \A d \in Resolver : d # c => manifest'[d] = manifest[d]
    BY <1>5, <1>8, <2>2 DEF Remotes!BeginClone
  <2>6. Alone(c) /\ Undisturbed(c) => Undisturbed(c)'
    BY <1>5, <1>8, <2>1, <2>2, <2>4 DEF Remotes!BeginClone, Undisturbed
  <2>7. ASSUME Paired, NEW d \in Resolver, d # c, born[d] = born[c],
               temp[born[c]] \in {"none", "empty"}, phase[d] \in {"cloning", "parse"}
        PROVE  temp[born[c]] # "none"
    <3>1. \A e \in Resolver : e # d /\ born[e] = born[d] => e = c
      BY <2>7 DEF Paired
    <3>2. phase[c] \notin {"answered", "failed"} /\ Owns(d)
      BY <1>5, <2>1, <2>2, <2>7
    <3> QED BY <2>7, <3>1, <3>2 DEF Owns
  <2>8. ASSUME Paired, NEW d \in Resolver PROVE Owns(d)'
    <3>1. Owns(d) /\ Owns(c) /\ (d # c => phase'[d] = phase[d] /\ manifest'[d] = manifest[d])
      BY <1>5, <2>2, <2>4, <2>5, <2>8
    <3>2. CASE d = c
      BY <1>5, <1>8, <2>1, <2>2, <2>4, <3>1, <3>2, <2>7, <2>8 DEF Remotes!BeginClone, Owns
    <3>3. CASE d # c /\ born[d] = born[c]
      BY <1>5, <1>8, <2>1, <2>2, <2>4, <3>1, <3>3, <2>7, <2>8 DEF Remotes!BeginClone, Owns
    <3>4. CASE d # c /\ born[d] # born[c]
      <4>1. phase[d] \in {"cloning", "parse"} => temp'[born[d]] = temp[born[d]]
        BY <1>5, <2>5, <3>4
      <4> QED BY <2>1, <2>4, <3>1, <3>4, <4>1, <1>8 DEF Owns, Remotes!BeginClone
    <3> QED BY <3>2, <3>3, <3>4
  <2>9. Paired => \A r \in Remote : kept'[r] \in {"none", r}
    BY <1>5, <1>8, <2>1, <2>2 DEF Remotes!BeginClone, Owns
  <2> HIDE DEF RemotePhase
  <2>10. to \in RemotePhase \ {"new"}
    BY DEF RemotePhase
  <2> QED BY <1>4, <2>1, <2>2, <2>3, <2>5, <2>6, <2>8, <2>9, <2>10
<1>9. ASSUME NEW c \in Resolver, Remotes!EndClone(c) PROVE RemoteInv'
  <2>1. /\ phase[c] \in {"cloning"}
        /\ UNCHANGED <<ms, wants, born>>
        /\ refused' = refused \/ refused' = refused \union {c}
    BY <1>9 DEF Remotes!EndClone
  <2>2. /\ phase[c] # "new" /\ born[c] \in 0..MaxMs /\ wants[c] \in Remote
        /\ wants[c] \notin {"none", "empty", "cloning"}
    BY <1>5, <2>1
  <2>3. PICK to \in {"parse", "cleanup"} : phase' = [phase EXCEPT ![c] = to]
    BY <1>9, <2>2 DEF Remotes!EndClone
  <2>4. phase'[c] = to /\ \A d \in Resolver : d # c => phase'[d] = phase[d]
    BY <1>5, <2>2, <2>3
  <2>5. /\ DOMAIN temp' = 0..MaxMs /\ DOMAIN kept' = Remote /\ DOMAIN manifest' = Resolver
        /\ \A t \in 0..MaxMs : t # born[c] => temp'[t] = temp[t]
        /\ \A d \in Resolver : d # c => manifest'[d] = manifest[d]
    BY <1>5, <1>9, <2>2 DEF Remotes!EndClone
  <2>6. Alone(c) /\ Undisturbed(c) => Undisturbed(c)'
    BY <1>5, <1>9, <2>1, <2>2, <2>4 DEF Remotes!EndClone, Undisturbed
  <2>8. ASSUME Paired, NEW d \in Resolver PROVE Owns(d)'
    <3>1. Owns(d) /\ Owns(c) /\ (d # c => phase'[d] = phase[d] /\ manifest'[d] = manifest[d])
      BY <1>5, <2>2, <2>4, <2>5, <2>8
    <3>2. CASE d = c
      BY <1>5, <1>9, <2>1, <2>2, <2>4, <3>1, <3>2 DEF Remotes!EndClone, Owns
    <3>3. CASE d # c /\ born[d] = born[c]
      BY <1>5, <1>9, <2>1, <2>2, <2>4, <3>1, <3>3 DEF Remotes!EndClone, Owns
    <3>4. CASE d # c /\ born[d] # born[c]
      <4>1. phase[d] \in {"cloning", "parse"} => temp'[born[d]] = temp[born[d]]
        BY <1>5, <2>5, <3>4
      <4> QED BY <2>1, <2>4, <3>1, <3>4, <4>1, <1>9 DEF Owns, Remotes!EndClone
    <3> QED BY <3>2, <3>3, <3>4
  <2>9. Paired => \A r \in Remote : kept'[r] \in {"none", r}
    BY <1>5, <1>9, <2>1, <2>2 DEF Remotes!EndClone, Owns
  <2> HIDE DEF RemotePhase
  <2>10. to \in RemotePhase \ {"new"}
    BY DEF RemotePhase
  <2> QED BY <1>4, <2>1, <2>2, <2>3, <2>5, <2>6, <2>8, <2>9, <2>10
<1>10. ASSUME NEW c \in Resolver, Remotes!ParseManifest(c) PROVE RemoteInv'
  <2>1. /\ phase[c] \in {"parse"}
        /\ UNCHANGED <<ms, wants, born>>
        /\ refused' = refused \/ refused' = refused \union {c}
    BY <1>10 DEF Remotes!ParseManifest
  <2>2. /\ phase[c] # "new" /\ born[c] \in 0..MaxMs /\ wants[c] \in Remote
        /\ wants[c] \notin {"none", "empty", "cloning"}
    BY <1>5, <2>1
  <2>3. PICK to \in {"tags", "cleanup"} : phase' = [phase EXCEPT ![c] = to]
    BY <1>10, <2>2 DEF Remotes!ParseManifest
  <2>4. phase'[c] = to /\ \A d \in Resolver : d # c => phase'[d] = phase[d]
    BY <1>5, <2>2, <2>3
  <2>5. /\ DOMAIN temp' = 0..MaxMs /\ DOMAIN kept' = Remote /\ DOMAIN manifest' = Resolver
        /\ \A t \in 0..MaxMs : t # born[c] => temp'[t] = temp[t]
        /\ \A d \in Resolver : d # c => manifest'[d] = manifest[d]
    BY <1>5, <1>10, <2>2 DEF Remotes!ParseManifest
  <2>6. Alone(c) /\ Undisturbed(c) => Undisturbed(c)'
    BY <1>5, <1>10, <2>1, <2>2, <2>4 DEF Remotes!ParseManifest, Undisturbed
  <2>8. ASSUME Paired, NEW d \in Resolver PROVE Owns(d)'
    <3>1. Owns(d) /\ Owns(c) /\ (d # c => phase'[d] = phase[d] /\ manifest'[d] = manifest[d])
      BY <1>5, <2>2, <2>4, <2>5, <2>8
    <3>2. CASE d = c
      BY <1>5, <1>10, <2>1, <2>2, <2>4, <3>1, <3>2 DEF Remotes!ParseManifest, Owns
    <3>3. CASE d # c /\ born[d] = born[c]
      BY <1>5, <1>10, <2>1, <2>2, <2>4, <3>1, <3>3 DEF Remotes!ParseManifest, Owns
    <3>4. CASE d # c /\ born[d] # born[c]
      <4>1. phase[d] \in {"cloning", "parse"} => temp'[born[d]] = temp[born[d]]
        BY <1>5, <2>5, <3>4
      <4> QED BY <2>1, <2>4, <3>1, <3>4, <4>1, <1>10 DEF Owns, Remotes!ParseManifest
    <3> QED BY <3>2, <3>3, <3>4
  <2>9. Paired => \A r \in Remote : kept'[r] \in {"none", r}
    BY <1>5, <1>10, <2>1, <2>2 DEF Remotes!ParseManifest, Owns
  <2> HIDE DEF RemotePhase
  <2>10. to \in RemotePhase \ {"new"}
    BY DEF RemotePhase
  <2> QED BY <1>4, <2>1, <2>2, <2>3, <2>5, <2>6, <2>8, <2>9, <2>10
<1>11. ASSUME NEW c \in Resolver, Remotes!ReadTags(c) PROVE RemoteInv'
  <2>1. /\ phase[c] \in {"tags"}
        /\ UNCHANGED <<ms, wants, born>>
        /\ refused' = refused \/ refused' = refused \union {c}
    BY <1>11 DEF Remotes!ReadTags
  <2>2. /\ phase[c] # "new" /\ born[c] \in 0..MaxMs /\ wants[c] \in Remote
        /\ wants[c] \notin {"none", "empty", "cloning"}
    BY <1>5, <2>1
  <2>3. PICK to \in {"cleanup", "cleanupAnswered"} : phase' = [phase EXCEPT ![c] = to]
    BY <1>11, <2>2 DEF Remotes!ReadTags
  <2>4. phase'[c] = to /\ \A d \in Resolver : d # c => phase'[d] = phase[d]
    BY <1>5, <2>2, <2>3
  <2>5. /\ DOMAIN temp' = 0..MaxMs /\ DOMAIN kept' = Remote /\ DOMAIN manifest' = Resolver
        /\ \A t \in 0..MaxMs : t # born[c] => temp'[t] = temp[t]
        /\ \A d \in Resolver : d # c => manifest'[d] = manifest[d]
    BY <1>5, <1>11, <2>2 DEF Remotes!ReadTags
  <2>6. Alone(c) /\ Undisturbed(c) => Undisturbed(c)'
    BY <1>5, <1>11, <2>1, <2>2, <2>4 DEF Remotes!ReadTags, Undisturbed
  <2>8. ASSUME Paired, NEW d \in Resolver PROVE Owns(d)'
    <3>1. Owns(d) /\ Owns(c) /\ (d # c => phase'[d] = phase[d] /\ manifest'[d] = manifest[d])
      BY <1>5, <2>2, <2>4, <2>5, <2>8
    <3>2. CASE d = c
      BY <1>5, <1>11, <2>1, <2>2, <2>4, <3>1, <3>2 DEF Remotes!ReadTags, Owns
    <3>3. CASE d # c /\ born[d] = born[c]
      BY <1>5, <1>11, <2>1, <2>2, <2>4, <3>1, <3>3 DEF Remotes!ReadTags, Owns
    <3>4. CASE d # c /\ born[d] # born[c]
      <4>1. phase[d] \in {"cloning", "parse"} => temp'[born[d]] = temp[born[d]]
        BY <1>5, <2>5, <3>4
      <4> QED BY <2>1, <2>4, <3>1, <3>4, <4>1, <1>11 DEF Owns, Remotes!ReadTags
    <3> QED BY <3>2, <3>3, <3>4
  <2>9. Paired => \A r \in Remote : kept'[r] \in {"none", r}
    BY <1>5, <1>11, <2>1, <2>2 DEF Remotes!ReadTags, Owns
  <2> HIDE DEF RemotePhase
  <2>10. to \in RemotePhase \ {"new"}
    BY DEF RemotePhase
  <2> QED BY <1>4, <2>1, <2>2, <2>3, <2>5, <2>6, <2>8, <2>9, <2>10
<1>12. ASSUME NEW c \in Resolver, Remotes!RemoveTempDir(c) PROVE RemoteInv'
  <2>1. /\ phase[c] \in {"cleanup", "cleanupAnswered"}
        /\ UNCHANGED <<ms, wants, born>>
        /\ refused' = refused \/ refused' = refused \union {c}
    BY <1>12 DEF Remotes!RemoveTempDir
  <2>2. /\ phase[c] # "new" /\ born[c] \in 0..MaxMs /\ wants[c] \in Remote
        /\ wants[c] \notin {"none", "empty", "cloning"}
    BY <1>5, <2>1
  <2>3. PICK to \in {"failed", "answered"} : phase' = [phase EXCEPT ![c] = to]
    BY <1>12, <2>2 DEF Remotes!RemoveTempDir
  <2>4. phase'[c] = to /\ \A d \in Resolver : d # c => phase'[d] = phase[d]
    BY <1>5, <2>2, <2>3
  <2>5. /\ DOMAIN temp' = 0..MaxMs /\ DOMAIN kept' = Remote /\ DOMAIN manifest' = Resolver
        /\ \A t \in 0..MaxMs : t # born[c] => temp'[t] = temp[t]
        /\ \A d \in Resolver : d # c => manifest'[d] = manifest[d]
    BY <1>5, <1>12, <2>2 DEF Remotes!RemoveTempDir
  <2>6. Alone(c) /\ Undisturbed(c) => Undisturbed(c)'
    BY <1>5, <1>12, <2>1, <2>2, <2>4 DEF Remotes!RemoveTempDir, Undisturbed
  <2>8. ASSUME Paired, NEW d \in Resolver PROVE Owns(d)'
    <3>1. Owns(d) /\ Owns(c) /\ (d # c => phase'[d] = phase[d] /\ manifest'[d] = manifest[d])
      BY <1>5, <2>2, <2>4, <2>5, <2>8
    <3>2. CASE d = c
      BY <1>5, <1>12, <2>1, <2>2, <2>4, <3>1, <3>2 DEF Remotes!RemoveTempDir, Owns
    <3>3. CASE d # c /\ born[d] = born[c]
      BY <1>5, <1>12, <2>1, <2>2, <2>4, <3>1, <3>3 DEF Remotes!RemoveTempDir, Owns
    <3>4. CASE d # c /\ born[d] # born[c]
      <4>1. phase[d] \in {"cloning", "parse"} => temp'[born[d]] = temp[born[d]]
        BY <1>5, <2>5, <3>4
      <4> QED BY <2>1, <2>4, <3>1, <3>4, <4>1, <1>12 DEF Owns, Remotes!RemoveTempDir
    <3> QED BY <3>2, <3>3, <3>4
  <2>9. Paired => \A r \in Remote : kept'[r] \in {"none", r}
    BY <1>5, <1>12, <2>1, <2>2 DEF Remotes!RemoveTempDir, Owns
  <2> HIDE DEF RemotePhase
  <2>10. to \in RemotePhase \ {"new"}
    BY DEF RemotePhase
  <2> QED BY <1>4, <2>1, <2>2, <2>3, <2>5, <2>6, <2>8, <2>9, <2>10
<1>13. ASSUME NEW c \in Resolver, Remotes!DieResolving(c) PROVE RemoteInv'
  <2>1. /\ phase[c] \in {"fetch", "mkdir", "clone", "cloning", "parse", "tags", "cleanup", "cleanupAnswered"}
        /\ UNCHANGED <<ms, wants, born>>
        /\ refused' = refused \/ refused' = refused \union {c}
    BY <1>13 DEF Remotes!DieResolving, RemoteInv
  <2>2. /\ phase[c] # "new" /\ born[c] \in 0..MaxMs /\ wants[c] \in Remote
        /\ wants[c] \notin {"none", "empty", "cloning"}
    BY <1>5, <2>1
  <2>3. PICK to \in {"dead"} : phase' = [phase EXCEPT ![c] = to]
    BY <1>13, <2>2 DEF Remotes!DieResolving
  <2>4. phase'[c] = to /\ \A d \in Resolver : d # c => phase'[d] = phase[d]
    BY <1>5, <2>2, <2>3
  <2>5. /\ DOMAIN temp' = 0..MaxMs /\ DOMAIN kept' = Remote /\ DOMAIN manifest' = Resolver
        /\ \A t \in 0..MaxMs : t # born[c] => temp'[t] = temp[t]
        /\ \A d \in Resolver : d # c => manifest'[d] = manifest[d]
    BY <1>5, <1>13, <2>2 DEF Remotes!DieResolving
  <2>6. Alone(c) /\ Undisturbed(c) => Undisturbed(c)'
    BY <1>5, <1>13, <2>1, <2>2, <2>4 DEF Remotes!DieResolving, Undisturbed
  <2>8. ASSUME Paired, NEW d \in Resolver PROVE Owns(d)'
    <3>1. Owns(d) /\ Owns(c) /\ (d # c => phase'[d] = phase[d] /\ manifest'[d] = manifest[d])
      BY <1>5, <2>2, <2>4, <2>5, <2>8
    <3>2. CASE d = c
      BY <1>5, <1>13, <2>1, <2>2, <2>4, <3>1, <3>2 DEF Remotes!DieResolving, Owns
    <3>3. CASE d # c /\ born[d] = born[c]
      BY <1>5, <1>13, <2>1, <2>2, <2>4, <3>1, <3>3 DEF Remotes!DieResolving, Owns
    <3>4. CASE d # c /\ born[d] # born[c]
      <4>1. phase[d] \in {"cloning", "parse"} => temp'[born[d]] = temp[born[d]]
        BY <1>5, <2>5, <3>4
      <4> QED BY <2>1, <2>4, <3>1, <3>4, <4>1, <1>13 DEF Owns, Remotes!DieResolving
    <3> QED BY <3>2, <3>3, <3>4
  <2>9. Paired => \A r \in Remote : kept'[r] \in {"none", r}
    BY <1>5, <1>13, <2>1, <2>2 DEF Remotes!DieResolving, Owns
  <2> HIDE DEF RemotePhase
  <2>10. to \in RemotePhase \ {"new"}
    BY DEF RemotePhase
  <2> QED BY <1>4, <2>1, <2>2, <2>3, <2>5, <2>6, <2>8, <2>9, <2>10
<1> QED
  BY <1>1, <1>2, <1>3, <1>6, <1>7, <1>8, <1>9, <1>10, <1>11, <1>12, <1>13 DEF Remotes!RemoteNext

\* At most two of a set means no third one, and one of it no second.
LEMMA AtMostTwo ==
  ASSUME NEW S, IsFiniteSet(S), Cardinality(S) <= 2,
         NEW x \in S, NEW y \in S, NEW z \in S, y # x, z # x
  PROVE  y = z
<1> SUFFICES ASSUME y # z PROVE FALSE
  OBVIOUS
<1> DEFINE One == {x}
           Two == One \union {y}
           Three == Two \union {z}
<1>1. IsFiniteSet(One) /\ Cardinality(One) = 1
  BY FS_Singleton
<1>2. y \notin One /\ z \notin Two /\ Three \subseteq S
  OBVIOUS
<1> HIDE DEF One
<1>3. IsFiniteSet(Two) /\ Cardinality(Two) = 2
  BY <1>1, <1>2, FS_AddElement
<1> HIDE DEF Two
<1>4. IsFiniteSet(Three) /\ Cardinality(Three) = 3
  BY <1>2, <1>3, FS_AddElement
<1> HIDE DEF Three
<1>5. Cardinality(Three) <= Cardinality(S)
  BY <1>2, FS_Subset
<1>6. Cardinality(S) \in Nat
  BY FS_CardinalityType
<1> QED BY <1>4, <1>5, <1>6

LEMMA RemoteTells ==
  ASSUME RemoteInv, EnginesAssumption
  PROVE  Remotes!OwnManifest
<1>1. \A c \in Resolver : IsFiniteSet(Remotes!Sharing(c)) /\ c \in Remotes!Sharing(c)
  <2> SUFFICES ASSUME NEW c \in Resolver
               PROVE  IsFiniteSet(Remotes!Sharing(c)) /\ c \in Remotes!Sharing(c)
    OBVIOUS
  <2>1. Remotes!Sharing(c) \subseteq Resolver /\ c \in Remotes!Sharing(c)
    BY DEF Remotes!Sharing
  <2> QED BY <2>1, FS_Subset DEF EnginesAssumption
<1>2. ASSUME NEW c \in Resolver, Cardinality(Remotes!Sharing(c)) = 1, phase[c] = "failed"
      PROVE  c \in refused
  <2>1. Alone(c)
    <3> SUFFICES ASSUME NEW d \in Resolver, born[d] = born[c] PROVE d = c
      BY DEF Alone
    <3>1. PICK x : Remotes!Sharing(c) = {x}
      BY <1>1, <1>2, FS_Singleton
    <3>2. d \in Remotes!Sharing(c)
      BY DEF Remotes!Sharing
    <3> QED BY <1>1, <3>1, <3>2
  <2> QED BY <1>2, <2>1 DEF RemoteInv, Undisturbed
<1>3. ASSUME \A c \in Resolver : phase[c] # "new" => Cardinality(Remotes!Sharing(c)) <= 2
      PROVE  Paired
  <2> SUFFICES ASSUME NEW c \in Resolver, phase[c] # "new",
                      NEW d \in Resolver, NEW e \in Resolver,
                      d # c, e # c, born[d] = born[c], born[e] = born[c]
               PROVE  d = e
    BY DEF Paired
  <2>1. d \in Remotes!Sharing(c) /\ e \in Remotes!Sharing(c)
    BY DEF Remotes!Sharing
  <2> QED BY <1>1, <1>3, <2>1, AtMostTwo
<1>4. Paired => \A c \in Resolver : phase[c] = "answered" => manifest[c] = wants[c]
  BY DEF RemoteInv, Owns
<1>5. \A S : Remotes!Cardinality(S) = Cardinality(S)
  BY Zenon DEF Remotes!Cardinality, Cardinality
<1> QED BY <1>2, <1>3, <1>4, <1>5 DEF Remotes!OwnManifest

\* A remote agent's manifest is its own as long as no three calls share a
\* millisecond, and a call that shares its with none fails only if git or npm do.
THEOREM ManifestsAreOwn == EnginesSpec => []OwnManifest
<1> DEFINE Inv == part = "remotes" => RemoteInv
<1>1. EnginesInit => Inv
  <2>1. ASSUME Remotes!RemoteInit
        PROVE  RemoteInv
    <3>1. 0 \in 0..MaxMs
      BY EnginesAssumption DEF EnginesAssumption
    <3> QED
      BY <2>1, <3>1 DEF Remotes!RemoteInit, Remotes!Ms, RemoteInv, RemotePhase, Paired, Owns
  <2> QED BY <2>1 DEF EnginesInit
<1>2. Inv /\ [EnginesNext]_enginesVars => Inv'
  <2> SUFFICES ASSUME Inv, [EnginesNext]_enginesVars, part' = "remotes"
               PROVE  RemoteInv'
    OBVIOUS
  <2>1. part = "remotes" /\ RemoteInv
    BY PartStays
  <2>2. CASE Remotes!RemoteNext
    BY <2>1, <2>2, EnginesAssumption, RemoteStep
  <2>3. CASE UNCHANGED remotes
    BY <2>1, <2>3 DEF remotes, RemoteInv, Paired, Owns, Alone, Undisturbed
  <2>4. Remotes!RemoteNext \/ UNCHANGED remotes
    BY <2>1 DEF EnginesNext, enginesVars, AgentsPart, RemotesPart, TreesPart, PromptsPart,
                ContextPart, GraphPart, VaultPart, DocsPart
  <2> QED BY <2>2, <2>3, <2>4
<1>3. Inv => OwnManifest
  BY EnginesAssumption, RemoteTells DEF OwnManifest
<1> QED BY <1>1, <1>2, <1>3, PTL DEF EnginesSpec

-----------------------------------------------------------------------------
(* Audits of documents.                                                    *)

\* The findings of the inventory, source by source.
LEMMA PkbFindings ==
  ASSUME NEW r, NEW f
  PROVE  f \in Docs!AuditPkbInventory(r) <=>
           \/ \E p \in Docs!PkbCanonical \ r.files : f = Docs!Finding("pkb-missing", "warn", p)
           \/ /\ "docs/prompts/index.yaml" \in r.files /\ ~r.readable
              /\ f = Docs!Finding("pkb-index-unreadable", "warn", "docs/prompts/index.yaml")
           \/ \E p \in Docs!Indexed(r) \ r.files : f = Docs!Finding("pkb-index-missing", "warn", p)
           \/ /\ "docs/prompts/index.yaml" \in r.files /\ r.readable
              /\ f = Docs!Finding("pkb-index-count", "info", "none")
           \/ /\ "docs/prompts/index.yaml" \in r.files /\ r.readable
              /\ (r.files \intersect Assets) \ r.index # {}
              /\ f = Docs!Finding("pkb-orphan-assets", "info", "none")
BY DEF Docs!AuditPkbInventory, Docs!Missing, Docs!When

\* The findings of an audit, source by source.
LEMMA AuditFindings ==
  ASSUME NEW r, NEW f
  PROVE  f \in Docs!AuditDocumentation(r).findings <=>
           \/ \E p \in (Docs!CanonicalDocs \intersect Docs!Grave) \ r.files :
                f = Docs!Finding("missing", "error", p)
           \/ \E p \in (Docs!CanonicalDocs \ Docs!Grave) \ r.files :
                f = Docs!Finding("missing", "warn", p)
           \/ \E p \in Docs!ExpectedAdrs \ r.files : f = Docs!Finding("missing-adr", "warn", p)
           \/ r.files \intersect Adrs = {} /\ f = Docs!Finding("no-adrs", "error", "none")
           \/ r.files \intersect Adrs # {} /\ f = Docs!Finding("adr-count", "info", "none")
           \/ /\ "docs/architecture/system-guide.md" \in r.files /\ "documentation" \in r.engines
              /\ f = Docs!Finding("engine-documentation", "info", "none")
           \/ /\ ~({"documentation", "governance"} \subseteq r.engines)
              /\ f = Docs!Finding("engines-phase3", "info", "none")
           \/ /\ "policies/aios.policies.json" \notin r.files
              /\ f = Docs!Finding("policies-missing", "error", "policies/aios.policies.json")
           \/ f \in Docs!AuditPkbInventory(r)
BY DEF Docs!AuditDocumentation, Docs!Missing, Docs!When

LEMMA AuditTells ==
  ASSUME NEW r, "none" \notin r.index, repo = r, audit = Docs!AuditDocumentation(r)
  PROVE  Docs!AuditAccounts
<1> DEFINE known == Docs!CanonicalDocs \union Docs!ExpectedAdrs \union Docs!PkbCanonical
                      \union Docs!Indexed(r)
           told == {g \in audit.findings : g.id # "pkb-index-unreadable"}
           listed(f) == f \in Docs!AuditDocumentation(r).findings
<1>1. /\ audit.present = known \intersect r.files /\ audit.missing = known \ r.files
      /\ audit.ok <=> ~\E f \in audit.findings : f.severity = "error"
  BY DEF Docs!AuditDocumentation
<1>2. "none" \notin known
  BY DEF Docs!CanonicalDocs, Docs!ExpectedAdrs, Docs!PkbCanonical, Docs!Indexed
<1>3. {f.path : f \in told} \ {"none"} = known \ r.files
  <2>1. ASSUME NEW p \in known \ r.files PROVE \E f \in told : f.path = p
    <3>1. CASE p \in Docs!CanonicalDocs \intersect Docs!Grave
      <4>1. listed(Docs!Finding("missing", "error", p))
        BY <2>1, <3>1, AuditFindings
      <4> QED BY <4>1 DEF Docs!Finding
    <3>2. CASE p \in Docs!CanonicalDocs \ Docs!Grave
      <4>1. listed(Docs!Finding("missing", "warn", p))
        BY <2>1, <3>2, AuditFindings
      <4> QED BY <4>1 DEF Docs!Finding
    <3>3. CASE p \in Docs!ExpectedAdrs
      <4>1. listed(Docs!Finding("missing-adr", "warn", p))
        BY <2>1, <3>3, AuditFindings
      <4> QED BY <4>1 DEF Docs!Finding
    <3>4. CASE p \in Docs!PkbCanonical
      <4>1. listed(Docs!Finding("pkb-missing", "warn", p))
        BY <2>1, <3>4, AuditFindings, PkbFindings
      <4> QED BY <4>1 DEF Docs!Finding
    <3>5. CASE p \in Docs!Indexed(r)
      <4>1. listed(Docs!Finding("pkb-index-missing", "warn", p))
        BY <2>1, <3>5, AuditFindings, PkbFindings
      <4> QED BY <4>1 DEF Docs!Finding
    <3> QED BY <2>1, <3>1, <3>2, <3>3, <3>4, <3>5
  <2>2. ASSUME NEW f \in told, f.path # "none" PROVE f.path \in known \ r.files
    <3>1. listed(f) /\ f.id # "pkb-index-unreadable"
      OBVIOUS
    <3>2. CASE f \in Docs!AuditPkbInventory(r)
      BY <2>2, <3>1, <3>2, PkbFindings DEF Docs!Finding
    <3>3. CASE f \notin Docs!AuditPkbInventory(r)
      BY <2>2, <3>1, <3>3, AuditFindings DEF Docs!Finding, Docs!CanonicalDocs
    <3> QED BY <3>2, <3>3
  <2> QED BY <1>2, <2>1, <2>2
<1>4. \A a \in r.files \intersect Assets :
        Docs!Indexed(r) # {} =>
          a \in audit.present \/ \E f \in audit.findings : f.id = "pkb-orphan-assets"
  <2> SUFFICES ASSUME NEW a \in r.files \intersect Assets, Docs!Indexed(r) # {}, a \notin known
               PROVE  \E f \in audit.findings : f.id = "pkb-orphan-assets"
    BY <1>1
  <2>1. /\ "docs/prompts/index.yaml" \in r.files /\ r.readable
        /\ (r.files \intersect Assets) \ r.index # {}
    BY DEF Docs!Indexed
  <2>2. listed(Docs!Finding("pkb-orphan-assets", "info", "none"))
    BY <2>1, AuditFindings, PkbFindings
  <2> QED BY <2>2 DEF Docs!Finding
<1>5. audit.ok <=> /\ {"README.md", "docs/FOUNDATION.md", "policies/aios.policies.json"}
                         \subseteq r.files
                   /\ r.files \intersect Adrs # {}
  <2>1. ASSUME NEW p \in {"README.md", "docs/FOUNDATION.md"}, p \notin r.files
        PROVE  \E f \in audit.findings : f.severity = "error"
    <3>1. listed(Docs!Finding("missing", "error", p))
      BY <2>1, AuditFindings DEF Docs!CanonicalDocs, Docs!Grave
    <3> QED BY <3>1 DEF Docs!Finding
  <2>2. ASSUME "policies/aios.policies.json" \notin r.files
        PROVE  \E f \in audit.findings : f.severity = "error"
    <3>1. listed(Docs!Finding("policies-missing", "error", "policies/aios.policies.json"))
      BY <2>2, AuditFindings
    <3> QED BY <3>1 DEF Docs!Finding
  <2>3. ASSUME r.files \intersect Adrs = {}
        PROVE  \E f \in audit.findings : f.severity = "error"
    <3>1. listed(Docs!Finding("no-adrs", "error", "none"))
      BY <2>3, AuditFindings
    <3> QED BY <3>1 DEF Docs!Finding
  <2>4. ASSUME NEW f \in audit.findings, f.severity = "error",
               {"README.md", "docs/FOUNDATION.md", "policies/aios.policies.json"} \subseteq r.files,
               r.files \intersect Adrs # {}
        PROVE  FALSE
    <3>1. CASE f \in Docs!AuditPkbInventory(r)
      BY <2>4, <3>1, PkbFindings DEF Docs!Finding
    <3>2. CASE f \notin Docs!AuditPkbInventory(r)
      BY <2>4, <3>2, AuditFindings DEF Docs!Finding, Docs!Grave
    <3> QED BY <3>1, <3>2
  <2> QED BY <1>1, <2>1, <2>2, <2>3, <2>4
<1> QED BY <1>1, <1>3, <1>4, <1>5 DEF Docs!AuditAccounts

\* Whatever the repository, its audit accounts for every path it knows of, and
\* is ok exactly for what the code documents.
THEOREM AuditsAccount == EnginesSpec => []AuditAccounts
<1> DEFINE Inv == part = "docs" =>
                    \/ audit = Docs!NoAudit
                    \/ repo \in Repos /\ audit = Docs!AuditDocumentation(repo)
<1>1. EnginesInit => Inv
  <2>1. EnginesInit => Docs!DocInit
    BY Zenon DEF EnginesInit
  <2> QED BY <2>1 DEF Docs!DocInit
<1>2. Inv /\ [EnginesNext]_enginesVars => Inv'
  <2> SUFFICES ASSUME Inv, [EnginesNext]_enginesVars, part' = "docs"
               PROVE  Inv'
    OBVIOUS
  <2>1. part = "docs"
    BY PartStays
  <2>2. Docs!AuditDocs \/ UNCHANGED audits
    BY <2>1 DEF EnginesNext, enginesVars, AgentsPart, RemotesPart, TreesPart, PromptsPart,
                ContextPart, GraphPart, VaultPart, DocsPart
  <2> QED BY <2>1, <2>2 DEF Docs!AuditDocs, audits
<1>3. Inv => AuditAccounts
  <2> SUFFICES ASSUME Inv, part = "docs", audit # Docs!NoAudit PROVE Docs!AuditAccounts
    BY DEF AuditAccounts, Docs!AuditAccounts
  <2>1. repo \in Repos /\ audit = Docs!AuditDocumentation(repo)
    OBVIOUS
  <2>2. "none" \notin repo.index
    BY <2>1, EnginesAssumption DEF EnginesAssumption
  <2> QED BY <2>1, <2>2, AuditTells
<1> QED BY <1>1, <1>2, <1>3, PTL DEF EnginesSpec

-----------------------------------------------------------------------------
(* Rebuilds of the index.                                                  *)

\* A set of naturals has a least element.
LEMMA MinIsLeast ==
  ASSUME NEW S \in SUBSET Nat, S # {}
  PROVE  Prompts!Min(S) \in S /\ \A y \in S : Prompts!Min(S) <= y
<1>1. \E z \in S : \A y \in S : z <= y
  BY HasLeast
<1> QED BY <1>1, Zenon DEF Prompts!Min

RebuildStep == {"new", "opened", "deleted", "listed", "read", "ok", "failed", "dead"}

PkbTypes ==
  /\ DOMAIN docs = PromptRepo /\ \A own \in PromptRepo : DOMAIN docs[own] = Doc
  /\ step \in [Rebuild -> RebuildStep]
  /\ DOMAIN repoPath = Rebuild /\ DOMAIN left = Rebuild /\ DOMAIN read = Rebuild
  /\ lastDelete \in Rebuild \union {"none"}

\* Who has begun knows its repository; the last to delete has deleted; and who
\* has deleted and not ended is the last or was late.
Deleters ==
  /\ \A r \in Rebuild : step[r] # "new" => repoPath[r] \in PromptRepo
  /\ lastDelete # "none" => step[lastDelete] \notin {"new", "opened"}
  /\ \A r \in Rebuild : Prompts!Deleted(r) => r = lastDelete \/ r \in late

\* The repository of the last to delete, and that it stands as it did.
Latest == repoPath[lastDelete]
Calm == lastDelete # "none" /\ Latest \notin touched

\* While its repository is not edited, the last to delete reads what is there ...
ReadsTrue ==
  Calm =>
    /\ step[lastDelete] \in {"listed", "read"} => left[lastDelete] \subseteq Prompts!OnDisk(Latest)
    /\ step[lastDelete] = "read" =>
         left[lastDelete] # {} /\ read[lastDelete] = docs[Latest][Prompts!Min(left[lastDelete])]

\* ... and the index lacks only what it has left, and holds nothing else if none
\* was late.
Holds(d) == d \in DOMAIN vectors /\ vectors[d] = docs[Latest][d]
RowsTrue ==
  Calm =>
    /\ step[lastDelete] \in {"listed", "read"} =>
         \A d \in Prompts!OnDisk(Latest) \ left[lastDelete] : Holds(d)
    /\ step[lastDelete] = "ok" => \A d \in Prompts!OnDisk(Latest) : Holds(d)
    /\ late = {} => DOMAIN vectors \subseteq Prompts!OnDisk(Latest)

PkbInv == PkbTypes /\ Deleters /\ ReadsTrue /\ RowsTrue /\ missed = {}

\* A step that leaves the last to delete, its repository and the index alone
\* disturbs nothing.
LEMMA OthersStep ==
  ASSUME PkbInv, PkbTypes', Deleters', missed' = missed,
         UNCHANGED <<lastDelete, late, vectors>>, touched \subseteq touched',
         lastDelete # "none" => /\ step'[lastDelete] = step[lastDelete]
                                /\ repoPath'[lastDelete] = Latest
                                /\ left'[lastDelete] = left[lastDelete]
                                /\ read'[lastDelete] = read[lastDelete],
         Calm' => docs'[Latest] = docs[Latest]
  PROVE  PkbInv'
<1> USE DEF PkbInv, Calm, Latest, Prompts!OnDisk
<1>1. Calm' => Calm
  OBVIOUS
<1>2. Calm' => Prompts!OnDisk(Latest)' = Prompts!OnDisk(Latest)
  OBVIOUS
<1>3. ReadsTrue'
  BY <1>1, <1>2 DEF ReadsTrue
<1>4. RowsTrue'
  BY <1>1, <1>2 DEF RowsTrue, Holds
<1> QED BY <1>3, <1>4

\* A rebuild that ends without an answer of ok.
LEMMA EndedStep ==
  ASSUME PkbInv, NEW r \in Rebuild, r \in Prompts!Active,
         NEW s \in {"failed", "dead"},
         step' = [step EXCEPT ![r] = s],
         left' = [left EXCEPT ![r] = {}], read' = [read EXCEPT ![r] = Prompts!Absent],
         UNCHANGED <<docs, vectors, repoPath, lastDelete, late, touched, missed>>
  PROVE  PkbInv'
<1> USE DEF PkbInv
<1>1. PkbTypes'
  BY DEF PkbTypes, RebuildStep
<1>2. Deleters'
  BY DEF Deleters, PkbTypes, Prompts!Active, Prompts!Deleted
<1>3. CASE r = lastDelete
  <2>1. step'[lastDelete] = s
    BY <1>3 DEF PkbTypes
  <2>2. ReadsTrue'
    BY <2>1 DEF ReadsTrue
  <2>3. RowsTrue'
    BY <2>1 DEF RowsTrue, Calm, Latest, Holds, Prompts!OnDisk
  <2> QED BY <1>1, <1>2, <2>2, <2>3
<1>4. CASE r # lastDelete
  <2>1. lastDelete # "none" => /\ step'[lastDelete] = step[lastDelete]
                               /\ left'[lastDelete] = left[lastDelete]
                               /\ read'[lastDelete] = read[lastDelete]
    BY <1>4 DEF PkbTypes
  <2> QED BY <1>1, <1>2, <2>1, OthersStep DEF Latest
<1> QED BY <1>3, <1>4

LEMMA PkbStep ==
  ASSUME PkbInv, Prompts!PkbNext, EnginesAssumption
  PROVE  PkbInv'
<1> USE DEF RebuildStep, Prompts!To, PkbInv, Prompts!historyVars
<1>0. "none" \notin Rebuild /\ Doc \subseteq Nat
      /\ \A own \in PromptRepo : Prompts!OnDisk(own) \subseteq Doc
  BY DEF EnginesAssumption, Prompts!OnDisk
<1>1. CASE Prompts!EditDoc
  <2>1. PICK own \in PromptRepo, d \in Doc, c \in Prompts!Content \union {Prompts!Absent} :
          docs' = [docs EXCEPT ![own][d] = c] /\ touched' = touched \union {own}
    BY <1>1 DEF Prompts!EditDoc
  <2>2. PkbTypes' /\ Deleters'
    BY <1>1, <2>1 DEF Prompts!EditDoc, PkbTypes, Deleters, Prompts!Deleted
  <2>3. Calm' => docs'[Latest] = docs[Latest]
    BY <1>1, <2>1 DEF Prompts!EditDoc, Calm, Latest, PkbTypes
  <2> QED BY <1>1, <2>1, <2>2, <2>3, OthersStep DEF Prompts!EditDoc, Latest
<1>2. ASSUME NEW r \in Rebuild, Prompts!OpenDb(r) PROVE PkbInv'
  <2>1. PkbTypes'
    BY <1>2 DEF Prompts!OpenDb, PkbTypes
  <2>2. Deleters'
    BY <1>0, <1>2 DEF Prompts!OpenDb, PkbTypes, Deleters, Prompts!Deleted
  <2>3. lastDelete # r
    BY <1>0, <1>2 DEF Prompts!OpenDb, Deleters
  <2>4. lastDelete # "none" => step'[lastDelete] = step[lastDelete] /\ repoPath'[lastDelete] = Latest
    BY <1>2, <2>3 DEF Prompts!OpenDb, PkbTypes, Latest
  <2> QED BY <1>2, <2>1, <2>2, <2>4, OthersStep DEF Prompts!OpenDb
<1>3. ASSUME NEW r \in Rebuild, Prompts!DeleteRows(r) PROVE PkbInv'
  <2>1. PkbTypes'
    BY <1>3 DEF Prompts!DeleteRows, PkbTypes
  <2>2. Deleters'
    BY <1>0, <1>3 DEF Prompts!DeleteRows, PkbTypes, Deleters, Prompts!Deleted
  <2>3. DOMAIN vectors' = {} /\ step'[lastDelete'] = "deleted"
    BY <1>3 DEF Prompts!DeleteRows, PkbTypes
  <2>4. ReadsTrue'
    BY <2>3 DEF ReadsTrue
  <2>5. RowsTrue'
    BY <2>3 DEF RowsTrue
  <2> QED BY <1>3, <2>1, <2>2, <2>4, <2>5 DEF Prompts!DeleteRows
<1>4. ASSUME NEW r \in Rebuild, Prompts!ListPkbMarkdown(r) PROVE PkbInv'
  <2>1. PkbTypes' /\ Deleters'
    BY <1>4 DEF Prompts!ListPkbMarkdown, PkbTypes, Deleters, Prompts!Deleted
  <2>2. CASE r = lastDelete
    <3>1. /\ left'[lastDelete] = Prompts!OnDisk(Latest) /\ step'[lastDelete] = "listed"
          /\ UNCHANGED <<docs, vectors, repoPath, lastDelete, late, touched>>
      BY <1>4, <2>2 DEF Prompts!ListPkbMarkdown, PkbTypes, Latest
    <3>2. Prompts!OnDisk(Latest)' = Prompts!OnDisk(Latest) /\ (Calm' => Calm)
      BY <3>1 DEF Prompts!OnDisk, Latest, Calm
    <3>3. ReadsTrue'
      BY <3>1, <3>2 DEF ReadsTrue
    <3>4. RowsTrue'
      BY <3>1, <3>2 DEF RowsTrue
    <3> QED BY <1>4, <2>1, <3>3, <3>4 DEF Prompts!ListPkbMarkdown
  <2>3. CASE r # lastDelete
    <3>1. lastDelete # "none" =>
            step'[lastDelete] = step[lastDelete] /\ left'[lastDelete] = left[lastDelete]
      BY <1>4, <2>3 DEF Prompts!ListPkbMarkdown, PkbTypes
    <3> QED BY <1>4, <2>1, <3>1, OthersStep DEF Prompts!ListPkbMarkdown, Latest
  <2> QED BY <2>2, <2>3
<1>5. ASSUME NEW r \in Rebuild, Prompts!ReadDoc(r) PROVE PkbInv'
  <2> DEFINE d == Prompts!Min(left[r])
  <2>2. /\ step[r] = "listed" /\ left[r] # {}
        /\ UNCHANGED <<docs, vectors, repoPath, missed, lastDelete, late, touched>>
        /\ \/ /\ docs[repoPath[r]][d] = Prompts!Absent /\ left' = [left EXCEPT ![r] = @ \ {d}]
              /\ UNCHANGED <<step, read>>
           \/ /\ read' = [read EXCEPT ![r] = docs[repoPath[r]][d]]
              /\ step' = [step EXCEPT ![r] = "read"] /\ UNCHANGED left
    BY <1>5 DEF Prompts!ReadDoc
  <2>1. Calm /\ r = lastDelete => d \in left[r] /\ d \in Prompts!OnDisk(Latest)
    <3> SUFFICES ASSUME Calm, r = lastDelete PROVE d \in left[r] /\ d \in Prompts!OnDisk(Latest)
      OBVIOUS
    <3>1. left[r] \subseteq Prompts!OnDisk(Latest) /\ Latest \in PromptRepo
      BY <2>2 DEF ReadsTrue, Deleters, Latest
    <3>2. left[r] \in SUBSET Nat
      BY <1>0, <3>1
    <3> QED BY <2>2, <3>1, <3>2, MinIsLeast
  <2> HIDE DEF d
  <2>3. PkbTypes' /\ Deleters'
    BY <2>2 DEF PkbTypes, Deleters, Prompts!Deleted
  <2>4. CASE r # lastDelete
    <3>1. lastDelete # "none" => /\ step'[lastDelete] = step[lastDelete]
                                 /\ left'[lastDelete] = left[lastDelete]
                                 /\ read'[lastDelete] = read[lastDelete]
      BY <2>2, <2>4 DEF PkbTypes
    <3> QED BY <2>2, <2>3, <3>1, OthersStep DEF Latest
  <2>5. CASE r = lastDelete
    <3>1. Prompts!OnDisk(Latest)' = Prompts!OnDisk(Latest) /\ (Calm' => Calm)
      BY <2>2 DEF Prompts!OnDisk, Latest, Calm
    <3>2. CASE UNCHANGED <<step, read>> /\ docs[repoPath[r]][d] = Prompts!Absent
      <4>1. ~Calm
        BY <2>1, <2>5, <3>2 DEF Prompts!OnDisk, Latest
      <4> QED BY <2>2, <2>3, <3>1, <4>1 DEF ReadsTrue, RowsTrue
    <3>3. CASE /\ read' = [read EXCEPT ![r] = docs[repoPath[r]][d]]
               /\ step' = [step EXCEPT ![r] = "read"] /\ UNCHANGED left
      <4>1. step'[lastDelete] = "read" /\ read'[lastDelete] = docs[Latest][d]
        BY <2>5, <3>3 DEF PkbTypes, Latest
      <4>2. ReadsTrue'
        <5>1. Calm' => left[lastDelete] \subseteq Prompts!OnDisk(Latest)
          BY <2>2, <2>5, <3>1 DEF ReadsTrue
        <5>2. d = Prompts!Min(left[lastDelete]) /\ left[lastDelete] # {}
          BY <2>2, <2>5 DEF d
        <5>3. Latest' = Latest /\ docs' = docs /\ left' = left /\ lastDelete' = lastDelete
          BY <2>2, <3>3 DEF Latest
        <5> QED BY <3>1, <4>1, <5>1, <5>2, <5>3 DEF ReadsTrue
      <4>3. RowsTrue'
        BY <2>2, <2>5, <3>1, <3>3, <4>1 DEF RowsTrue, Holds, Latest
      <4> QED BY <2>2, <2>3, <4>2, <4>3
    <3> QED BY <2>2, <3>2, <3>3
  <2> QED BY <2>4, <2>5
<1>6. ASSUME NEW r \in Rebuild, Prompts!InsertRow(r) PROVE PkbInv'
  <2> DEFINE d == Prompts!Min(left[r])
  <2>2. /\ step[r] = "read"
        /\ UNCHANGED <<docs, repoPath, missed, lastDelete, late, touched>>
        /\ read' = [read EXCEPT ![r] = Prompts!Absent]
    BY <1>6 DEF Prompts!InsertRow, Prompts!Fail
  <2>1. Calm /\ r = lastDelete => d \in Prompts!OnDisk(Latest) /\ read[r] = docs[Latest][d]
    <3> SUFFICES ASSUME Calm, r = lastDelete
                 PROVE  d \in Prompts!OnDisk(Latest) /\ read[r] = docs[Latest][d]
      OBVIOUS
    <3>1. /\ left[r] \subseteq Prompts!OnDisk(Latest) /\ Latest \in PromptRepo /\ left[r] # {}
          /\ read[r] = docs[Latest][d]
      BY <2>2 DEF ReadsTrue, Deleters, Latest
    <3>2. left[r] \in SUBSET Nat
      BY <1>0, <3>1
    <3> QED BY <3>1, <3>2, MinIsLeast
  <2>3. CASE d \in DOMAIN vectors
    <3>1. /\ step' = [step EXCEPT ![r] = "failed"] /\ left' = [left EXCEPT ![r] = {}]
          /\ UNCHANGED vectors
      BY <1>6, <2>3 DEF Prompts!InsertRow, Prompts!Fail
    <3> HIDE DEF d
    <3> QED BY <2>2, <3>1, EndedStep DEF Prompts!Active
  <2>4. CASE d \notin DOMAIN vectors
    <3>1. /\ step' = [step EXCEPT ![r] = "listed"] /\ left' = [left EXCEPT ![r] = @ \ {d}]
          /\ vectors' = [e \in DOMAIN vectors \union {d} |-> IF e = d THEN read[r] ELSE vectors[e]]
      BY <1>6, <2>4 DEF Prompts!InsertRow
    <3> HIDE DEF d
    <3>2. PkbTypes' /\ Deleters'
      BY <2>2, <3>1 DEF PkbTypes, Deleters, Prompts!Deleted
    <3>3. Prompts!OnDisk(Latest)' = Prompts!OnDisk(Latest) /\ (Calm' => Calm) /\ Latest' = Latest
      BY <2>2 DEF Prompts!OnDisk, Latest, Calm
    <3>4. ReadsTrue'
      <4>1. CASE r = lastDelete
        BY <2>2, <3>1, <3>3, <4>1 DEF ReadsTrue, PkbTypes
      <4>2. CASE r # lastDelete
        <5>1. lastDelete # "none" => /\ step'[lastDelete] = step[lastDelete]
                                     /\ left'[lastDelete] = left[lastDelete]
                                     /\ read'[lastDelete] = read[lastDelete]
          BY <2>2, <3>1, <4>2 DEF PkbTypes
        <5>2. Calm' => lastDelete # "none"
          BY <3>3 DEF Calm
        <5> QED BY <2>2, <3>3, <5>1, <5>2 DEF ReadsTrue
      <4> QED BY <4>1, <4>2
    <3>5. \A e : Holds(e) => Holds(e)'
      BY <2>2, <2>4, <3>1, <3>3 DEF Holds
    <3>6. Calm /\ r = lastDelete => d \in DOMAIN vectors' /\ vectors'[d] = docs'[Latest'][d]
      BY <2>1, <2>2, <3>1, <3>3
    <3>7. Calm' /\ step'[lastDelete] \in {"listed", "read"} =>
            \A e \in Prompts!OnDisk(Latest) \ left'[lastDelete] : Holds(e)'
      <4>1. CASE r = lastDelete
        <5>1. left'[lastDelete] = left[lastDelete] \ {d}
          BY <3>1, <4>1 DEF PkbTypes
        <5>2. Calm => \A e \in Prompts!OnDisk(Latest) \ left[lastDelete] : Holds(e)
          BY <2>2, <4>1 DEF RowsTrue
        <5>3. SUFFICES ASSUME Calm', NEW e \in Prompts!OnDisk(Latest) \ left'[lastDelete]
                       PROVE  e \in DOMAIN vectors' /\ vectors'[e] = docs'[Latest'][e]
          BY DEF Holds
        <5>4. CASE e = d
          BY <3>3, <3>6, <4>1, <5>3, <5>4
        <5>5. CASE e # d
          BY <3>3, <3>5, <5>1, <5>2, <5>3, <5>5 DEF Holds
        <5> QED BY <5>4, <5>5
      <4>2. CASE r # lastDelete
        <5>1. lastDelete # "none" => /\ step'[lastDelete] = step[lastDelete]
                                     /\ left'[lastDelete] = left[lastDelete]
          BY <3>1, <4>2 DEF PkbTypes
        <5>2. Calm' => lastDelete # "none"
          BY <3>3 DEF Calm
        <5> QED BY <3>3, <3>5, <5>1, <5>2 DEF RowsTrue
      <4> QED BY <4>1, <4>2
    <3>8. Calm' /\ step'[lastDelete] = "ok" => \A e \in Prompts!OnDisk(Latest) : Holds(e)'
      <4>1. Calm' /\ step'[lastDelete] = "ok" => step[lastDelete] = "ok"
        BY <3>1, <3>3 DEF PkbTypes, Calm
      <4> QED BY <3>3, <3>5, <4>1 DEF RowsTrue
    <3>9. Calm' /\ late = {} => DOMAIN vectors' \subseteq Prompts!OnDisk(Latest)
      <4>1. late = {} => r = lastDelete
        BY <2>2 DEF Deleters, Prompts!Deleted
      <4> QED BY <2>1, <3>1, <3>3, <4>1 DEF RowsTrue
    <3>10. RowsTrue'
      BY <2>2, <3>3, <3>7, <3>8, <3>9 DEF RowsTrue
    <3> QED BY <2>2, <3>2, <3>4, <3>10
  <2> QED BY <2>3, <2>4
<1>7. ASSUME NEW r \in Rebuild, Prompts!FinishRebuild(r) PROVE PkbInv'
  <2>1. /\ step[r] = "listed" /\ left[r] = {} /\ step' = [step EXCEPT ![r] = "ok"]
        /\ UNCHANGED <<docs, vectors, left, read, repoPath, missed, lastDelete, late, touched>>
    BY <1>7 DEF Prompts!FinishRebuild
  <2>2. PkbTypes' /\ Deleters'
    BY <2>1 DEF PkbTypes, Deleters, Prompts!Deleted
  <2>3. CASE r = lastDelete
    <3>1. Prompts!OnDisk(Latest)' = Prompts!OnDisk(Latest) /\ (Calm' => Calm) /\ Latest' = Latest
      BY <2>1 DEF Prompts!OnDisk, Latest, Calm
    <3>2. step'[lastDelete] = "ok"
      BY <2>1, <2>3 DEF PkbTypes
    <3>3. ReadsTrue'
      BY <2>1, <3>2 DEF ReadsTrue
    <3>4. RowsTrue'
      BY <2>1, <2>3, <3>1, <3>2 DEF RowsTrue, Holds
    <3> QED BY <2>1, <2>2, <3>3, <3>4
  <2>4. CASE r # lastDelete
    <3>1. lastDelete # "none" => step'[lastDelete] = step[lastDelete]
      BY <2>1, <2>4 DEF PkbTypes
    <3> QED BY <2>1, <2>2, <3>1, OthersStep DEF Latest
  <2> QED BY <2>3, <2>4
<1>8. ASSUME NEW r \in Rebuild, Prompts!Busy(r) \/ Prompts!DieRebuilding(r) PROVE PkbInv'
  BY <1>8, EndedStep DEF Prompts!Busy, Prompts!DieRebuilding, Prompts!Fail
<1>9. ASSUME NEW own \in PromptRepo, NEW mode \in {"semantic", "textual"}, NEW query \in BOOLEAN,
             NEW topic \in Topic \union {"any"}, Prompts!SearchPkb(own, mode, query, topic)
      PROVE  PkbInv'
  <2>1. UNCHANGED <<docs, vectors, step, repoPath, left, read, lastDelete, late, touched>>
    BY <1>9 DEF Prompts!SearchPkb
  <2>2. Prompts!Sound(own) =>
          Prompts!SearchPkbTextual(own, query, topic) \subseteq Prompts!SearchPkbIndex(topic)
    <3> SUFFICES ASSUME Prompts!Sound(own),
                        NEW d \in Prompts!SearchPkbTextual(own, query, topic)
                 PROVE  d \in Prompts!SearchPkbIndex(topic)
      OBVIOUS
    <3>1. d \in Prompts!OnDisk(own) /\ (topic # "any" => docs[own][d].topic = topic)
      BY DEF Prompts!SearchPkbTextual
    <3>2. d \in DOMAIN vectors /\ vectors[d] = docs[own][d]
      BY <1>0, <3>1 DEF Prompts!Sound, RowsTrue, Calm, Latest, Holds
    <3> QED BY <3>1, <3>2 DEF Prompts!SearchPkbIndex
  <2>3. missed' = {}
    BY <1>9, <2>2 DEF Prompts!SearchPkb
  <2>4. PkbTypes' /\ Deleters'
    BY <2>1 DEF PkbTypes, Deleters, Prompts!Deleted
  <2>5. ReadsTrue' /\ RowsTrue'
    BY <2>1 DEF ReadsTrue, RowsTrue, Calm, Latest, Holds, Prompts!OnDisk
  <2> QED BY <2>3, <2>4, <2>5
<1> QED
  BY <1>1, <1>2, <1>3, <1>4, <1>5, <1>6, <1>7, <1>8, <1>9 DEF Prompts!PkbNext

\* Once the last rebuild to delete the rows has answered ok, and until somebody
\* edits its repository, the index holds every document of this as it is, and
\* no search of it has missed one, whatever rebuilds for whatever repositories
\* overlapped with it; if none of them was late, it holds nothing else.
THEOREM IndexStaysWhole == EnginesSpec => []IndexWhole
<1> DEFINE Inv == part = "prompts" => PkbInv
<1>1. EnginesInit => Inv
  <2> SUFFICES ASSUME EnginesInit PROVE PkbInv
    OBVIOUS
  <2>1. Prompts!PkbInit
    BY Zenon DEF EnginesInit
  <2>2. PkbTypes
    BY <2>1, EnginesAssumption DEF Prompts!PkbInit, PkbTypes, RebuildStep, EnginesAssumption
  <2>3. Deleters
    BY <2>1 DEF Prompts!PkbInit, Deleters, Prompts!Deleted
  <2>4. ReadsTrue /\ RowsTrue /\ missed = {}
    BY <2>1 DEF Prompts!PkbInit, ReadsTrue, RowsTrue, Calm
  <2> QED BY <2>2, <2>3, <2>4 DEF PkbInv
<1>2. Inv /\ [EnginesNext]_enginesVars => Inv'
  <2> SUFFICES ASSUME Inv, [EnginesNext]_enginesVars, part' = "prompts"
               PROVE  PkbInv'
    OBVIOUS
  <2>1. part = "prompts" /\ PkbInv
    BY PartStays
  <2>2. CASE Prompts!PkbNext
    BY <2>1, <2>2, EnginesAssumption, PkbStep
  <2>3. CASE UNCHANGED prompts
    <3>1. PkbTypes' /\ Deleters'
      BY <2>1, <2>3 DEF prompts, PkbInv, PkbTypes, Deleters, Prompts!Deleted
    <3>2. ReadsTrue' /\ RowsTrue' /\ missed' = {}
      BY <2>1, <2>3
      DEF prompts, PkbInv, ReadsTrue, RowsTrue, Calm, Latest, Holds, Prompts!OnDisk
    <3> QED BY <3>1, <3>2 DEF PkbInv
  <2>4. Prompts!PkbNext \/ UNCHANGED prompts
    BY <2>1 DEF EnginesNext, enginesVars, AgentsPart, RemotesPart, TreesPart, PromptsPart,
                ContextPart, GraphPart, VaultPart, DocsPart
  <2> QED BY <2>2, <2>3, <2>4
<1>3. Inv => IndexWhole
  <2> SUFFICES ASSUME part = "prompts", PkbInv PROVE Prompts!IndexWhole
    BY DEF IndexWhole, Prompts!IndexWhole
  <2>1. "none" \notin Rebuild
    BY EnginesAssumption DEF EnginesAssumption
  <2> QED BY <2>1 DEF PkbInv, RowsTrue, Calm, Latest, Holds, Prompts!IndexWhole, Prompts!Sound
<1> QED BY <1>1, <1>2, <1>3, PTL DEF EnginesSpec

-----------------------------------------------------------------------------
(* Listings of agents.                                                     *)

\* The rows that a sequence's last row of each name make of a map.
Names(rows) == {rows[i].name : i \in DOMAIN rows}
LastOf(rows, n) ==
  CHOOSE i \in DOMAIN rows :
    rows[i].name = n /\ \A j \in DOMAIN rows : rows[j].name = n => j <= i

LEMMA PutIs ==
  ASSUME NEW map, NEW rows, NEW via
  PROVE  Agents!Put(map, rows, via) =
           [n \in Names(rows) \union DOMAIN map |->
              IF n \in Names(rows) THEN [row |-> rows[LastOf(rows, n)], via |-> via] ELSE map[n]]
BY Zenon DEF Agents!Put, Names, LastOf

\* A bounded set of naturals has a greatest element.
LEMMA GreatestIs ==
  ASSUME NEW n \in Nat, NEW S \in SUBSET (1..n), S # {}
  PROVE  \E x \in S : \A y \in S : y <= x
<1> DEFINE T == {k \in Nat : n - k \in S}
<1>1. T \in SUBSET Nat /\ T # {}
  <2>1. PICK x \in S : TRUE
    OBVIOUS
  <2>2. n - x \in Nat /\ n - (n - x) = x
    BY <2>1
  <2> QED BY <2>2
<1>2. PICK k \in T : \A y \in T : k <= y
  BY <1>1, MinIsLeast
<1>3. \A y \in S : n - y \in T /\ y \in 1..n
  <2> SUFFICES ASSUME NEW y \in S PROVE n - y \in T
    OBVIOUS
  <2>1. y \in 1..n
    OBVIOUS
  <2>2. n - y \in Nat /\ n - (n - y) = y
    BY <2>1
  <2> QED BY <2>2
<1>4. n - k \in S /\ k \in Nat
  BY <1>2
<1>5. ASSUME NEW y \in S PROVE y <= n - k
  <2>1. k <= n - y /\ y \in 1..n
    BY <1>2, <1>3
  <2> HIDE DEF T
  <2> QED BY <1>4, <2>1
<1> QED BY <1>4, <1>5

LEMMA LastIsThere ==
  ASSUME NEW R, NEW rows \in Seq(R), NEW n \in Names(rows)
  PROVE  LastOf(rows, n) \in DOMAIN rows
<1> DEFINE S == {i \in DOMAIN rows : rows[i].name = n}
<1>1. Len(rows) \in Nat /\ DOMAIN rows = 1..Len(rows)
  BY LenProperties
<1>2. S \in SUBSET (1..Len(rows)) /\ S # {}
  BY <1>1 DEF Names
<1>3. \E i \in S : \A j \in S : j <= i
  <2> HIDE DEF S
  <2> QED BY <1>1, <1>2, GreatestIs
<1>4. \E i \in DOMAIN rows : rows[i].name = n /\ \A j \in DOMAIN rows : rows[j].name = n => j <= i
  BY <1>3
<1> QED BY <1>4, Zenon DEF LastOf

LocalRow == [name : Agent \union {Agents!Nameless}, source : {"local"}, edition : Nat]
ListingState ==
  {"new", "community", "readCatalog", "saved", "local", "scan", "listed", "failed"}
Entry == cached["local"]
LookedUp(c) == asked[c]["local"]

\* A manifest with this row was there at t or later.
Shown(row, t) == \E w \in was : w[1] \in Nat /\ t <= w[1] /\ w[1] <= clock /\ w[3] = <<row>>

AgentTypes ==
  /\ clock \in Nat /\ agentEdits \in Nat
  /\ agentsDir \in [Dir -> {<<>>} \union {<<r>> : r \in LocalRow}]
  /\ DOMAIN cached = Agents!Sources
  /\ Entry.rows \in Seq(LocalRow) /\ Entry.stamp \in Int
  /\ at \in [Agents!Listing -> ListingState]
  /\ DOMAIN found = Agents!Listing
  /\ DOMAIN reading = Agents!Listing
  /\ \A c \in Agents!Listing : reading[c].dirs \in Nat /\ reading[c].rows \in Seq(LocalRow)
  /\ asked \in [Agents!Listing -> [Agents!Sources -> Nat]]
  /\ \A c \in Agents!Listing : LookedUp(c) <= clock

\* What is there now is in the history.
NowSeen == \A d \in Dir : <<clock, d, agentsDir[d]>> \in was

\* What is cached was there when its scan began or later.
EntryShown == \A i \in DOMAIN Entry.rows : Shown(Entry.rows[i], Entry.stamp - MaxFill)

\* So was what a scan has read, and what a listing answers.
ListingShown(c) ==
  /\ at[c] # "scan" => reading[c] = Agents!NoScanYet
  /\ at[c] = "scan" =>
       /\ clock - LookedUp(c) <= MaxFill
       /\ \A i \in DOMAIN reading[c].rows : Shown(reading[c].rows[i], LookedUp(c))
  /\ at[c] # "listed" => Agents!Locals(c) = {}
  /\ \A n \in Agents!Locals(c) : Shown(found[c][n].row, LookedUp(c) - Ttl - MaxFill + 1)

\* The local agents of a listing are those of the rows.
Answers(c, rows) ==
  /\ Agents!Locals(c) = Names(rows)
  /\ \A n \in Names(rows) : found[c][n] = [row |-> rows[LastOf(rows, n)], via |-> "local"]

\* The listing of the rows comes first and fills the cache, and for as long as
\* its entry lasts no listing of the trees looks at the directories.
RowsFirst ==
  /\ at["rows"] \notin {"listed", "failed"} => Entry = Agents!NoEntry
  /\ at["rows"] # "listed" => \A c \in Tree : at[c] = "new"
  /\ at["rows"] = "listed" /\ Agents!Locals("rows") # {} =>
       /\ clock - LookedUp("rows") < Ttl =>
            Entry.stamp >= LookedUp("rows") /\ Answers("rows", Entry.rows)
       /\ \A c \in Tree :
            /\ at[c] = "scan" => LookedUp(c) - LookedUp("rows") >= Ttl
            /\ at[c] = "listed" /\ LookedUp(c) - LookedUp("rows") < Ttl =>
                 /\ Agents!Locals(c) = Agents!Locals("rows")
                 /\ \A n \in Agents!Locals(c) : found[c][n] = found["rows"][n]

AgentInv ==
  /\ AgentTypes /\ NowSeen /\ EntryShown
  /\ \A c \in Agents!Listing : ListingShown(c)
  /\ RowsFirst

LEMMA AgentTells ==
  ASSUME AgentInv, EnginesAssumption
  PROVE  Agents!CacheTells
<1>1. Ttl \in Nat /\ MaxFill \in Nat
  BY DEF EnginesAssumption
<1>2. Agents!AnswersFresh
  <2> SUFFICES ASSUME NEW c \in Agents!Listing, NEW n \in DOMAIN found[c],
                      found[c][n].via = "local"
               PROVE  \E w \in was : /\ w[1] > LookedUp(c) - Ttl - MaxFill
                                     /\ w[1] <= clock /\ w[3] = <<found[c][n].row>>
    BY DEF Agents!AnswersFresh, LookedUp
  <2>1. Shown(found[c][n].row, LookedUp(c) - Ttl - MaxFill + 1)
    BY DEF AgentInv, ListingShown, Agents!Locals
  <2>2. LookedUp(c) \in Nat
    BY DEF AgentInv, AgentTypes, LookedUp, Agents!Sources
  <2>3. PICK w \in was : /\ w[1] \in Nat /\ LookedUp(c) - Ttl - MaxFill + 1 <= w[1]
                         /\ w[1] <= clock /\ w[3] = <<found[c][n].row>>
    BY <2>1 DEF Shown
  <2>4. \A a, b, t, m \in Int : a - t - m + 1 <= b => b > a - t - m
    OBVIOUS
  <2>5. w[1] > LookedUp(c) - Ttl - MaxFill
    BY <1>1, <2>2, <2>3, <2>4
  <2> QED BY <2>3, <2>5
<1>3. Agents!TreesMatchRows
  <2> SUFFICES ASSUME NEW c \in Tree, at[c] = "listed", Agents!Locals("rows") # {},
                      LookedUp(c) - LookedUp("rows") < Ttl
               PROVE  /\ Agents!Locals(c) = Agents!Locals("rows")
                      /\ \A n \in Agents!Locals(c) : found[c][n] = found["rows"][n]
    BY DEF Agents!TreesMatchRows, LookedUp
  <2> QED BY DEF AgentInv, RowsFirst
<1> QED BY <1>2, <1>3 DEF Agents!CacheTells

\* What was shown stays shown.
LEMMA StaysShown ==
  ASSUME clock \in Nat, clock' \in Nat, clock <= clock', was \subseteq was',
         NEW row, NEW t, Shown(row, t)
  PROVE  Shown(row, t)'
BY DEF Shown

\* Files are edited and time passes.
LEMMA FilesStep ==
  ASSUME AgentInv, EnginesAssumption, UNCHANGED <<cached, at, found, reading, asked>>,
         clock' \in Nat, clock <= clock', agentEdits' \in Nat,
         agentsDir' \in [Dir -> {<<>>} \union {<<r>> : r \in LocalRow}],
         was' = was \union Agents!Present',
         \A c \in Agents!Listing : at[c] = "scan" => clock' - LookedUp(c) <= MaxFill
  PROVE  AgentInv'
<1>1. /\ AgentTypes /\ EntryShown /\ RowsFirst
      /\ \A c \in Agents!Listing : ListingShown(c)
  BY DEF AgentInv
<1>2. /\ Entry' = Entry /\ \A c \in Agents!Listing : LookedUp(c)' = LookedUp(c)
      /\ \A c \in Agents!Listing : Agents!Locals(c)' = Agents!Locals(c)
  BY DEF Entry, LookedUp, Agents!Locals
<1>3. clock \in Nat /\ \A c \in Agents!Listing : LookedUp(c) \in Nat /\ LookedUp(c) <= clock
  BY <1>1 DEF AgentTypes, LookedUp, Agents!Sources
<1>4. \A row, t : Shown(row, t) => Shown(row, t)'
  BY <1>3, StaysShown
<1>5. AgentTypes'
  BY <1>1, <1>2, <1>3 DEF AgentTypes
<1>6. NowSeen'
  BY DEF NowSeen, Agents!Present
<1>7. EntryShown'
  BY <1>1, <1>2, <1>4 DEF EntryShown
<1>8. ASSUME NEW c \in Agents!Listing PROVE ListingShown(c)'
  BY <1>1, <1>2, <1>4 DEF ListingShown
<1>9. RowsFirst'
  <2>1. clock' - LookedUp("rows") < Ttl => clock - LookedUp("rows") < Ttl
    BY <1>3 DEF EnginesAssumption, Agents!Listing
  <2>2. \A c \in Tree : c \in Agents!Listing
    BY DEF Agents!Listing
  <2>3. "rows" \in Agents!Listing
    BY DEF Agents!Listing
  <2> QED BY <1>1, <1>2, <2>1, <2>2, <2>3 DEF RowsFirst, Answers
<1> QED BY <1>5, <1>6, <1>7, <1>8, <1>9 DEF AgentInv

\* A listing merges the sources before the local one.
LEMMA EarlyStep ==
  ASSUME AgentInv, NEW c \in Agents!Listing,
         at[c] \in {"new", "community", "readCatalog", "saved"},
         NEW to \in {"community", "readCatalog", "saved", "local"},
         at' = [at EXCEPT ![c] = to],
         c \in Tree /\ at[c] = "new" => at["rows"] = "listed",
         UNCHANGED <<clock, agentsDir, agentEdits, reading, was>>,
         Entry' = Entry, DOMAIN cached' = DOMAIN cached,
         DOMAIN found' = DOMAIN found,
         \A d \in Agents!Listing : d # c => found'[d] = found[d],
         Agents!Locals(c)' = {},
         asked' \in [Agents!Listing -> [Agents!Sources -> Nat]],
         \A d \in Agents!Listing : LookedUp(d)' = LookedUp(d)
  PROVE  AgentInv'
<1>1. /\ AgentTypes /\ NowSeen /\ EntryShown /\ RowsFirst
      /\ \A d \in Agents!Listing : ListingShown(d)
  BY DEF AgentInv
<1>2. /\ at'[c] = to /\ \A d \in Agents!Listing : d # c => at'[d] = at[d]
      /\ to \in ListingState
      /\ at' \in [Agents!Listing -> ListingState]
  BY <1>1 DEF AgentTypes, ListingState
<1>3. \A d \in Agents!Listing : Agents!Locals(d)' = Agents!Locals(d)
  BY <1>1 DEF Agents!Locals, ListingShown
<1>4. \A row, t : Shown(row, t)' <=> Shown(row, t)
  BY DEF Shown
<1>5. AgentTypes'
  BY <1>1, <1>2 DEF AgentTypes
<1>6. NowSeen' /\ EntryShown'
  BY <1>1, <1>4 DEF NowSeen, EntryShown
<1>7. ASSUME NEW d \in Agents!Listing PROVE ListingShown(d)'
  <2>1. CASE d = c
    BY <1>1, <1>2, <2>1 DEF ListingShown
  <2>2. CASE d # c
    BY <1>1, <1>2, <1>3, <1>4, <2>2 DEF ListingShown
  <2> QED BY <2>1, <2>2
<1>8. RowsFirst'
  <2>1. "rows" \in Agents!Listing /\ \A d \in Tree : d \in Agents!Listing
    BY DEF Agents!Listing
  <2>2. at["rows"] # "listed" => at'["rows"] # "listed" /\ c \notin Tree
    BY <1>1, <1>2, <2>1 DEF RowsFirst
  <2>3. at["rows"] = "listed" => c # "rows"
    OBVIOUS
  <2>4. CASE at["rows"] # "listed"
    BY <1>1, <1>2, <2>1, <2>2, <2>4 DEF RowsFirst
  <2>5. CASE at["rows"] = "listed"
    <3>1. at'["rows"] = "listed" /\ found'["rows"] = found["rows"]
      BY <1>2, <2>1, <2>3, <2>5
    <3>2. Agents!Locals("rows")' = Agents!Locals("rows") /\ LookedUp("rows")' = LookedUp("rows")
      BY <1>3, <2>1
    <3>3. \A d \in Tree : at'[d] \in {"scan", "listed"} =>
            /\ at'[d] = at[d] /\ found'[d] = found[d] /\ LookedUp(d)' = LookedUp(d)
            /\ Agents!Locals(d)' = Agents!Locals(d)
      BY <1>2, <1>3, <2>1
    <3> QED BY <1>1, <2>5, <3>1, <3>2, <3>3 DEF RowsFirst, Answers
  <2> QED BY <2>4, <2>5
<1> QED BY <1>5, <1>6, <1>7, <1>8 DEF AgentInv

\* What a merge of local rows leaves is an answer with these rows.
LEMMA MergeAnswers ==
  ASSUME NEW c, NEW rows, c \in DOMAIN found, Agents!Locals(c) = {},
         found' = [found EXCEPT ![c] = Agents!Put(@, rows, "local")]
  PROVE  Answers(c, rows)'
<1>1. found'[c] = [n \in Names(rows) \union DOMAIN found[c] |->
                     IF n \in Names(rows) THEN [row |-> rows[LastOf(rows, n)], via |-> "local"]
                     ELSE found[c][n]]
  BY PutIs
<1>2. \A n \in DOMAIN found[c] : found[c][n].via # "local"
  BY DEF Agents!Locals
<1> QED BY <1>1, <1>2 DEF Answers, Agents!Locals

\* A merge of other rows leaves no local agent.
LEMMA MergeOthers ==
  ASSUME NEW c, NEW rows, NEW via, via # "local", c \in DOMAIN found, Agents!Locals(c) = {},
         found' = [found EXCEPT ![c] = Agents!Put(@, rows, via)]
  PROVE  Agents!Locals(c)' = {}
<1>1. found'[c] = [n \in Names(rows) \union DOMAIN found[c] |->
                     IF n \in Names(rows) THEN [row |-> rows[LastOf(rows, n)], via |-> via]
                     ELSE found[c][n]]
  BY PutIs
<1>2. \A n \in DOMAIN found[c] : found[c][n].via # "local"
  BY DEF Agents!Locals
<1> QED BY <1>1, <1>2 DEF Agents!Locals

\* A listing looks the local agents up, scans or ends.
LEMMA LocalStep ==
  ASSUME AgentInv, NEW c \in Agents!Listing, NEW to \in {"scan", "listed", "failed"},
         at' = [at EXCEPT ![c] = to],
         UNCHANGED <<clock, agentsDir, agentEdits, was>>,
         DOMAIN cached' = Agents!Sources, Entry'.rows \in Seq(LocalRow), Entry'.stamp \in Int,
         DOMAIN found' = Agents!Listing, DOMAIN reading' = Agents!Listing,
         reading'[c].dirs \in Nat, reading'[c].rows \in Seq(LocalRow),
         asked' \in [Agents!Listing -> [Agents!Sources -> Nat]],
         \A d \in Agents!Listing : LookedUp(d)' <= clock,
         \A d \in Agents!Listing : d # c =>
           found'[d] = found[d] /\ reading'[d] = reading[d] /\ LookedUp(d)' = LookedUp(d),
         EntryShown', ListingShown(c)', RowsFirst'
  PROVE  AgentInv'
<1>1. AgentTypes /\ NowSeen /\ \A d \in Agents!Listing : ListingShown(d)
  BY DEF AgentInv
<1>2. /\ at'[c] = to /\ \A d \in Agents!Listing : d # c => at'[d] = at[d]
      /\ at' \in [Agents!Listing -> ListingState]
  BY <1>1 DEF AgentTypes, ListingState
<1>3. AgentTypes'
  <2>1. \A d \in Agents!Listing : reading'[d].dirs \in Nat /\ reading'[d].rows \in Seq(LocalRow)
    BY <1>1 DEF AgentTypes
  <2> QED BY <1>1, <1>2, <2>1 DEF AgentTypes
<1>4. NowSeen'
  BY <1>1 DEF NowSeen
<1>5. ASSUME NEW d \in Agents!Listing PROVE ListingShown(d)'
  <2>1. CASE d = c
    BY <2>1
  <2>2. CASE d # c
    <3>1. Agents!Locals(d)' = Agents!Locals(d)
      BY <2>2 DEF Agents!Locals
    <3>2. \A row, t : Shown(row, t)' <=> Shown(row, t)
      BY DEF Shown
    <3>3. /\ at'[d] = at[d] /\ reading'[d] = reading[d] /\ found'[d] = found[d]
          /\ LookedUp(d)' = LookedUp(d) /\ clock' = clock
      BY <1>2, <2>2
    <3>4. ListingShown(d)
      BY <1>1
    <3> QED BY <3>1, <3>2, <3>3, <3>4 DEF ListingShown
  <2> QED BY <2>1, <2>2
<1> QED BY <1>3, <1>4, <1>5 DEF AgentInv

\* The facts about a listing that the steps of its local part share.
LEMMA AtLocal ==
  ASSUME AgentInv, EnginesAssumption, NEW c \in Agents!Listing, at[c] \in {"local", "scan"}
  PROVE  /\ "rows" \in Agents!Listing /\ \A d \in Tree : d \in Agents!Listing
         /\ c = "rows" \/ (c \in Tree /\ c # "rows")
         /\ c = "rows" => Entry = Agents!NoEntry /\ at["rows"] # "listed"
                         /\ \A d \in Tree : at[d] = "new"
         /\ c # "rows" => at["rows"] = "listed"
         /\ Agents!Locals(c) = {} /\ c \in DOMAIN found
         /\ clock \in Nat /\ Ttl \in Nat \ {0} /\ MaxFill \in Nat
         /\ \A d \in Agents!Listing : LookedUp(d) \in Nat /\ LookedUp(d) <= clock
         /\ Entry.rows \in Seq(LocalRow) /\ Entry.stamp \in Int
<1>1. "rows" \in Agents!Listing /\ (\A d \in Tree : d \in Agents!Listing)
      /\ (c = "rows" \/ (c \in Tree /\ c # "rows"))
  BY DEF Agents!Listing
<1>2. RowsFirst /\ ListingShown(c) /\ AgentTypes
  BY DEF AgentInv
<1>3. /\ c = "rows" => /\ Entry = Agents!NoEntry /\ at["rows"] # "listed"
                       /\ \A d \in Tree : at[d] = "new"
      /\ c # "rows" => at["rows"] = "listed"
  BY <1>1, <1>2 DEF RowsFirst
<1>4. Agents!Locals(c) = {}
  BY <1>2 DEF ListingShown
<1>5. \A d \in Agents!Listing : LookedUp(d) \in Nat /\ LookedUp(d) <= clock
  BY <1>2 DEF AgentTypes, LookedUp, Agents!Sources
<1> QED BY <1>1, <1>2, <1>3, <1>4, <1>5 DEF AgentTypes, EnginesAssumption

\* An answer of rows that were there at t says what was there at t.
LEMMA AnswersShown ==
  ASSUME NEW c, NEW rows \in Seq(LocalRow), NEW s \in Int, NEW t \in Int, s <= t,
         Answers(c, rows)', \A i \in DOMAIN rows : Shown(rows[i], t)'
  PROVE  (\A n \in Agents!Locals(c) : Shown(found[c][n].row, s))'
<1> SUFFICES ASSUME NEW n \in Agents!Locals(c)' PROVE Shown(found[c][n].row, s)'
  OBVIOUS
<1>1. n \in Names(rows) /\ found'[c][n] = [row |-> rows[LastOf(rows, n)], via |-> "local"]
  BY DEF Answers
<1>2. LastOf(rows, n) \in DOMAIN rows
  BY <1>1, LastIsThere
<1>3. PICK row : row = rows[LastOf(rows, n)]
  OBVIOUS
<1>4. Shown(row, t)' /\ found'[c][n].row = row
  BY <1>1, <1>2, <1>3
<1>5. Shown(row, s)'
  BY <1>4 DEF Shown
<1> QED BY <1>4, <1>5

LEMMA LookUpStep ==
  ASSUME AgentInv, EnginesAssumption, NEW c \in Agents!Listing, Agents!LookUpLocal(c)
  PROVE  AgentInv'
<1> DEFINE hit == Agents!GetCache("local")
<1>1. /\ at[c] = "local" /\ asked' = [asked EXCEPT ![c]["local"] = clock]
      /\ UNCHANGED <<clock, agentsDir, agentEdits, reading, was>>
  BY DEF Agents!LookUpLocal, Agents!Ask, Agents!files
<1>2. /\ AgentTypes /\ EntryShown /\ RowsFirst /\ ListingShown(c)
      /\ reading[c] = Agents!NoScanYet
  BY <1>1 DEF AgentInv, ListingShown
<1>3. /\ asked' \in [Agents!Listing -> [Agents!Sources -> Nat]] /\ LookedUp(c)' = clock
      /\ \A d \in Agents!Listing : d # c => LookedUp(d)' = LookedUp(d)
  BY <1>1, <1>2 DEF AgentTypes, LookedUp, Agents!Sources
<1>4. /\ "rows" \in Agents!Listing /\ \A d \in Tree : d \in Agents!Listing
      /\ c = "rows" \/ (c \in Tree /\ c # "rows")
      /\ c = "rows" => Entry = Agents!NoEntry /\ at["rows"] # "listed"
                      /\ \A d \in Tree : at[d] = "new"
      /\ c # "rows" => at["rows"] = "listed"
      /\ Agents!Locals(c) = {} /\ c \in DOMAIN found
      /\ clock \in Nat /\ Ttl \in Nat \ {0} /\ MaxFill \in Nat
      /\ \A d \in Agents!Listing : LookedUp(d) \in Nat /\ LookedUp(d) <= clock
      /\ Entry.rows \in Seq(LocalRow) /\ Entry.stamp \in Int
  BY <1>1, AtLocal
<1>5. /\ reading'[c].dirs \in Nat /\ reading'[c].rows \in Seq(LocalRow)
      /\ DOMAIN reading' = Agents!Listing
      /\ \A d \in Agents!Listing : LookedUp(d)' <= clock
      /\ \A d \in Agents!Listing : reading'[d] = reading[d]
  <2>1. reading' = reading /\ \A d \in Agents!Listing : LookedUp(d)' <= clock
    BY <1>1, <1>3, <1>4
  <2> QED BY <1>2, <2>1 DEF AgentTypes
<1>6. \A row, t : Shown(row, t)' <=> Shown(row, t)
  BY <1>1 DEF Shown
\* The entry is an answer.
<1>7. CASE hit # Agents!NoEntry
  <2>1. /\ hit = Entry /\ Entry # Agents!NoEntry /\ clock - Entry.stamp < Ttl
        /\ Agents!EndListing(c, Entry.rows) /\ UNCHANGED cached
    BY <1>7 DEF Agents!LookUpLocal, Agents!GetCache, Entry
  <2>2. c # "rows" /\ c \in Tree /\ at["rows"] = "listed"
    BY <1>4, <2>1
  <2>3. Entry' = Entry /\ DOMAIN cached' = Agents!Sources /\ EntryShown'
    BY <1>2, <1>6, <2>1 DEF AgentTypes, EntryShown, Entry
  <2>4. PICK rows \in Seq(LocalRow) : rows = Entry.rows
    BY <1>4
  <2>5. CASE at' = [at EXCEPT ![c] = "failed"] /\ UNCHANGED found
    <3>1. Agents!Locals(c)' = Agents!Locals(c) /\ at'[c] = "failed"
      BY <1>2, <2>5 DEF Agents!Locals, AgentTypes
    <3>2. ListingShown(c)'
      BY <1>1, <1>2, <1>4, <3>1 DEF ListingShown
    <3>3. RowsFirst'
      <4>1. at'["rows"] = at["rows"] /\ \A d \in Tree : d # c => at'[d] = at[d]
        BY <1>2, <1>4, <2>2, <2>5 DEF AgentTypes
      <4>2. Agents!Locals("rows")' = Agents!Locals("rows")
            /\ \A d \in Tree : Agents!Locals(d)' = Agents!Locals(d)
        BY <2>5 DEF Agents!Locals
      <4> QED BY <1>1, <1>2, <1>3, <1>4, <2>2, <2>3, <2>5, <3>1, <4>1, <4>2 DEF RowsFirst, Answers
    <3> QED BY <1>1, <1>2, <1>3, <1>4, <1>5, <2>3, <2>5, <3>2, <3>3, LocalStep DEF AgentTypes
  <2>6. CASE /\ at' = [at EXCEPT ![c] = "listed"]
             /\ found' = [found EXCEPT ![c] = Agents!Put(@, rows, "local")]
    <3>1. at'[c] = "listed" /\ Answers(c, rows)'
      BY <1>2, <1>4, <2>6, MergeAnswers DEF AgentTypes
    <3>2. DOMAIN found' = Agents!Listing /\ \A d \in Agents!Listing : d # c => found'[d] = found[d]
      BY <1>2, <2>6 DEF AgentTypes
    <3>3. \A i \in DOMAIN rows : Shown(rows[i], Entry.stamp - MaxFill)'
      BY <1>2, <1>6, <2>3, <2>4 DEF EntryShown
    <3>4. ListingShown(c)'
      <4>1. (\A n \in Agents!Locals(c) :
              Shown(found[c][n].row, LookedUp(c) - Ttl - MaxFill + 1))'
        <5> DEFINE s == clock - Ttl - MaxFill + 1
                   t == Entry.stamp - MaxFill
        <5>1. s \in Int /\ t \in Int /\ s <= t
          BY <1>4, <2>1
        <5>2. PICK u \in Int, v \in Int : u = s /\ v = t /\ u <= v
          BY <5>1
        <5>3. \A i \in DOMAIN rows : Shown(rows[i], v)'
          BY <1>6, <3>3, <2>3, <5>2
        <5>4. (\A n \in Agents!Locals(c) : Shown(found[c][n].row, u))'
          BY <3>1, <5>2, <5>3, AnswersShown
        <5> QED BY <1>1, <1>3, <5>2, <5>4
      <4> QED BY <1>1, <1>2, <3>1, <4>1 DEF ListingShown
    <3>5. RowsFirst'
      <4>1. at'["rows"] = "listed" /\ \A d \in Tree : d # c => at'[d] = at[d]
        BY <1>2, <1>4, <2>2, <2>6 DEF AgentTypes
      <4>2. Agents!Locals("rows")' = Agents!Locals("rows") /\ found'["rows"] = found["rows"]
            /\ \A d \in Tree : d # c => Agents!Locals(d)' = Agents!Locals(d)
        BY <1>4, <2>2, <3>2 DEF Agents!Locals
      <4>3. Agents!Locals("rows") # {} /\ clock - LookedUp("rows") < Ttl =>
              /\ Agents!Locals(c)' = Agents!Locals("rows")
              /\ \A n \in Agents!Locals(c)' : found'[c][n] = found["rows"][n]
        BY <1>2, <2>2, <2>4, <3>1 DEF RowsFirst, Answers
      <4>4. /\ LookedUp("rows")' = LookedUp("rows") /\ LookedUp(c)' = clock /\ clock' = clock
            /\ \A d \in Tree : d # c => LookedUp(d)' = LookedUp(d) /\ found'[d] = found[d]
        BY <1>1, <1>3, <1>4, <2>2, <3>2
      <4>5. Entry' = Entry /\ (Answers("rows", Entry.rows)' <=> Answers("rows", Entry.rows))
        BY <2>3, <4>2 DEF Answers
      <4>6. ASSUME Agents!Locals("rows") # {}
            PROVE  /\ clock - LookedUp("rows") < Ttl =>
                        Entry.stamp >= LookedUp("rows") /\ Answers("rows", Entry.rows)
                   /\ \A d \in Tree : d # c =>
                        /\ at[d] = "scan" => LookedUp(d) - LookedUp("rows") >= Ttl
                        /\ at[d] = "listed" /\ LookedUp(d) - LookedUp("rows") < Ttl =>
                             /\ Agents!Locals(d) = Agents!Locals("rows")
                             /\ \A n \in Agents!Locals(d) : found[d][n] = found["rows"][n]
        BY <1>2, <2>2, <4>6 DEF RowsFirst
      <4>7. ASSUME Agents!Locals("rows") # {}, NEW d \in Tree, d # c
            PROVE  /\ at'[d] = "scan" => LookedUp(d)' - LookedUp("rows")' >= Ttl
                   /\ at'[d] = "listed" /\ LookedUp(d)' - LookedUp("rows")' < Ttl =>
                        /\ Agents!Locals(d)' = Agents!Locals("rows")'
                        /\ \A n \in Agents!Locals(d)' : found'[d][n] = found'["rows"][n]
        BY <4>1, <4>2, <4>4, <4>6, <4>7
      <4> QED BY <2>2, <3>1, <4>1, <4>2, <4>3, <4>4, <4>5, <4>6, <4>7 DEF RowsFirst
    <3> QED BY <1>1, <1>2, <1>3, <1>4, <1>5, <2>3, <2>6, <3>2, <3>4, <3>5, LocalStep
  <2> QED BY <2>1, <2>4, <2>5, <2>6 DEF Agents!EndListing, Agents!Move, Agents!Merge
\* There is none, or it is too old: the directories are scanned.
<1>8. CASE hit = Agents!NoEntry
  <2>1. /\ cached' = [cached EXCEPT !["local"] = Agents!NoEntry]
        /\ at' = [at EXCEPT ![c] = "scan"] /\ UNCHANGED found
        /\ Entry = Agents!NoEntry \/ ~(clock - Entry.stamp < Ttl)
    BY <1>8 DEF Agents!LookUpLocal, Agents!GetCache, Agents!Move, Entry
  <2>2. Entry' = Agents!NoEntry /\ DOMAIN cached' = Agents!Sources
    BY <1>2, <2>1 DEF AgentTypes, Entry, Agents!Sources
  <2>3. Entry'.rows = <<>> /\ Entry'.stamp = -1 /\ DOMAIN Entry'.rows = {}
    BY <2>2 DEF Agents!NoEntry
  <2>4. EntryShown'
    BY <2>3 DEF EntryShown
  <2>5. at'[c] = "scan" /\ \A d \in Agents!Listing : d # c => at'[d] = at[d]
    BY <1>2, <2>1 DEF AgentTypes
  <2>6. \A d \in Agents!Listing : Agents!Locals(d)' = Agents!Locals(d)
    BY <2>1 DEF Agents!Locals
  <2>7. ListingShown(c)'
    <3>1. DOMAIN reading'[c].rows = {}
      BY <1>1, <1>2 DEF Agents!NoScanYet
    <3>2. clock' - LookedUp(c)' <= MaxFill
      BY <1>1, <1>3, <1>4
    <3> QED BY <1>4, <2>5, <2>6, <3>1, <3>2 DEF ListingShown
  <2>8. RowsFirst'
    <3>1. CASE c = "rows"
      BY <1>1, <1>4, <2>2, <2>5, <3>1 DEF RowsFirst
    <3>2. CASE c # "rows"
      <4>1. /\ c \in Tree /\ at["rows"] = "listed" /\ at'["rows"] = "listed"
            /\ LookedUp("rows")' = LookedUp("rows") /\ clock' = clock
        BY <1>1, <1>3, <1>4, <2>5, <3>2
      <4>2. Agents!Locals("rows") # {} => clock - LookedUp("rows") >= Ttl
        <5> SUFFICES ASSUME Agents!Locals("rows") # {}, clock - LookedUp("rows") < Ttl PROVE FALSE
          BY <1>4, <4>1
        <5>1. Entry.stamp >= LookedUp("rows")
          BY <1>2, <4>1 DEF RowsFirst
        <5>2. Entry # Agents!NoEntry
          BY <1>4, <5>1 DEF Agents!NoEntry
        <5> QED BY <1>4, <2>1, <5>1, <5>2
      <4> QED BY <1>2, <1>3, <1>4, <2>1, <2>5, <2>6, <4>1, <4>2 DEF RowsFirst
    <3> QED BY <3>1, <3>2
  <2>9. Entry'.rows \in Seq(LocalRow) /\ Entry'.stamp \in Int
    BY <2>3
  <2> QED BY <1>1, <1>2, <1>3, <1>5, <2>1, <2>2, <2>4, <2>7, <2>8, <2>9, LocalStep DEF AgentTypes
<1> QED BY <1>7, <1>8

LEMMA ScanStep ==
  ASSUME AgentInv, EnginesAssumption, NEW c \in Agents!Listing, Agents!ScanDir(c)
  PROVE  AgentInv'
<1>1. /\ at[c] = "scan" /\ UNCHANGED <<clock, agentsDir, agentEdits, cached, at, found, asked, was>>
      /\ reading[c].dirs < Cardinality(Dir)
      /\ reading' = [reading EXCEPT ![c] =
                       [dirs |-> @.dirs + 1, rows |-> @.rows \o agentsDir[@.dirs + 1]]]
  <2>1. \A S : Agents!Cardinality(S) = Cardinality(S)
    BY Zenon DEF Agents!Cardinality, Cardinality
  <2> QED BY <2>1 DEF Agents!ScanDir, Agents!files
<1>2. AgentTypes /\ NowSeen /\ EntryShown /\ RowsFirst /\ ListingShown(c)
  BY DEF AgentInv
<1> DEFINE d == reading[c].dirs + 1
           rows == reading[c].rows
<1>3. rows \in Seq(LocalRow) /\ d \in Nat /\ d \in Dir
  BY <1>1, <1>2 DEF AgentTypes, EnginesAssumption
<1>4. agentsDir[d] = <<>> \/ \E r \in LocalRow : agentsDir[d] = <<r>>
  BY <1>2, <1>3 DEF AgentTypes
<1>5. /\ reading'[c] = [dirs |-> d, rows |-> rows \o agentsDir[d]]
      /\ DOMAIN reading' = Agents!Listing
      /\ \A e \in Agents!Listing : e # c => reading'[e] = reading[e]
  BY <1>1, <1>2 DEF AgentTypes
<1>6. \A row, t : Shown(row, t)' <=> Shown(row, t)
  BY <1>1 DEF Shown
<1>7. clock \in Nat /\ LookedUp(c) \in Nat /\ LookedUp(c) <= clock
  BY <1>1, AtLocal
<1>8. /\ rows \o agentsDir[d] \in Seq(LocalRow)
      /\ \A i \in DOMAIN (rows \o agentsDir[d]) : Shown((rows \o agentsDir[d])[i], LookedUp(c))
  <2>1. \A i \in DOMAIN rows : Shown(rows[i], LookedUp(c))
    BY <1>1, <1>2 DEF ListingShown
  <2>2. CASE agentsDir[d] = <<>>
    <3> HIDE DEF rows
    <3>1. rows \o agentsDir[d] = rows
      BY <1>3, <2>2, ConcatEmptySeq
    <3> QED BY <1>3, <2>1, <3>1
  <2>3. CASE \E r \in LocalRow : agentsDir[d] = <<r>>
    <3>1. PICK r \in LocalRow : agentsDir[d] = <<r>>
      BY <2>3
    <3>2. Shown(r, LookedUp(c))
      <4>1. PICK w \in was : w = <<clock, d, <<r>>>>
        BY <1>2, <1>3, <3>1 DEF NowSeen
      <4>2. w[1] = clock /\ w[3] = <<r>>
        BY <4>1
      <4> QED BY <1>7, <4>2 DEF Shown
    <3> HIDE DEF rows
    <3>3. /\ rows \o <<r>> \in Seq(LocalRow)
          /\ \A i \in DOMAIN (rows \o <<r>>) : (i \in DOMAIN rows /\ (rows \o <<r>>)[i] = rows[i])
                                              \/ (rows \o <<r>>)[i] = r
      BY <1>3
    <3> QED BY <2>1, <3>1, <3>2, <3>3
  <2> QED BY <1>4, <2>2, <2>3
<1> HIDE DEF rows
<1>9. /\ Entry' = Entry /\ \A e \in Agents!Listing : LookedUp(e)' = LookedUp(e)
      /\ \A e \in Agents!Listing : Agents!Locals(e)' = Agents!Locals(e)
  BY <1>1 DEF Entry, LookedUp, Agents!Locals
<1>10. AgentTypes'
  <2>1. \A e \in Agents!Listing : reading'[e].dirs \in Nat /\ reading'[e].rows \in Seq(LocalRow)
    <3>1. reading'[c].dirs \in Nat /\ reading'[c].rows \in Seq(LocalRow)
      BY <1>3, <1>5, <1>8
    <3>2. \A e \in Agents!Listing : reading[e].dirs \in Nat /\ reading[e].rows \in Seq(LocalRow)
      BY <1>2 DEF AgentTypes
    <3> QED BY <1>5, <3>1, <3>2
  <2> QED BY <1>1, <1>2, <1>5, <1>9, <2>1 DEF AgentTypes
<1>11. NowSeen' /\ EntryShown'
  BY <1>1, <1>2, <1>6, <1>9 DEF NowSeen, EntryShown
<1>12. ASSUME NEW e \in Agents!Listing PROVE ListingShown(e)'
  <2>1. ListingShown(e) /\ at' = at /\ found' = found /\ clock' = clock
    BY <1>1 DEF AgentInv
  <2>2. CASE e = c
    <3>1. \A i \in DOMAIN reading'[c].rows : Shown(reading'[c].rows[i], LookedUp(c))
      BY <1>5, <1>8
    <3>2. (\A i \in DOMAIN reading[c].rows : Shown(reading[c].rows[i], LookedUp(c)))'
      BY <1>6, <1>9, <3>1
    <3> QED BY <1>1, <1>6, <1>9, <2>1, <2>2, <3>2 DEF ListingShown
  <2>3. CASE e # c
    BY <1>5, <1>6, <1>9, <2>1, <2>3 DEF ListingShown
  <2> QED BY <2>2, <2>3
<1>13. RowsFirst'
  <2>1. "rows" \in Agents!Listing /\ \A e \in Tree : e \in Agents!Listing
    BY DEF Agents!Listing
  <2> QED BY <1>1, <1>2, <1>9, <2>1 DEF RowsFirst, Answers
<1> QED BY <1>10, <1>11, <1>12, <1>13 DEF AgentInv

\* The scan is over, or there was nothing to scan.
LEMMA EndScan ==
  ASSUME AgentInv, EnginesAssumption, NEW c \in Agents!Listing,
         Agents!StoreScan(c) \/ Agents!NoScan(c)
  PROVE  AgentInv'
<1>1. /\ at[c] = "scan" /\ UNCHANGED <<clock, agentsDir, agentEdits, asked, was>>
      /\ reading' = [reading EXCEPT ![c] = Agents!NoScanYet]
  BY DEF Agents!StoreScan, Agents!NoScan, Agents!files
<1>2. AgentTypes /\ EntryShown /\ RowsFirst /\ ListingShown(c)
  BY DEF AgentInv
<1>3. /\ "rows" \in Agents!Listing /\ \A d \in Tree : d \in Agents!Listing
      /\ c = "rows" \/ (c \in Tree /\ c # "rows")
      /\ c = "rows" => Entry = Agents!NoEntry /\ at["rows"] # "listed"
                      /\ \A d \in Tree : at[d] = "new"
      /\ c # "rows" => at["rows"] = "listed"
      /\ Agents!Locals(c) = {} /\ c \in DOMAIN found
      /\ clock \in Nat /\ Ttl \in Nat \ {0} /\ MaxFill \in Nat
      /\ \A d \in Agents!Listing : LookedUp(d) \in Nat /\ LookedUp(d) <= clock
      /\ Entry.rows \in Seq(LocalRow) /\ Entry.stamp \in Int
  BY <1>1, AtLocal
<1>4. /\ asked' \in [Agents!Listing -> [Agents!Sources -> Nat]]
      /\ \A d \in Agents!Listing : LookedUp(d)' = LookedUp(d)
  BY <1>1, <1>2 DEF AgentTypes, LookedUp
<1>5. /\ reading'[c] = Agents!NoScanYet /\ DOMAIN reading' = Agents!Listing
      /\ \A d \in Agents!Listing : d # c => reading'[d] = reading[d]
  BY <1>1, <1>2 DEF AgentTypes
<1>6. reading'[c].dirs \in Nat /\ reading'[c].rows \in Seq(LocalRow)
  BY <1>5 DEF Agents!NoScanYet
<1>7. \A row, t : Shown(row, t)' <=> Shown(row, t)
  BY <1>1 DEF Shown
<1>8. PICK rows \in Seq(LocalRow) : rows = reading[c].rows
  BY <1>2 DEF AgentTypes
<1>9. /\ clock - LookedUp(c) <= MaxFill
      /\ \A i \in DOMAIN rows : Shown(rows[i], LookedUp(c))
  BY <1>1, <1>2, <1>8 DEF ListingShown
\* What it must leave for the invariant to hold.
<1>10. ASSUME NEW to \in {"listed", "failed"}, at' = [at EXCEPT ![c] = to],
              DOMAIN found' = Agents!Listing,
              \A d \in Agents!Listing : d # c => found'[d] = found[d],
              DOMAIN cached' = Agents!Sources,
              Entry' = Entry \/ Entry' = [rows |-> rows, stamp |-> clock],
              Agents!Locals(c)' = {} \/ (to = "listed" /\ Answers(c, rows)'),
              c = "rows" /\ to = "listed" =>
                Agents!Locals(c)' = {} \/ Entry' = [rows |-> rows, stamp |-> clock]
       PROVE  AgentInv'
  <2>1. at'[c] = to /\ \A d \in Agents!Listing : d # c => at'[d] = at[d]
    BY <1>2, <1>10 DEF AgentTypes
  <2>2. Entry'.rows \in Seq(LocalRow) /\ Entry'.stamp \in Int
    BY <1>3, <1>8, <1>10
  <2>3. EntryShown'
    <3>1. CASE Entry' = Entry
      BY <1>2, <1>7, <3>1 DEF EntryShown
    <3>2. CASE Entry' = [rows |-> rows, stamp |-> clock]
      <4>1. PICK s \in Int, t \in Int : s = clock - MaxFill /\ t = LookedUp(c) /\ s <= t
        BY <1>3, <1>9
      <4>2. \A i \in DOMAIN rows : Shown(rows[i], s)
        <5> SUFFICES ASSUME NEW i \in DOMAIN rows PROVE Shown(rows[i], s)
          OBVIOUS
        <5>1. PICK row : row = rows[i]
          OBVIOUS
        <5>2. Shown(row, t)
          BY <1>9, <4>1, <5>1
        <5>3. Shown(row, s)
          BY <4>1, <5>2 DEF Shown
        <5> QED BY <5>1, <5>3
      <4>3. Entry'.rows = rows /\ Entry'.stamp - MaxFill = s
        BY <3>2, <4>1
      <4> QED BY <1>7, <4>2, <4>3 DEF EntryShown
    <3> QED BY <1>10, <3>1, <3>2
  <2>4. ListingShown(c)'
    <3>1. (\A n \in Agents!Locals(c) :
             Shown(found[c][n].row, LookedUp(c) - Ttl - MaxFill + 1))'
      <4>1. CASE Agents!Locals(c)' = {}
        BY <4>1
      <4>2. CASE Answers(c, rows)'
        <5>1. PICK s \in Int, t \in Int :
                s = LookedUp(c) - Ttl - MaxFill + 1 /\ t = LookedUp(c) /\ s <= t
          BY <1>3
        <5>2. \A i \in DOMAIN rows : Shown(rows[i], t)'
          BY <1>7, <1>9, <5>1
        <5>3. (\A n \in Agents!Locals(c) : Shown(found[c][n].row, s))'
          BY <4>2, <5>1, <5>2, AnswersShown
        <5> QED BY <1>4, <5>1, <5>3
      <4> QED BY <1>10, <4>1, <4>2
    <3> QED BY <1>5, <1>10, <2>1, <3>1 DEF ListingShown
  <2>5. RowsFirst'
    <3>1. CASE c = "rows"
      <4>1. at'["rows"] = to /\ \A d \in Tree : at'[d] = "new"
        BY <1>1, <1>3, <2>1, <3>1
      <4>2. LookedUp("rows")' = LookedUp("rows") /\ LookedUp("rows") <= clock
        BY <1>3, <1>4
      <4>3. to = "listed" /\ Agents!Locals("rows")' # {} =>
              /\ Answers("rows", rows)' /\ Entry' = [rows |-> rows, stamp |-> clock]
        BY <1>10, <3>1
      <4>4. to = "listed" /\ Agents!Locals("rows")' # {} =>
              Entry'.stamp >= LookedUp("rows")' /\ Answers("rows", Entry.rows)'
        BY <1>3, <4>2, <4>3 DEF Answers
      <4> QED BY <4>1, <4>4 DEF RowsFirst
    <3>2. CASE c # "rows"
      <4>1. /\ c \in Tree /\ at["rows"] = "listed" /\ at'["rows"] = "listed"
            /\ found'["rows"] = found["rows"] /\ Agents!Locals("rows")' = Agents!Locals("rows")
            /\ LookedUp("rows")' = LookedUp("rows") /\ clock' = clock
        BY <1>1, <1>3, <1>4, <1>10, <2>1, <3>2 DEF Agents!Locals
      <4>2. Agents!Locals("rows") # {} =>
              /\ LookedUp(c) - LookedUp("rows") >= Ttl
              /\ ~(clock - LookedUp("rows") < Ttl) /\ ~(LookedUp(c) - LookedUp("rows") < Ttl)
        <5>1. Agents!Locals("rows") # {} => LookedUp(c) - LookedUp("rows") >= Ttl
          BY <1>1, <1>2, <4>1 DEF RowsFirst
        <5> QED BY <1>3, <4>1, <5>1
      <4>3. \A d \in Tree : d # c =>
              /\ at'[d] = at[d] /\ found'[d] = found[d] /\ Agents!Locals(d)' = Agents!Locals(d)
              /\ LookedUp(d)' = LookedUp(d)
        <5>1. \A d \in Tree : d # c => at'[d] = at[d] /\ found'[d] = found[d]
          BY <1>3, <1>10, <2>1
        <5>2. \A d \in Tree : LookedUp(d)' = LookedUp(d)
          BY <1>3, <1>4
        <5> QED BY <5>1, <5>2 DEF Agents!Locals
      <4>4. ASSUME Agents!Locals("rows") # {}, NEW d \in Tree
            PROVE  /\ at'[d] = "scan" => LookedUp(d)' - LookedUp("rows")' >= Ttl
                   /\ at'[d] = "listed" /\ LookedUp(d)' - LookedUp("rows")' < Ttl =>
                        /\ Agents!Locals(d)' = Agents!Locals("rows")'
                        /\ \A n \in Agents!Locals(d)' : found'[d][n] = found'["rows"][n]
        <5>1. CASE d = c
          <6>1. at'[c] # "scan" /\ LookedUp(c)' = LookedUp(c)
            BY <1>4, <2>1
          <6> QED BY <4>1, <4>2, <4>4, <5>1, <6>1
        <5>2. CASE d # c
          BY <1>2, <4>1, <4>3, <4>4, <5>2 DEF RowsFirst
        <5> QED BY <5>1, <5>2
      <4>5. Agents!Locals("rows") # {} => ~(clock' - LookedUp("rows")' < Ttl)
        BY <4>1, <4>2
      <4>6. at'["rows"] \notin {"listed", "failed"} => Entry' = Agents!NoEntry
        BY <4>1
      <4>7. at'["rows"] # "listed" => \A d \in Tree : at'[d] = "new"
        BY <4>1
      <4>8. Agents!Locals("rows")' # {} => Agents!Locals("rows") # {}
        BY <4>1
      <4> QED BY ONLY <4>4, <4>5, <4>6, <4>7, <4>8 DEF RowsFirst
    <3> QED BY <3>1, <3>2
  <2>6. /\ to \in {"scan", "listed", "failed"}
        /\ \A d \in Agents!Listing : LookedUp(d)' <= clock
        /\ \A d \in Agents!Listing : d # c =>
             found'[d] = found[d] /\ reading'[d] = reading[d] /\ LookedUp(d)' = LookedUp(d)
    BY <1>3, <1>4, <1>5, <1>10
  <2> QED BY <1>1, <1>4, <1>5, <1>6, <1>10, <2>2, <2>3, <2>4, <2>5, <2>6, LocalStep
<1>11. CASE Agents!NoScan(c)
  <2>1. at' = [at EXCEPT ![c] = "listed"] /\ UNCHANGED <<cached, found>>
    BY <1>11 DEF Agents!NoScan, Agents!Move
  <2>2. Entry' = Entry /\ Agents!Locals(c)' = {}
    BY <1>3, <2>1 DEF Entry, Agents!Locals
  <2> QED BY <1>2, <1>10, <2>1, <2>2 DEF AgentTypes
<1>12. CASE Agents!StoreScan(c)
  <2>1. /\ cached' = [cached EXCEPT !["local"] = [rows |-> rows, stamp |-> clock]]
        /\ Agents!EndListing(c, rows)
    BY <1>8, <1>12 DEF Agents!StoreScan, Agents!SetCache
  <2>2. Entry' = [rows |-> rows, stamp |-> clock] /\ DOMAIN cached' = Agents!Sources
    BY <1>2, <2>1 DEF AgentTypes, Entry, Agents!Sources
  <2>3. CASE at' = [at EXCEPT ![c] = "failed"] /\ UNCHANGED found
    <3>1. Agents!Locals(c)' = {}
      BY <1>3, <2>3 DEF Agents!Locals
    <3> QED BY <1>2, <1>10, <2>2, <2>3, <3>1 DEF AgentTypes
  <2>4. CASE /\ at' = [at EXCEPT ![c] = "listed"]
             /\ found' = [found EXCEPT ![c] = Agents!Put(@, rows, "local")]
    <3>1. Answers(c, rows)'
      BY <1>3, <2>4, MergeAnswers
    <3> QED BY <1>2, <1>10, <2>2, <2>4, <3>1 DEF AgentTypes
  <2> QED BY <2>1, <2>3, <2>4 DEF Agents!EndListing, Agents!Move, Agents!Merge
<1> QED BY <1>11, <1>12

\* Nothing changes but the count of edits.
LEMMA AgentsStay ==
  ASSUME AgentInv, agentEdits' \in Nat,
         UNCHANGED <<clock, agentsDir, cached, at, found, reading, asked, was>>
  PROVE  AgentInv'
<1>1. /\ Entry' = Entry /\ \A c : LookedUp(c)' = LookedUp(c)
      /\ \A c : Agents!Locals(c)' = Agents!Locals(c)
      /\ \A row, t : Shown(row, t)' <=> Shown(row, t)
      /\ \A c, rows : Answers(c, rows)' <=> Answers(c, rows)
  BY DEF Entry, LookedUp, Agents!Locals, Shown, Answers
<1>2. AgentTypes' /\ NowSeen' /\ EntryShown'
  BY <1>1 DEF AgentInv, AgentTypes, NowSeen, EntryShown
<1>3. ASSUME NEW c \in Agents!Listing PROVE ListingShown(c)'
  BY <1>1 DEF AgentInv, ListingShown
<1>4. RowsFirst'
  BY <1>1 DEF AgentInv, RowsFirst, Answers
<1> QED BY <1>2, <1>3, <1>4 DEF AgentInv

LEMMA AgentStep ==
  ASSUME AgentInv, EnginesAssumption, Agents!AgentsNext
  PROVE  AgentInv'
<1>1. /\ AgentTypes /\ \A c \in Agents!Listing : ListingShown(c)
      /\ clock \in Nat /\ agentEdits \in Nat
      /\ agentsDir \in [Dir -> {<<>>} \union {<<r>> : r \in LocalRow}]
      /\ MaxFill \in Nat
      /\ \A c \in Agents!Listing : LookedUp(c) \in Nat /\ LookedUp(c) <= clock
  BY DEF AgentInv, AgentTypes, EnginesAssumption, LookedUp, Agents!Sources
<1>2. CASE Agents!EditFile
  <2>1. /\ agentEdits' = agentEdits + 1
        /\ UNCHANGED <<clock, cached, at, found, reading, asked>>
        /\ was' = was \union Agents!Present'
    BY <1>2 DEF Agents!EditFile, Agents!Seen
  <2>2. agentsDir' \in [Dir -> {<<>>} \union {<<r>> : r \in LocalRow}]
    <3>1. CASE UNCHANGED agentsDir
      BY <1>1, <3>1
    <3>2. ASSUME NEW d \in Dir, NEW n \in Agent \union {Agents!Nameless},
                 agentsDir' = [agentsDir EXCEPT ![d] = <<Agents!Row(n, "local", agentEdits')>>]
          PROVE  agentsDir' \in [Dir -> {<<>>} \union {<<r>> : r \in LocalRow}]
      <4>1. Agents!Row(n, "local", agentEdits') \in LocalRow
        BY <1>1, <2>1 DEF Agents!Row, LocalRow
      <4>2. PICK r \in LocalRow : r = Agents!Row(n, "local", agentEdits')
        BY <4>1
      <4> QED BY <1>1, <3>2, <4>2
    <3>3. ASSUME NEW d \in Dir, agentsDir' = [agentsDir EXCEPT ![d] = <<>>]
          PROVE  agentsDir' \in [Dir -> {<<>>} \union {<<r>> : r \in LocalRow}]
      BY <1>1, <3>3
    <3> QED BY <1>2, <3>1, <3>2, <3>3, Zenon DEF Agents!EditFile
  <2>3. \A c \in Agents!Listing : at[c] = "scan" => clock' - LookedUp(c) <= MaxFill
    BY <1>1, <2>1 DEF ListingShown
  <2> QED BY <1>1, <2>1, <2>2, <2>3, FilesStep
<1>3. CASE Agents!Tick
  <2>1. /\ clock' = clock + 1 /\ UNCHANGED <<agentsDir, agentEdits, cached, at, found, reading, asked>>
        /\ was' = was \union Agents!Present'
        /\ \A c \in Agents!Listing : at[c] = "scan" => clock - LookedUp(c) < MaxFill
    BY <1>3 DEF Agents!Tick, Agents!Seen, LookedUp
  <2>2. \A c \in Agents!Listing : at[c] = "scan" => clock' - LookedUp(c) <= MaxFill
    BY <1>1, <2>1
  <2>3. clock' \in Nat /\ clock <= clock'
    BY <1>1, <2>1
  <2> QED BY <1>1, <2>1, <2>2, <2>3, FilesStep
<1>4. ASSUME NEW c \in Agents!Listing, at[c] # "listed"
      PROVE  c \in DOMAIN found /\ Agents!Locals(c) = {}
  BY <1>1, <1>4 DEF AgentTypes, ListingShown
<1>5. ASSUME NEW c \in Agents!Listing, Agents!StartListing(c) PROVE AgentInv'
  <2>1. PICK to \in {"community", "saved"} : at' = [at EXCEPT ![c] = to]
    BY <1>5 DEF Agents!StartListing, Agents!Move
  <2>2. /\ at[c] = "new" /\ (c \in Tree => at["rows"] = "listed")
        /\ UNCHANGED <<agentsDir, agentEdits, clock, cached, found, reading, asked, was>>
    BY <1>5 DEF Agents!StartListing, Agents!files
  <2>3. /\ Entry' = Entry /\ Agents!Locals(c)' = {}
        /\ \A d \in Agents!Listing : LookedUp(d)' = LookedUp(d)
    BY <1>4, <2>2 DEF Entry, Agents!Locals, LookedUp
  <2> QED BY <1>1, <2>1, <2>2, <2>3, EarlyStep DEF AgentTypes
<1>6. ASSUME NEW c \in Agents!Listing, Agents!LookUpCatalog(c) PROVE AgentInv'
  <2>1. /\ at[c] = "community" /\ UNCHANGED <<agentsDir, agentEdits, clock, reading, was>>
    BY <1>6 DEF Agents!LookUpCatalog, Agents!files
  <2>2. ASSUME NEW rows, found' = [found EXCEPT ![c] = Agents!Put(@, rows, "community")],
               at' = [at EXCEPT ![c] = "saved"], UNCHANGED <<cached, asked>>
        PROVE  AgentInv'
    <3>1. Agents!Locals(c)' = {}
      BY <1>4, <2>1, <2>2, MergeOthers
    <3>2. Entry' = Entry /\ \A d \in Agents!Listing : LookedUp(d)' = LookedUp(d)
      BY <2>2 DEF Entry, LookedUp
    <3> QED BY <1>1, <2>1, <2>2, <3>1, <3>2, EarlyStep DEF AgentTypes
  <2>3. ASSUME cached' = [cached EXCEPT !["community"] = Agents!NoEntry],
               at' = [at EXCEPT ![c] = "readCatalog"],
               asked' = [asked EXCEPT ![c]["community"] = clock], UNCHANGED found
        PROVE  AgentInv'
    <3>1. Agents!Locals(c)' = {}
      BY <1>4, <2>1, <2>3 DEF Agents!Locals
    <3>2. Entry' = Entry /\ \A d \in Agents!Listing : LookedUp(d)' = LookedUp(d)
      BY <1>1, <2>3 DEF Entry, LookedUp, AgentTypes, Agents!Sources
    <3>3. asked' \in [Agents!Listing -> [Agents!Sources -> Nat]]
      BY <1>1, <2>3 DEF AgentTypes, Agents!Sources
    <3> QED BY <1>1, <2>1, <2>3, <3>1, <3>2, <3>3, EarlyStep DEF AgentTypes
  <2> QED BY <1>6, <2>2, <2>3 DEF Agents!LookUpCatalog, Agents!Merge, Agents!Move, Agents!Ask
<1>7. ASSUME NEW c \in Agents!Listing, Agents!ReadCatalog(c) PROVE AgentInv'
  <2>1. /\ at[c] = "readCatalog" /\ UNCHANGED <<agentsDir, agentEdits, clock, reading, was>>
        /\ at' = [at EXCEPT ![c] = "saved"]
        /\ found' = [found EXCEPT ![c] = Agents!Put(@, catalogFile.rows, "community")]
        /\ asked' = [asked EXCEPT ![c]["community"] = 0]
        /\ \/ cached' = [cached EXCEPT !["community"] = [rows |-> catalogFile.rows, stamp |-> clock]]
           \/ cached' = cached
    BY <1>7 DEF Agents!ReadCatalog, Agents!files, Agents!Move, Agents!Merge, Agents!SetCache
  <2>2. Agents!Locals(c)' = {}
    BY <1>4, <2>1, MergeOthers
  <2>3. Entry' = Entry /\ DOMAIN cached' = DOMAIN cached
    BY <1>1, <2>1 DEF Entry, AgentTypes, Agents!Sources
  <2>4. /\ asked' \in [Agents!Listing -> [Agents!Sources -> Nat]]
        /\ \A d \in Agents!Listing : LookedUp(d)' = LookedUp(d)
    BY <1>1, <2>1 DEF LookedUp, AgentTypes, Agents!Sources
  <2> QED BY <1>1, <2>1, <2>2, <2>3, <2>4, EarlyStep DEF AgentTypes
<1>8. ASSUME NEW c \in Agents!Listing, Agents!ReadSaved(c) PROVE AgentInv'
  <2>1. /\ at[c] = "saved" /\ UNCHANGED <<agentsDir, agentEdits, clock, cached, reading, asked, was>>
        /\ at' = [at EXCEPT ![c] = "local"]
        /\ \E rows : found' = [found EXCEPT ![c] = Agents!Put(@, rows, "saved")]
    BY <1>8 DEF Agents!ReadSaved, Agents!files, Agents!Move, Agents!Merge
  <2>2. Agents!Locals(c)' = {}
    BY <1>4, <2>1, MergeOthers
  <2>3. Entry' = Entry /\ \A d \in Agents!Listing : LookedUp(d)' = LookedUp(d)
    BY <2>1 DEF Entry, LookedUp
  <2> QED BY <1>1, <2>1, <2>2, <2>3, EarlyStep DEF AgentTypes
<1>9. ASSUME NEW c \in Agents!Listing, Agents!SaveRegistry(c) PROVE AgentInv'
  <2>1. /\ agentEdits' = agentEdits + 1
        /\ UNCHANGED <<clock, agentsDir, cached, at, found, reading, asked, was>>
    BY <1>9, Zenon DEF Agents!SaveRegistry
  <2>2. agentEdits' \in Nat
    BY <1>1, <2>1
  <2> QED BY <2>1, <2>2, AgentsStay
<1> QED
  BY <1>2, <1>3, <1>5, <1>6, <1>7, <1>8, <1>9, LookUpStep, ScanStep, EndScan DEF Agents!AgentsNext

\* However slow the scans and whoever edits the files: no answer takes a local
\* agent from a manifest gone for longer than the cache and a scan last, and
\* the trees of an answer are of the agents in its rows.
THEOREM CacheAlwaysTells == EnginesSpec => []CacheTells
<1> DEFINE Inv == part = "agents" => AgentInv
<1>1. EnginesInit => Inv
  <2> SUFFICES ASSUME EnginesInit PROVE AgentInv
    OBVIOUS
  <2>1. Agents!AgentsInit
    BY Zenon DEF EnginesInit
  <2>2. /\ Entry = Agents!NoEntry /\ Entry.rows = <<>> /\ Entry.stamp = -1
        /\ \A c \in Agents!Listing :
             LookedUp(c) = 0 /\ reading[c].dirs = 0 /\ reading[c].rows = <<>>
    BY <2>1 DEF Agents!AgentsInit, Entry, LookedUp, Agents!Sources, Agents!NoEntry, Agents!NoScanYet
  <2>3. AgentTypes
    <3>1. /\ clock = 0 /\ agentEdits = 0 /\ DOMAIN cached = Agents!Sources
          /\ agentsDir = [d \in Dir |-> <<>>] /\ at = [c \in Agents!Listing |-> "new"]
          /\ DOMAIN found = Agents!Listing /\ DOMAIN reading = Agents!Listing
          /\ asked = [c \in Agents!Listing |-> [s \in Agents!Sources |-> 0]]
      BY <2>1 DEF Agents!AgentsInit
    <3>2. <<>> \in Seq(LocalRow)
      OBVIOUS
    <3>3. /\ clock \in Nat /\ agentEdits \in Nat /\ at \in [Agents!Listing -> ListingState]
          /\ asked \in [Agents!Listing -> [Agents!Sources -> Nat]]
      BY <3>1 DEF ListingState
    <3>4. agentsDir \in [Dir -> {<<>>} \union {<<r>> : r \in LocalRow}]
      BY <3>1
    <3>5. Entry.rows \in Seq(LocalRow) /\ Entry.stamp \in Int
      BY <2>2
    <3>6. \A c \in Agents!Listing : reading[c].dirs \in Nat /\ reading[c].rows \in Seq(LocalRow)
      <4> SUFFICES ASSUME NEW c \in Agents!Listing
                   PROVE  reading[c].dirs \in Nat /\ reading[c].rows \in Seq(LocalRow)
        OBVIOUS
      <4>1. reading[c].dirs = 0 /\ reading[c].rows = <<>>
        BY <2>2
      <4> QED BY <4>1, <3>2
    <3>7. \A c \in Agents!Listing : LookedUp(c) <= clock
      BY <2>2, <3>1
    <3> QED BY <3>1, <3>3, <3>4, <3>5, <3>6, <3>7 DEF AgentTypes
  <2>4. NowSeen
    BY <2>1 DEF Agents!AgentsInit, NowSeen, Agents!Present
  <2>5. EntryShown
    BY <2>2 DEF EntryShown
  <2>6. \A c \in Agents!Listing : at[c] = "new" /\ Agents!Locals(c) = {}
    BY <2>1 DEF Agents!AgentsInit, Agents!Locals, Agents!InitBuiltinAgents
  <2>7. ASSUME NEW c \in Agents!Listing PROVE ListingShown(c)
    BY <2>1, <2>6 DEF ListingShown, Agents!AgentsInit
  <2>8. RowsFirst
    BY <2>2, <2>6 DEF RowsFirst, Agents!Listing
  <2> QED BY <2>3, <2>4, <2>5, <2>7, <2>8 DEF AgentInv
<1>2. Inv /\ [EnginesNext]_enginesVars => Inv'
  <2> SUFFICES ASSUME Inv, [EnginesNext]_enginesVars, part' = "agents"
               PROVE  AgentInv'
    OBVIOUS
  <2>1. part = "agents" /\ AgentInv
    BY PartStays
  <2>2. CASE Agents!AgentsNext
    BY <2>1, <2>2, EnginesAssumption, AgentStep
  <2>3. CASE UNCHANGED agents
    <3>1. agentEdits \in Nat
      BY <2>1 DEF AgentInv, AgentTypes
    <3> QED BY <2>1, <2>3, <3>1, AgentsStay DEF agents
  <2>4. Agents!AgentsNext \/ UNCHANGED agents
    BY <2>1 DEF EnginesNext, enginesVars, AgentsPart, RemotesPart, TreesPart, PromptsPart,
                ContextPart, GraphPart, VaultPart, DocsPart
  <2> QED BY <2>2, <2>3, <2>4
<1>3. Inv => CacheTells
  BY EnginesAssumption, AgentTells DEF CacheTells
<1> QED BY <1>1, <1>2, <1>3, PTL DEF EnginesSpec

-----------------------------------------------------------------------------
(* The context of a prompt.                                                *)

\* Of two candidates one is better, and better ones of better ones are better.
BetterOrders(scope) ==
  \A p, q \in Path :
    /\ ~Context!Better(p, p, scope)
    /\ p # q => Context!Better(p, q, scope) \/ Context!Better(q, p, scope)
    /\ \A r \in Path : Context!Better(p, q, scope) /\ Context!Better(q, r, scope)
                         => Context!Better(p, r, scope)

LEMMA BetterIsOrder ==
  ASSUME NEW scope
  PROVE  BetterOrders(scope)
<1>1. \A p \in Path : Context!Score(p, scope) \in Nat
  BY ContextAssumption, 55 \in Nat DEF Context!Score, Context!Boost
<1>2. \A p \in Path : Trait[p].name \in Nat
  BY ContextAssumption
<1>3. \A p, q \in Path : Trait[p].name = Trait[q].name => p = q
  BY ContextAssumption
<1> DEFINE S(p) == Context!Score(p, scope)
           B(p, q) == Context!Better(p, q, scope)
<1>4. \A p, q \in Path :
        B(p, q) <=> (S(p) > S(q)
                       \/ (S(p) = S(q) /\ Trait[p].name < Trait[q].name))
  BY DEF Context!Better
<1>5. ASSUME NEW p \in Path, NEW q \in Path PROVE p # q => B(p, q) \/ B(q, p)
  BY <1>1, <1>2, <1>3, <1>4
<1>6. ASSUME NEW p \in Path PROVE ~B(p, p)
  BY <1>1, <1>2, <1>4
<1>7. ASSUME NEW p \in Path, NEW q \in Path, NEW r \in Path, B(p, q), B(q, r) PROVE B(p, r)
  <2> DEFINE a == S(p)
             b == S(q)
             c == S(r)
             x == Trait[p].name
             y == Trait[q].name
             z == Trait[r].name
  <2>1. a \in Nat /\ b \in Nat /\ c \in Nat /\ x \in Nat /\ y \in Nat /\ z \in Nat
    BY <1>1, <1>2
  <2>2. (a > b \/ (a = b /\ x < y)) /\ (b > c \/ (b = c /\ y < z))
    BY <1>4, <1>7, Zenon
  <2>3. B(p, r) <=> (a > c \/ (a = c /\ x < z))
    BY <1>4, Zenon
  <2> HIDE DEF B, a, b, c, x, y, z
  <2>4. a > c \/ (a = c /\ x < z)
    BY <2>1, <2>2
  <2> QED BY <2>3, <2>4, Zenon
<1> QED BY <1>5, <1>6, <1>7 DEF BetterOrders

\* A list of elements of a set, of none more than once.
Once(list, S) ==
  /\ list \in Seq(S)
  /\ \A i, j \in 1..Len(list) : list[i] = list[j] => i = j

\* The ranks number the candidates, so the ranking has each of them once.
LEMMA RankedOnce ==
  ASSUME NEW paths \in SUBSET Path, NEW scope
  PROVE  Once(Context!Ranked(paths, scope), Path)
<1> DEFINE Above(p) == {q \in paths : Context!Better(q, p, scope)}
           f == [p \in paths |-> Cardinality(Above(p)) + 1]
<1>1. PICK m : m = Cardinality(paths)
  OBVIOUS
<1>2. IsFiniteSet(paths) /\ m \in Nat
  <2>1. IsFiniteSet(paths)
    BY ContextAssumption, FS_Subset
  <2> QED BY <1>1, <2>1, FS_CardinalityType
<1>3. BetterOrders(scope)
  BY BetterIsOrder
<1>4. \A p \in paths : IsFiniteSet(Above(p)) /\ Cardinality(Above(p)) \in Nat /\ f[p] \in 1..m
  <2> SUFFICES ASSUME NEW p \in paths
               PROVE  IsFiniteSet(Above(p)) /\ Cardinality(Above(p)) \in Nat /\ f[p] \in 1..m
    OBVIOUS
  <2>1. Above(p) \subseteq paths /\ p \notin Above(p)
    BY <1>3 DEF BetterOrders
  <2>2. IsFiniteSet(Above(p)) /\ Cardinality(Above(p)) <= m /\ Cardinality(Above(p)) # m
    BY <1>1, <1>2, <2>1, FS_Subset
  <2>3. Cardinality(Above(p)) \in Nat
    BY <2>2, FS_CardinalityType
  <2> QED BY <1>2, <2>2, <2>3
<1>5. ASSUME NEW p \in paths, NEW q \in paths, Context!Better(p, q, scope)
      PROVE  f[p] # f[q]
  <2>1. Above(p) \subseteq Above(q)
    BY <1>3, <1>5 DEF BetterOrders
  <2>2. p \in Above(q) /\ p \notin Above(p)
    BY <1>3, <1>5 DEF BetterOrders
  <2>3. Cardinality(Above(p)) # Cardinality(Above(q))
    BY <1>4, <2>1, <2>2, FS_Subset
  <2>4. Cardinality(Above(p)) \in Nat /\ Cardinality(Above(q)) \in Nat
    BY <1>4
  <2>5. \A x, y \in Nat : x # y => x + 1 # y + 1
    OBVIOUS
  <2>6. f[p] = Cardinality(Above(p)) + 1 /\ f[q] = Cardinality(Above(q)) + 1
    OBVIOUS
  <2> QED BY <2>3, <2>4, <2>5, <2>6
<1>6. \A j \in 1..m : \E p \in paths : f[p] = j
  <2>1. f \in [paths -> 1..m]
    BY <1>4
  <2>2. \A p, q \in paths : f[p] = f[q] => p = q
    BY <1>3, <1>5 DEF BetterOrders
  <2> HIDE DEF f
  <2>3. f \in Injection(paths, 1..m)
    BY <2>1, <2>2 DEF Injection, IsInjective
  <2>4. IsFiniteSet(1..m) /\ Cardinality(1..m) = m
    BY <1>2, FS_Interval
  <2>5. f \in Surjection(paths, 1..m)
    BY <1>1, <1>2, <2>3, <2>4, FS_Injection
  <2> QED BY <2>5 DEF Surjection
<1> DEFINE Nth(j) == CHOOSE p \in paths : Cardinality(Above(p)) = j - 1
<1>7. \A j \in 1..m : Nth(j) \in paths /\ Cardinality(Above(Nth(j))) = j - 1
  <2> SUFFICES ASSUME NEW j \in 1..m
               PROVE  \E p \in paths : Cardinality(Above(p)) = j - 1
    OBVIOUS
  <2>1. PICK p \in paths : f[p] = j
    BY <1>6
  <2>2. Cardinality(Above(p)) \in Nat /\ f[p] = Cardinality(Above(p)) + 1
    BY <1>4
  <2> QED BY <2>1, <2>2
<1>8. Context!Ranked(paths, scope) = [j \in 1..m |-> Nth(j)]
  <2>1. \A S : Context!Cardinality(S) = Cardinality(S)
    BY Zenon DEF Context!Cardinality, Cardinality
  <2> DEFINE CNth(j) == CHOOSE p \in paths : Context!Cardinality(Above(p)) = j - 1
  <2>2. \A j : Nth(j) = CNth(j)
    BY <2>1, Zenon
  <2>3. Context!Ranked(paths, scope) = [j \in 1..Context!Cardinality(paths) |-> CNth(j)]
    BY Zenon DEF Context!Ranked
  <2>4. Context!Cardinality(paths) = m
    BY <1>1, <2>1
  <2> HIDE DEF Nth, CNth
  <2> QED BY <2>2, <2>3, <2>4
<1>9. \A i, j \in 1..m : Nth(i) = Nth(j) => i = j
  <2> SUFFICES ASSUME NEW i \in 1..m, NEW j \in 1..m, Nth(i) = Nth(j) PROVE i = j
    OBVIOUS
  <2>1. i - 1 = j - 1
    BY <1>7
  <2> QED BY <2>1
<1> HIDE DEF Nth
<1>10. ASSUME NEW l, l = [j \in 1..m |-> Nth(j)] PROVE Once(l, Path)
  <2>1. \A j \in 1..m : Nth(j) \in Path
    BY <1>7
  <2>2. l \in Seq(Path) /\ Len(l) = m /\ \A j \in 1..m : l[j] = Nth(j)
    BY <1>2, <2>1, <1>10
  <2> QED BY <1>9, <2>2 DEF Once
<1> QED BY <1>8, <1>10, Zenon

Snippet == [path : Path, bytes : Nat]

\* A function that sums up the bytes of the first n of a list.
SumsUp(f, list, n) ==
  /\ f \in [0..n -> Nat]
  /\ f[0] = 0
  /\ \A i \in 1..n : f[i] = f[i - 1] + list[i].bytes

\* There is one for every n.
LEMMA SumThereIs ==
  ASSUME NEW list \in Seq(Snippet), NEW n \in 0..Len(list)
  PROVE  \E f : SumsUp(f, list, n)
<1> DEFINE Bad == {k \in 0..Len(list) : ~\E f : SumsUp(f, list, k)}
<1> SUFFICES ASSUME Bad # {} PROVE FALSE
  OBVIOUS
<1>1. PICK k \in Bad : \A y \in Bad : k <= y
  <2>1. Bad \in SUBSET Nat
    OBVIOUS
  <2> QED BY <2>1, HasLeast
<1>2. k # 0
  <2> SUFFICES ASSUME k = 0 PROVE FALSE
    OBVIOUS
  <2>1. SumsUp([i \in 0..0 |-> 0], list, 0)
    BY DEF SumsUp
  <2> QED BY <2>1
<1>3. k \in 1..Len(list) /\ k - 1 \in 0..Len(list) /\ k - 1 < k
  BY <1>2
<1>4. k - 1 \notin Bad
  BY <1>1, <1>3
<1>5. PICK f : SumsUp(f, list, k - 1)
  BY <1>3, <1>4
<1> DEFINE g == [i \in 0..k |-> IF i = k THEN f[k - 1] + list[k].bytes ELSE f[i]]
<1>6. list[k].bytes \in Nat
  <2>1. list[k] \in Snippet
    BY <1>3
  <2> QED BY <2>1 DEF Snippet
<1>7. f \in [0..k - 1 -> Nat] /\ f[0] = 0 /\ \A i \in 1..k - 1 : f[i] = f[i - 1] + list[i].bytes
  BY <1>5 DEF SumsUp
<1>8. g \in [0..k -> Nat] /\ g[0] = 0
  <2>1. f[k - 1] + list[k].bytes \in Nat
    BY <1>3, <1>6, <1>7
  <2>2. \A i \in 0..k : i # k => f[i] \in Nat
    BY <1>3, <1>7
  <2>3. 0 \in 0..k /\ 0 # k
    BY <1>3
  <2> QED BY <1>7, <2>1, <2>2, <2>3
<1>9. \A i \in 1..k : g[i] = g[i - 1] + list[i].bytes
  <2> SUFFICES ASSUME NEW i \in 1..k PROVE g[i] = g[i - 1] + list[i].bytes
    OBVIOUS
  <2>1. i \in 0..k /\ i - 1 \in 0..k /\ i - 1 # k
    BY <1>3
  <2>2. CASE i = k
    BY <1>3, <2>1, <2>2
  <2>3. CASE i # k
    <3>1. i \in 1..k - 1
      BY <1>3, <2>3
    <3> QED BY <1>7, <2>1, <2>3, <3>1
  <2> QED BY <2>2, <2>3
<1>10. SumsUp(g, list, k)
  BY <1>8, <1>9 DEF SumsUp
<1> QED BY <1>1, <1>10

\* Two of them agree as far as both go, if the lists do.
LEMMA SumsAgree ==
  ASSUME NEW l1 \in Seq(Snippet), NEW l2 \in Seq(Snippet), NEW n \in Nat, NEW m \in Nat, n <= m,
         n <= Len(l1), m <= Len(l2), \A i \in 1..n : l1[i] = l2[i],
         NEW f, SumsUp(f, l1, n), NEW g, SumsUp(g, l2, m)
  PROVE  f[n] = g[n]
<1> DEFINE Bad == {k \in 0..n : f[k] # g[k]}
<1>1. SUFFICES ASSUME Bad # {} PROVE FALSE
  OBVIOUS
<1>2. PICK k \in Bad : \A y \in Bad : k <= y
  <2>1. Bad \in SUBSET Nat
    OBVIOUS
  <2> QED BY <1>1, <2>1, HasLeast
<1>3. k # 0
  BY DEF SumsUp
<1>4. k \in 1..n /\ k \in 1..m /\ k - 1 \in 0..n /\ k - 1 < k
  BY <1>3
<1>5. f[k - 1] = g[k - 1]
  BY <1>2, <1>4
<1>6. f[k] = f[k - 1] + l1[k].bytes /\ g[k] = g[k - 1] + l2[k].bytes
  BY <1>4 DEF SumsUp
<1>7. f[k] = g[k]
  BY <1>4, <1>5, <1>6
<1> QED BY <1>7

\* The bytes of a list are what it sums up to.
LEMMA BytesSumUp ==
  ASSUME NEW list \in Seq(Snippet)
  PROVE  \E f : SumsUp(f, list, Len(list)) /\ Context!Bytes(list) = f[Len(list)]
<1> DEFINE Defines(f) ==
             f = [n \in 0..Len(list) |-> IF n = 0 THEN 0 ELSE f[n - 1] + list[n].bytes]
           upto == CHOOSE f : Defines(f)
<1>1. PICK g : SumsUp(g, list, Len(list))
  BY SumThereIs
<1>2. Defines(g)
  <2>1. g \in [0..Len(list) -> Nat] /\ g[0] = 0 /\ \A i \in 1..Len(list) : g[i] = g[i - 1] + list[i].bytes
    BY <1>1 DEF SumsUp
  <2> QED BY <2>1
<1>3. Defines(upto)
  BY <1>2, Zenon
<1>4. Context!Bytes(list) = upto[Len(list)]
  BY DEF Context!Bytes
<1> HIDE DEF upto
<1>5. \A i \in 0..Len(list) : upto[i] = IF i = 0 THEN 0 ELSE upto[i - 1] + list[i].bytes
  BY <1>3
<1> HIDE DEF upto, Defines
<1>6. upto[Len(list)] = g[Len(list)]
  <2> DEFINE Bad == {k \in 0..Len(list) : upto[k] # g[k]}
  <2>1. SUFFICES ASSUME Bad # {} PROVE FALSE
    OBVIOUS
  <2>2. PICK k \in Bad : \A y \in Bad : k <= y
    <3>1. Bad \in SUBSET Nat
      OBVIOUS
    <3> QED BY <2>1, <3>1, HasLeast
  <2>3. k # 0
    BY <1>1, <1>5 DEF SumsUp
  <2>4. k \in 1..Len(list) /\ k - 1 \in 0..Len(list) /\ k - 1 < k
    BY <2>3
  <2>5. upto[k - 1] = g[k - 1]
    BY <2>2, <2>4
  <2>6. upto[k] = upto[k - 1] + list[k].bytes /\ g[k] = g[k - 1] + list[k].bytes
    BY <1>1, <1>5, <2>3, <2>4 DEF SumsUp
  <2> QED BY <2>2, <2>5, <2>6
<1> QED BY <1>1, <1>4, <1>6

\* A snippet more is its bytes more.
LEMMA BytesAdd ==
  /\ Context!Bytes(<<>>) = 0
  /\ \A list \in Seq(Snippet) : Context!Bytes(list) \in Nat
  /\ \A list \in Seq(Snippet), s \in Snippet :
       Context!Bytes(Append(list, s)) = Context!Bytes(list) + s.bytes
<1>1. Context!Bytes(<<>>) = 0
  <2>1. <<>> \in Seq(Snippet) /\ Len(<<>>) = 0
    OBVIOUS
  <2>2. PICK f : SumsUp(f, <<>>, 0) /\ Context!Bytes(<<>>) = f[0]
    BY <2>1, BytesSumUp
  <2> QED BY <2>2 DEF SumsUp
<1>2. ASSUME NEW list \in Seq(Snippet) PROVE Context!Bytes(list) \in Nat
  <2>1. PICK f : SumsUp(f, list, Len(list)) /\ Context!Bytes(list) = f[Len(list)]
    BY BytesSumUp
  <2>2. f \in [0..Len(list) -> Nat] /\ Len(list) \in 0..Len(list)
    BY <2>1 DEF SumsUp
  <2> QED BY <2>1, <2>2
<1>3. ASSUME NEW list \in Seq(Snippet), NEW s \in Snippet
      PROVE  Context!Bytes(Append(list, s)) = Context!Bytes(list) + s.bytes
  <2>1. PICK f : SumsUp(f, list, Len(list)) /\ Context!Bytes(list) = f[Len(list)]
    BY BytesSumUp
  <2> DEFINE longer == Append(list, s)
             n == Len(list)
  <2>2. /\ longer \in Seq(Snippet) /\ Len(longer) = n + 1 /\ longer[n + 1] = s
        /\ \A i \in 1..n : list[i] = longer[i]
    OBVIOUS
  <2>3. n \in Nat
    OBVIOUS
  <2> HIDE DEF longer
  <2>4. PICK g : SumsUp(g, longer, n + 1) /\ Context!Bytes(longer) = g[n + 1]
    BY <2>2, BytesSumUp
  <2>5. f[n] = g[n]
    BY <2>1, <2>2, <2>3, <2>4, SumsAgree
  <2>6. g[n + 1] = g[n] + longer[n + 1].bytes
    <3>1. n + 1 \in 1..n + 1 /\ n + 1 - 1 = n
      BY <2>3
    <3>2. \A i \in 1..n + 1 : g[i] = g[i - 1] + longer[i].bytes
      BY <2>4 DEF SumsUp
    <3> QED BY <3>1, <3>2
  <2> QED BY <2>1, <2>2, <2>4, <2>5, <2>6 DEF longer
<1> QED BY <1>1, <1>2, <1>3

Bound == [snippets : Nat, perFile : Nat, total : Nat]
FileText == [size : Nat, hostile : BOOLEAN]

ContextTypes ==
  /\ stage \in {"new", "reading", "done"}
  /\ disk \in [Path -> FileText \union {Context!Gone}]
  /\ limits \in Bound
  /\ Once(ranked, Path)
  /\ queue \in Seq(Path)
  /\ snippets \in Seq(Snippet)
  /\ still \subseteq Path

\* A candidate may be shown: it is as it was listed, and not passed over.
Showable(p) == p \in still /\ ~Context!PassedOver(disk[p])

\* Of the first k candidates, all that may be shown are taken, and no other
\* is; the others are queued, unless the next one of them did not fit.
ReadUpTo(k) ==
  /\ \A i \in 1..Len(snippets) : \E j \in 1..k : snippets[i].path = ranked[j]
  /\ \A j \in 1..k : Showable(ranked[j]) =>
       \E i \in 1..Len(snippets) : snippets[i].path = ranked[j]
  /\ \/ /\ Len(queue) = Len(ranked) - k
        /\ \A i \in 1..Len(queue) : queue[i] = ranked[k + i]
     \/ /\ queue = <<>> /\ k < Len(ranked)
        /\ still = Path =>
             LET text == disk[ranked[k + 1]]
             IN  /\ ~Context!PassedOver(text)
                 /\ Context!Total + Context!Truncate(text.size) > limits.total

ContextInv ==
  /\ ContextTypes
  /\ stage = "new" => ranked = <<>> /\ queue = <<>> /\ snippets = <<>>
  /\ stage = "done" => queue = <<>> \/ Len(snippets) >= limits.snippets
  /\ Len(snippets) <= limits.snippets /\ Context!Total <= limits.total
  /\ \E k \in 0..Len(ranked) : ReadUpTo(k)

\* What is taken is what was read and may be shown, so the snippets are the best.
LEMMA ContextTells ==
  ASSUME ContextInv
  PROVE  Context!BestWithinBudget
<1>1. PICK k \in 0..Len(ranked) : ReadUpTo(k)
  BY DEF ContextInv
<1>2. /\ ranked \in Seq(Path)
      /\ \A i, j \in 1..Len(ranked) : ranked[i] = ranked[j] => i = j
  BY DEF ContextInv, ContextTypes, Once
<1>3. /\ DOMAIN ranked = 1..Len(ranked) /\ DOMAIN snippets = 1..Len(snippets)
      /\ Len(ranked) \in Nat /\ Len(snippets) \in Nat /\ k \in Nat /\ limits.snippets \in Nat
  <2>1. snippets \in Seq(Snippet) /\ limits \in Bound
    BY DEF ContextInv, ContextTypes
  <2> QED BY <1>2, <2>1 DEF Bound
<1>4. ASSUME NEW j \in 1..Len(ranked), ranked[j] \in Context!Taken PROVE j <= k
  <2>1. PICK i \in 1..Len(snippets) : snippets[i].path = ranked[j]
    BY <1>3, <1>4 DEF Context!Taken
  <2>2. PICK h \in 1..k : snippets[i].path = ranked[h]
    BY <1>1 DEF ReadUpTo
  <2>3. h \in 1..Len(ranked)
    BY <1>3
  <2>4. j = h
    BY <1>2, <2>1, <2>2, <2>3, Zenon
  <2> QED BY <1>3, <2>4
<1>5. ASSUME NEW j \in 1..Len(ranked), j <= k, Showable(ranked[j]) PROVE ranked[j] \in Context!Taken
  <2>1. j \in 1..k
    BY <1>3, <1>5
  <2>2. PICK i \in 1..Len(snippets) : snippets[i].path = ranked[j]
    BY <1>1, <1>5, <2>1 DEF ReadUpTo
  <2> QED BY <1>3, <2>2 DEF Context!Taken
<1>6. Len(snippets) <= limits.snippets /\ Context!Total <= limits.total
  BY DEF ContextInv
<1>7. ASSUME NEW i \in 1..Len(ranked), NEW j \in 1..Len(ranked), i < j, ranked[j] \in Context!Taken,
             ranked[i] \in still, ~Context!PassedOver(disk[ranked[i]])
      PROVE  ranked[i] \in Context!Taken
  <2>1. i <= k
    BY <1>3, <1>4, <1>7
  <2> QED BY <1>5, <1>7, <2>1 DEF Showable
<1>8. ASSUME stage = "done", still = Path, NEW i \in 1..Len(ranked),
             ~Context!PassedOver(disk[ranked[i]]), ranked[i] \notin Context!Taken,
             \A j \in 1..i - 1 : Context!PassedOver(disk[ranked[j]]) \/ ranked[j] \in Context!Taken
      PROVE  \/ Len(snippets) = limits.snippets
             \/ Context!Total + Context!Truncate(disk[ranked[i]].size) > limits.total
  <2>1. ranked[i] \in still
    BY <1>2, <1>8
  <2>2. k < i
    BY <1>3, <1>5, <1>8, <2>1 DEF Showable
  <2>3. CASE queue = <<>> /\ Len(queue) = Len(ranked) - k
    <3>1. Len(queue) = 0
      BY <2>3
    <3> QED BY <1>3, <2>2, <2>3, <3>1
  <2>4. CASE Len(snippets) >= limits.snippets
    BY <1>3, <1>6, <2>4
  <2> DEFINE text == disk[ranked[k + 1]]
  <2>5. CASE /\ ~Context!PassedOver(text)
             /\ Context!Total + Context!Truncate(text.size) > limits.total
    <3>1. CASE i = k + 1
      BY <2>5, <3>1
    <3>2. CASE i # k + 1
      <4>1. k + 1 \in 1..i - 1 /\ k + 1 \in 1..Len(ranked) /\ ~(k + 1 <= k)
        BY <1>3, <2>2, <3>2
      <4>2. ranked[k + 1] \notin Context!Taken
        BY <1>4, <4>1
      <4> QED BY <1>8, <2>5, <4>1, <4>2
    <3> QED BY <3>1, <3>2
  <2>6. queue = <<>> \/ Len(snippets) >= limits.snippets
    BY <1>8 DEF ContextInv
  <2> QED BY <1>1, <1>8, <2>3, <2>4, <2>5, <2>6 DEF ReadUpTo
<1> QED BY <1>3, <1>6, <1>7, <1>8, Zenon DEF Context!BestWithinBudget

\* What a file may be cut to is a number of bytes.
LEMMA CutIs ==
  ASSUME limits \in Bound, NEW size \in Nat
  PROVE  Context!Truncate(size) \in Nat
<1>1. Suffix \in Nat /\ limits.perFile \in Nat
  BY ContextAssumption DEF Bound
<1> QED BY <1>1 DEF Context!Truncate

\* The next candidate is the one after those read.
LEMMA ReadNextStep ==
  ASSUME ContextInv, Context!ReadNext
  PROVE  ContextInv'
<1>1. /\ stage = "reading" /\ queue # <<>> /\ Len(snippets) < limits.snippets
      /\ UNCHANGED <<disk, stage, limits, ranked, still>>
  BY DEF Context!ReadNext
<1> DEFINE p == Head(queue)
           bytes == Context!Truncate(disk[p].size)
           fits == Context!Total + bytes <= limits.total
<1>2. /\ snippets' = IF Context!PassedOver(disk[p]) \/ ~fits THEN snippets
                      ELSE Append(snippets, [path |-> p, bytes |-> bytes])
      /\ queue' = IF Context!PassedOver(disk[p]) \/ fits THEN Tail(queue) ELSE <<>>
  BY DEF Context!ReadNext
<1>3. ContextTypes /\ Len(snippets) <= limits.snippets /\ Context!Total <= limits.total
  BY DEF ContextInv
<1>4. PICK k \in 0..Len(ranked) : ReadUpTo(k)
  BY DEF ContextInv
<1>5. /\ queue \in Seq(Path) /\ snippets \in Seq(Snippet) /\ ranked \in Seq(Path)
      /\ limits.snippets \in Nat /\ limits.total \in Nat
  BY <1>3 DEF ContextTypes, Once, Bound
<1>6. /\ Len(queue) = Len(ranked) - k /\ Len(queue) \in Nat \ {0} /\ k + 1 \in 1..Len(ranked)
      /\ \A i \in 1..Len(queue) : queue[i] = ranked[k + i]
  <2>1. Len(queue) \in Nat \ {0}
    BY <1>1, <1>5
  <2>2. Len(queue) = Len(ranked) - k /\ \A i \in 1..Len(queue) : queue[i] = ranked[k + i]
    BY <1>1, <1>4 DEF ReadUpTo
  <2> QED BY <1>5, <2>1, <2>2
<1>7. p = ranked[k + 1] /\ p \in Path
  <2>1. 1 \in 1..Len(queue) /\ p = queue[1]
    BY <1>5, <1>6
  <2> QED BY <1>5, <1>6, <2>1
<1> HIDE DEF p
<1>8. ASSUME ~Context!PassedOver(disk[p]) PROVE bytes \in Nat
  <2>1. disk[p] \in FileText
    BY <1>3, <1>7, <1>8 DEF ContextTypes, Context!PassedOver
  <2>2. disk[p].size \in Nat
    BY <2>1 DEF FileText
  <2> QED BY <1>3, <2>2, CutIs DEF ContextTypes
<1>9. /\ UNCHANGED <<limits, ranked, disk, still>>
      /\ \A q : Showable(q)' <=> Showable(q)
      /\ \A text : Context!PassedOver(text)' <=> Context!PassedOver(text)
      /\ \A size : Context!Truncate(size)' = Context!Truncate(size)
  BY <1>1 DEF Showable, Context!PassedOver, Context!Truncate
<1>10. /\ Len(Tail(queue)) = Len(ranked) - (k + 1) /\ Tail(queue) \in Seq(Path)
       /\ \A i \in 1..Len(Tail(queue)) : Tail(queue)[i] = ranked[k + 1 + i]
  <2>1. /\ Tail(queue) \in Seq(Path) /\ Len(Tail(queue)) = Len(queue) - 1
        /\ \A i \in 1..Len(queue) - 1 : Tail(queue)[i] = queue[i + 1]
    BY <1>1, <1>5
  <2>2. \A i \in 1..Len(queue) - 1 : i + 1 \in 1..Len(queue) /\ k + (i + 1) = k + 1 + i
    BY <1>6
  <2> QED BY <1>5, <1>6, <2>1, <2>2
<1>11. ContextInv' <=> (/\ ContextTypes'
                        /\ Len(snippets') <= limits.snippets /\ Context!Total' <= limits.total
                        /\ \E j \in 0..Len(ranked) : ReadUpTo(j)')
  BY <1>1 DEF ContextInv
<1>12. ContextTypes' <=> snippets' \in Seq(Snippet) /\ queue' \in Seq(Path)
  BY <1>1, <1>3 DEF ContextTypes, Once
<1>13. CASE Context!PassedOver(disk[p])
  <2>1. snippets' = snippets /\ queue' = Tail(queue) /\ Context!Total' = Context!Total
    BY <1>2, <1>13 DEF Context!Total
  <2>2. \A j \in 1..k + 1 : j \in 1..k \/ ranked[j] = p
    BY <1>7
  <2>3. \A j \in 1..k + 1 : Showable(ranked[j]) =>
          \E i \in 1..Len(snippets) : snippets[i].path = ranked[j]
    BY <1>4, <1>13, <2>2 DEF ReadUpTo, Showable
  <2>4. \A i \in 1..Len(snippets) : \E j \in 1..k + 1 : snippets[i].path = ranked[j]
    <3>1. \A j \in 1..k : j \in 1..k + 1
      OBVIOUS
    <3> QED BY <1>4, <3>1 DEF ReadUpTo
  <2>5. ReadUpTo(k + 1)'
    BY <1>9, <1>10, <2>1, <2>3, <2>4 DEF ReadUpTo
  <2> QED BY <1>3, <1>5, <1>6, <1>9, <1>10, <1>11, <1>12, <2>1, <2>5
<1>14. CASE ~Context!PassedOver(disk[p]) /\ fits
  <2> DEFINE s == [path |-> p, bytes |-> bytes]
  <2>1. s \in Snippet /\ s.path = p /\ s.bytes = bytes
    BY <1>7, <1>8, <1>14 DEF Snippet
  <2>2. snippets' = Append(snippets, s) /\ queue' = Tail(queue)
    BY <1>2, <1>14
  <2> HIDE DEF s
  <2>3. Context!Total' = Context!Total + bytes
    BY <1>5, <2>1, <2>2, BytesAdd DEF Context!Total
  <2>4. /\ snippets' \in Seq(Snippet) /\ Len(snippets') = Len(snippets) + 1
        /\ \A i \in 1..Len(snippets) : snippets'[i] = snippets[i]
        /\ snippets'[Len(snippets) + 1] = s /\ Len(snippets) \in Nat
    BY <1>5, <2>1, <2>2
  <2>5. \A i \in 1..Len(snippets') : \E j \in 1..k + 1 : snippets'[i].path = ranked[j]
    <3> SUFFICES ASSUME NEW i \in 1..Len(snippets')
                 PROVE  \E j \in 1..k + 1 : snippets'[i].path = ranked[j]
      OBVIOUS
    <3>1. CASE i \in 1..Len(snippets)
      <4>1. PICK j \in 1..k : snippets[i].path = ranked[j]
        BY <1>4, <3>1 DEF ReadUpTo
      <4>2. j \in 1..k + 1
        OBVIOUS
      <4> QED BY <2>4, <3>1, <4>1, <4>2
    <3>2. CASE i = Len(snippets) + 1
      BY <1>7, <2>1, <2>4, <3>2
    <3> QED BY <2>4, <3>1, <3>2
  <2>6. \A j \in 1..k + 1 : Showable(ranked[j]) =>
          \E i \in 1..Len(snippets') : snippets'[i].path = ranked[j]
    <3> SUFFICES ASSUME NEW j \in 1..k + 1, Showable(ranked[j])
                 PROVE  \E i \in 1..Len(snippets') : snippets'[i].path = ranked[j]
      OBVIOUS
    <3>1. CASE j \in 1..k
      <4>1. PICK i \in 1..Len(snippets) : snippets[i].path = ranked[j]
        BY <1>4, <3>1 DEF ReadUpTo
      <4>2. i \in 1..Len(snippets')
        BY <2>4
      <4> QED BY <2>4, <4>1, <4>2
    <3>2. CASE j = k + 1
      <4>1. Len(snippets) + 1 \in 1..Len(snippets')
        BY <2>4
      <4> QED BY <1>7, <2>1, <2>4, <3>2, <4>1
    <3> QED BY <3>1, <3>2
  <2>7. ReadUpTo(k + 1)'
    BY <1>9, <1>10, <2>2, <2>5, <2>6 DEF ReadUpTo
  <2>8. Len(snippets') <= limits.snippets /\ Context!Total' <= limits.total
    BY <1>1, <1>5, <1>14, <2>3, <2>4
  <2> QED BY <1>6, <1>10, <1>11, <1>12, <2>2, <2>4, <2>7, <2>8
<1>15. CASE ~Context!PassedOver(disk[p]) /\ ~fits
  <2>1. snippets' = snippets /\ queue' = <<>> /\ Context!Total' = Context!Total
    BY <1>2, <1>15 DEF Context!Total
  <2>2. Context!Total + bytes > limits.total
    <3>1. Context!Total \in Nat
      BY <1>5, BytesAdd DEF Context!Total
    <3> HIDE DEF bytes
    <3> QED BY <1>5, <1>8, <1>15, <3>1
  <2>3. k < Len(ranked)
    BY <1>6
  <2>4. ReadUpTo(k)'
    BY <1>4, <1>7, <1>9, <1>15, <2>1, <2>2, <2>3 DEF ReadUpTo
  <2> QED BY <1>3, <1>5, <1>9, <1>11, <1>12, <2>1, <2>4
<1> QED BY <1>13, <1>14, <1>15

\* A file that changes is none that may be shown for sure any more.
LEMMA ChangeStep ==
  ASSUME ContextInv, Context!ChangeFile
  PROVE  ContextInv'
<1>1. PICK p \in Path, t \in Texts \union {Context!Gone} :
        disk' = [disk EXCEPT ![p] = t] /\ still' = still \ {p}
  BY DEF Context!ChangeFile
<1>2. stage \in {"new", "reading"} /\ UNCHANGED <<stage, limits, queue, ranked, snippets>>
  BY DEF Context!ChangeFile
<1>3. ContextTypes
  BY DEF ContextInv
<1>4. t \in FileText \union {Context!Gone}
  BY ContextAssumption DEF FileText
<1>5. disk' \in [Path -> FileText \union {Context!Gone}] /\ still' \subseteq Path /\ still' # Path
  BY <1>1, <1>3, <1>4 DEF ContextTypes
<1>6. ContextTypes'
  BY <1>2, <1>3, <1>5 DEF ContextTypes, Once
<1>7. \A text : Context!PassedOver(text)' <=> Context!PassedOver(text)
  BY DEF Context!PassedOver
<1>8. ASSUME NEW q, Showable(q)' PROVE Showable(q)
  <2>1. q \in still /\ q # p /\ q \in Path
    BY <1>1, <1>3, <1>8 DEF Showable, ContextTypes
  <2>2. disk'[q] = disk[q]
    BY <1>1, <1>3, <2>1 DEF ContextTypes
  <2> QED BY <1>7, <1>8, <2>1, <2>2 DEF Showable
<1>9. PICK k \in 0..Len(ranked) : ReadUpTo(k)
  BY DEF ContextInv
<1>10. ReadUpTo(k)'
  BY <1>2, <1>5, <1>8, <1>9 DEF ReadUpTo
<1>11. Context!Total' = Context!Total
  BY <1>2 DEF Context!Total
<1> QED BY <1>2, <1>6, <1>9, <1>10, <1>11 DEF ContextInv

\* The listing starts with nothing read.
LEMMA GatherStep ==
  ASSUME ContextInv, NEW scope \in Context!Scopes, NEW budget \in {"tight", "standard", "wide"},
         NEW denySecrets \in BOOLEAN, Context!Gather(scope, budget, denySecrets)
  PROVE  ContextInv'
<1>1. /\ stage = "new" /\ ranked = <<>> /\ queue = <<>> /\ snippets = <<>> /\ ContextTypes
      /\ UNCHANGED <<disk, snippets>>
  BY DEF ContextInv, Context!Gather
<1>2. CASE stage' = "done" /\ UNCHANGED <<limits, queue, ranked, still>>
  <2>1. ContextTypes'
    BY <1>1, <1>2 DEF ContextTypes, Once
  <2>2. \A text : Context!PassedOver(text)' <=> Context!PassedOver(text)
    BY DEF Context!PassedOver
  <2>3. \A q : Showable(q)' <=> Showable(q)
    BY <1>1, <1>2, <2>2 DEF Showable
  <2>4. Context!Total' = Context!Total
    BY <1>1 DEF Context!Total
  <2>5. PICK k \in 0..Len(ranked) : ReadUpTo(k)
    BY DEF ContextInv
  <2>6. k = 0 /\ k \in 0..Len(ranked') /\ ~(k < Len(ranked))
    BY <1>1, <1>2
  <2>7. ReadUpTo(k)'
    BY <1>1, <1>2, <2>3, <2>5, <2>6 DEF ReadUpTo
  <2>8. Len(snippets) <= limits.snippets /\ Context!Total <= limits.total
    BY DEF ContextInv
  <2> QED BY <1>1, <1>2, <2>1, <2>4, <2>6, <2>7, <2>8 DEF ContextInv
<1>3. CASE /\ ranked' = Context!Ranked(Context!Candidates(scope, denySecrets), scope)
           /\ queue' = ranked' /\ limits' = Limits[budget] /\ stage' = "reading" /\ still' = Path
  <2>1. Once(ranked', Path)
    <3>1. Context!Candidates(scope, denySecrets) \subseteq Path
      BY DEF Context!Candidates, Context!Listed
    <3> QED BY <1>3, <3>1, RankedOnce
  <2>2. limits' \in Bound
    BY <1>3, ContextAssumption DEF Bound
  <2>3. ranked' \in Seq(Path) /\ Len(ranked') \in Nat
    BY <2>1 DEF Once
  <2>4. ContextTypes'
    BY <1>1, <1>3, <2>1, <2>2, <2>3 DEF ContextTypes
  <2>5. Context!Total' = 0
    BY <1>1, BytesAdd DEF Context!Total
  <2>6. Len(snippets') = 0 /\ 0 \in 0..Len(ranked')
    BY <1>1, <2>3
  <2>7. Len(snippets') <= limits'.snippets /\ Context!Total' <= limits'.total
    <3>1. limits'.snippets \in Nat /\ limits'.total \in Nat
      BY <2>2 DEF Bound
    <3> QED BY <2>5, <2>6, <3>1
  <2>8. ReadUpTo(0)'
    <3>1. 1..0 = {}
      OBVIOUS
    <3>2. Len(queue') = Len(ranked') - 0 /\ \A i \in 1..Len(queue') : queue'[i] = ranked'[0 + i]
      BY <1>3, <2>3
    <3> QED BY <2>6, <3>1, <3>2 DEF ReadUpTo
  <2> QED BY <1>3, <2>4, <2>6, <2>7, <2>8 DEF ContextInv
<1> QED BY <1>2, <1>3 DEF Context!Gather

\* Nothing changes but the stage.
LEMMA EndGatherStep ==
  ASSUME ContextInv, Context!EndGather \/ UNCHANGED context
  PROVE  ContextInv'
<1>1. UNCHANGED <<disk, limits, queue, ranked, snippets, still>>
  BY Zenon DEF Context!EndGather, context
<1>2. \/ stage' = stage
      \/ stage' = "done" /\ stage = "reading" /\ (queue = <<>> \/ Len(snippets) >= limits.snippets)
  BY DEF Context!EndGather, context
<1>3. \A text : Context!PassedOver(text)' <=> Context!PassedOver(text)
  BY DEF Context!PassedOver
<1>4. \A size : Context!Truncate(size)' = Context!Truncate(size)
  BY <1>1 DEF Context!Truncate
<1>5. \A q : Showable(q)' <=> Showable(q)
  BY <1>1, <1>3 DEF Showable
<1>6. Context!Total' = Context!Total
  BY <1>1 DEF Context!Total
<1>7. PICK k \in 0..Len(ranked) : ReadUpTo(k)
  BY DEF ContextInv
<1>8. ReadUpTo(k)'
  BY <1>1, <1>3, <1>4, <1>5, <1>6, <1>7 DEF ReadUpTo
<1>9. ContextTypes'
  BY <1>1, <1>2 DEF ContextInv, ContextTypes, Once
<1> QED BY <1>1, <1>2, <1>6, <1>7, <1>8, <1>9 DEF ContextInv

\* Whatever the files, the budget and the edits: the snippets of a prompt are
\* within their budget, and the best that may be shown.
THEOREM SnippetsAreBest == EnginesSpec => []BestWithinBudget
<1> DEFINE Inv == part = "context" => ContextInv
<1>1. EnginesInit => Inv
  <2> SUFFICES ASSUME EnginesInit PROVE ContextInv
    OBVIOUS
  <2>1. /\ disk = [p \in Path |-> [size |-> 1, hostile |-> FALSE]]
        /\ stage = "new" /\ limits = [snippets |-> 0, perFile |-> 0, total |-> 0]
        /\ queue = <<>> /\ ranked = <<>> /\ snippets = <<>> /\ still = Path
    BY Zenon DEF EnginesInit, Context!ContextInit
  <2>2. /\ disk \in [Path -> FileText \union {Context!Gone}]
        /\ limits \in Bound /\ limits.snippets = 0 /\ limits.total = 0
    BY <2>1 DEF FileText, Bound
  <2>3. Once(ranked, Path) /\ queue \in Seq(Path) /\ snippets \in Seq(Snippet)
    BY <2>1 DEF Once
  <2>4. ContextTypes
    BY <2>1, <2>2, <2>3 DEF ContextTypes
  <2>5. Context!Total = 0
    BY <2>1, BytesAdd DEF Context!Total
  <2>6. Len(snippets) = 0 /\ Len(queue) = 0 /\ Len(ranked) = 0
    BY <2>1
  <2>7. ReadUpTo(0)
    BY <2>6 DEF ReadUpTo
  <2> QED BY <2>1, <2>2, <2>4, <2>5, <2>6, <2>7 DEF ContextInv
<1>2. Inv /\ [EnginesNext]_enginesVars => Inv'
  <2> SUFFICES ASSUME Inv, [EnginesNext]_enginesVars, part' = "context"
               PROVE  ContextInv'
    OBVIOUS
  <2>1. part = "context" /\ ContextInv
    BY PartStays
  <2>2. CASE Context!ContextNext
    <3>1. ASSUME NEW scope \in Context!Scopes, NEW intent \in Context!Intents,
                 NEW risk \in {"low", "high"}, NEW cost \in {"low", "any"},
                 NEW denySecrets \in BOOLEAN,
                 Context!Gather(scope, Context!ResolveContextBudget(intent, risk, cost), denySecrets)
          PROVE  ContextInv'
      <4>1. Context!ResolveContextBudget(intent, risk, cost) \in {"tight", "standard", "wide"}
        BY DEF Context!ResolveContextBudget
      <4> QED BY <2>1, <3>1, <4>1, GatherStep
    <3>2. CASE Context!ChangeFile
      BY <2>1, <3>2, ChangeStep
    <3>3. CASE Context!ReadNext
      BY <2>1, <3>3, ReadNextStep
    <3>4. CASE Context!EndGather
      BY <2>1, <3>4, EndGatherStep
    <3> QED BY <2>2, <3>1, <3>2, <3>3, <3>4, Zenon DEF Context!ContextNext
  <2>3. CASE UNCHANGED context
    BY <2>1, <2>3, EndGatherStep
  <2>4. Context!ContextNext \/ UNCHANGED context
    BY <2>1 DEF EnginesNext, enginesVars, AgentsPart, RemotesPart, TreesPart, PromptsPart,
                ContextPart, GraphPart, VaultPart, DocsPart
  <2> QED BY <2>2, <2>3, <2>4
<1>3. Inv => BestWithinBudget
  BY ContextTells DEF BestWithinBudget
<1> QED BY <1>1, <1>2, <1>3, PTL DEF EnginesSpec

-----------------------------------------------------------------------------
(* The knowledge graph.                                                    *)

NodeKind ==
  {"project", "doc", "module", "package", "engine", "policy", "workspace", "infra", "api", "database"}
FileName == STRING \union {"root", "docs/adr", "registry", "packages", "engines", "apps"}
NodeId == NodeKind \X (FileName \union (FileName \X STRING))
NodeText == [id : NodeId, label : FileName, deps : {d \in SUBSET STRING : IsFiniteSet(d)}]
EdgeText == NodeId \X NodeId \X {"documents", "contains", "depends_on"}
GraphText ==
  [nodes : Seq(NodeText), edges : Seq(EdgeText),
   signals : SUBSET {"capped:adrFiles", "capped:policyFiles"}]

IsNode(g, id) == \E i \in 1..Len(g.nodes) : g.nodes[i].id = id
IsEnd(g, id) == \E k \in 1..Len(g.edges) : g.edges[k][2] = id

\* A graph that hangs together before its lists are cut.
Whole(g) ==
  /\ IsNode(g, Vault!Project)
  /\ \A i, j \in 1..Len(g.nodes) : g.nodes[i].id = g.nodes[j].id => i = j
  /\ \A i, j \in 1..Len(g.edges) : g.edges[i] = g.edges[j] => i = j
  /\ \A i \in 1..Len(g.edges) :
       g.edges[i][1] # g.edges[i][2] /\ IsNode(g, g.edges[i][1]) /\ IsNode(g, g.edges[i][2])
  /\ \A i \in 1..Len(g.nodes) : g.nodes[i].id # Vault!Project => IsEnd(g, g.nodes[i].id)

GraphsWhole == {g \in GraphText : Whole(g)}

LEMMA HasIsNode ==
  ASSUME NEW g \in GraphText
  PROVE  \A id : Vault!Has(g, id) <=> IsNode(g, id)
<1>1. DOMAIN g.nodes = 1..Len(g.nodes)
  BY DEF GraphText
<1> QED BY <1>1 DEF Vault!Has, IsNode

\* What an edge more leaves as it was.
EdgeTells(more, g, from, to) ==
  /\ more \in GraphsWhole /\ more.nodes = g.nodes
  /\ from # to => IsEnd(more, to)
  /\ \A id : IsEnd(g, id) => IsEnd(more, id)

\* An edge between two nodes that are there does no harm.
LEMMA EdgeAdded ==
  ASSUME NEW g \in GraphsWhole, NEW from \in NodeId, NEW to \in NodeId,
         NEW kind \in {"documents", "contains", "depends_on"},
         IsNode(g, from), IsNode(g, to)
  PROVE  EdgeTells(Vault!AddEdge(g, from, to, kind), g, from, to)
<1> DEFINE edge == <<from, to, kind>>
           more == Vault!AddEdge(g, from, to, kind)
<1>1. g \in GraphText /\ Whole(g)
  BY DEF GraphsWhole
<1>2. g.nodes \in Seq(NodeText) /\ g.edges \in Seq(EdgeText) /\ edge \in EdgeText
  BY <1>1 DEF GraphText, EdgeText
<1>3. \A l \in Seq(EdgeText) : Vault!ToSet(l) = {l[i] : i \in 1..Len(l)}
  BY DEF Vault!ToSet
<1>4. CASE from = to
  <2>1. more = g
    BY <1>4 DEF Vault!AddEdge
  <2> QED BY <1>4, <2>1 DEF EdgeTells
<1>5. CASE from # to /\ edge \in Vault!ToSet(g.edges)
  <2>1. more = g
    BY <1>5 DEF Vault!AddEdge
  <2>2. PICK i \in 1..Len(g.edges) : g.edges[i] = edge
    BY <1>2, <1>3, <1>5
  <2>3. g.edges[i][2] = to
    BY <2>2
  <2>4. IsEnd(g, to)
    BY <2>3 DEF IsEnd
  <2> QED BY <2>1, <2>4 DEF EdgeTells
<1>6. CASE from # to /\ edge \notin Vault!ToSet(g.edges)
  <2>1. more = [g EXCEPT !.edges = Append(@, edge)]
    BY <1>6 DEF Vault!AddEdge
  <2>2. more \in GraphText /\ more.nodes = g.nodes /\ more.edges = Append(g.edges, edge)
    <3>1. Append(g.edges, edge) \in Seq(EdgeText)
      BY <1>2
    <3> HIDE DEF edge
    <3> QED BY <1>1, <2>1, <3>1 DEF GraphText
  <2> HIDE DEF more
  <2> DEFINE n == Len(g.edges)
  <2>3. /\ Len(more.edges) = n + 1 /\ n \in Nat /\ more.edges[n + 1] = edge
        /\ \A i \in 1..n : more.edges[i] = g.edges[i]
    BY <1>2, <2>2
  <2>4. \A i \in 1..n : g.edges[i] # edge
    BY <1>2, <1>3, <1>6
  <2>5. \A i \in 1..n + 1 : i \in 1..n \/ i = n + 1
    BY <2>3
  <2>6. edge[1] = from /\ edge[2] = to
    OBVIOUS
  <2> HIDE DEF edge, n
  <2>7. \A id : IsNode(more, id) <=> IsNode(g, id)
    BY <2>2 DEF IsNode
  <2>8. \A i, j \in 1..n + 1 : more.edges[i] = more.edges[j] => i = j
    BY <1>1, <2>3, <2>4, <2>5 DEF Whole, n
  <2>9. \A i \in 1..n + 1 :
          /\ more.edges[i][1] # more.edges[i][2]
          /\ IsNode(g, more.edges[i][1]) /\ IsNode(g, more.edges[i][2])
    BY <1>1, <1>6, <2>3, <2>5, <2>6 DEF Whole, n
  <2>10. \A id : IsEnd(g, id) => IsEnd(more, id)
    <3>1. \A i \in 1..n : i \in 1..n + 1
      BY <2>3
    <3> QED BY <2>3, <3>1 DEF IsEnd, n
  <2>11. IsEnd(more, to)
    <3>1. n + 1 \in 1..n + 1
      BY <2>3
    <3> QED BY <2>3, <2>6, <3>1 DEF IsEnd
  <2>12. Whole(more)
    <3>1. IsNode(more, Vault!Project)
      BY <1>1, <2>7 DEF Whole
    <3>2. \A i, j \in 1..Len(more.nodes) : more.nodes[i].id = more.nodes[j].id => i = j
      BY <1>1, <2>2 DEF Whole
    <3>3. \A i \in 1..Len(more.nodes) :
            more.nodes[i].id # Vault!Project => IsEnd(more, more.nodes[i].id)
      BY <1>1, <2>2, <2>10 DEF Whole
    <3> QED BY <2>3, <2>7, <2>8, <2>9, <3>1, <3>2, <3>3 DEF Whole
  <2>13. more \in GraphsWhole
    BY <2>2, <2>12 DEF GraphsWhole
  <2>14. EdgeTells(more, g, from, to)
    BY ONLY <2>2, <2>10, <2>11, <2>13 DEF EdgeTells
  <2> QED BY <2>14 DEF more
<1> QED BY <1>4, <1>5, <1>6

\* What linking a node leaves as it was.
LinkTells(more, g, id) ==
  /\ more \in GraphsWhole /\ IsNode(more, id)
  /\ \A other : IsNode(g, other) => IsNode(more, other)

\* Linking a node to one that is there does no harm.
LEMMA NodeLinked ==
  ASSUME NEW g \in GraphsWhole, NEW node \in NodeText, NEW from \in NodeId,
         NEW kind \in {"documents", "contains", "depends_on"},
         IsNode(g, from), node.id # from
  PROVE  LinkTells(Vault!Link(g, from, node, kind), g, node.id)
<1> DEFINE grown == Vault!AddNode(g, node)
           edge == <<from, node.id, kind>>
           more == Vault!Link(g, from, node, kind)
<1>1. g \in GraphText /\ Whole(g)
  BY DEF GraphsWhole
<1>2. g.nodes \in Seq(NodeText) /\ g.edges \in Seq(EdgeText) /\ node.id \in NodeId
  BY <1>1 DEF GraphText, NodeText
<1>3. CASE IsNode(g, node.id)
  <2>1. more = Vault!AddEdge(g, from, node.id, kind)
    BY <1>1, <1>3, HasIsNode DEF Vault!Link, Vault!AddNode
  <2>2. EdgeTells(more, g, from, node.id)
    BY <1>2, <1>3, <2>1, EdgeAdded
  <2> HIDE DEF more
  <2>3. \A id : IsNode(g, id) => IsNode(more, id)
    BY <2>2 DEF EdgeTells, IsNode
  <2>4. LinkTells(more, g, node.id)
    BY <1>3, <2>2, <2>3 DEF EdgeTells, LinkTells
  <2> QED BY <2>4 DEF more
<1>4. CASE ~IsNode(g, node.id)
  <2>1. grown = [g EXCEPT !.nodes = Append(@, node)]
    BY <1>1, <1>4, HasIsNode DEF Vault!AddNode
  <2>2. edge \notin Vault!ToSet(g.edges)
    <3>1. \A l \in Seq(EdgeText) : Vault!ToSet(l) = {l[i] : i \in 1..Len(l)}
      BY DEF Vault!ToSet
    <3>2. SUFFICES ASSUME NEW i \in 1..Len(g.edges), g.edges[i] = edge PROVE FALSE
      BY <1>2, <3>1
    <3>3. g.edges[i][2] = node.id
      BY <3>2
    <3> HIDE DEF edge
    <3> QED BY <1>1, <1>4, <3>3 DEF Whole
  <2>3. grown.edges = g.edges
    BY <1>1, <2>1 DEF GraphText
  <2>4. more = [g EXCEPT !.nodes = Append(@, node), !.edges = Append(@, edge)]
    <3>1. more = [grown EXCEPT !.edges = Append(@, edge)]
      BY <2>2, <2>3 DEF Vault!Link, Vault!AddEdge
    <3> HIDE DEF edge, more
    <3> QED BY <1>1, <2>1, <3>1 DEF GraphText
  <2>5. edge \in EdgeText
    BY <1>2 DEF EdgeText
  <2>6. edge[1] = from /\ edge[2] = node.id
    OBVIOUS
  <2> HIDE DEF more, grown, edge
  <2>7. more \in GraphText /\ more.nodes = Append(g.nodes, node) /\ more.edges = Append(g.edges, edge)
    <3>1. Append(g.edges, edge) \in Seq(EdgeText) /\ Append(g.nodes, node) \in Seq(NodeText)
      BY <1>2, <2>5
    <3> QED BY <1>1, <2>4, <3>1 DEF GraphText
  <2> DEFINE n == Len(g.edges)
             m == Len(g.nodes)
  <2>8. /\ Len(more.edges) = n + 1 /\ n \in Nat /\ more.edges[n + 1] = edge
        /\ \A i \in 1..n : more.edges[i] = g.edges[i]
    BY <1>2, <2>5, <2>7
  <2>9. /\ Len(more.nodes) = m + 1 /\ m \in Nat /\ more.nodes[m + 1] = node
        /\ \A i \in 1..m : more.nodes[i] = g.nodes[i]
    BY <1>2, <2>7
  <2>10. \A i \in 1..n : g.edges[i] # edge
    BY <1>1, <1>4, <2>6 DEF Whole
  <2>11. \A i \in 1..n + 1 : i \in 1..n \/ i = n + 1
    BY <2>8
  <2>12. \A i \in 1..m + 1 : i \in 1..m \/ i = m + 1
    BY <2>9
  <2>13. (\A i \in 1..n : i \in 1..n + 1) /\ n + 1 \in 1..n + 1
    BY <2>8
  <2>14. (\A i \in 1..m : i \in 1..m + 1) /\ m + 1 \in 1..m + 1
    BY <2>9
  <2>15. \A id : IsNode(g, id) => IsNode(more, id)
    BY <2>9, <2>14 DEF IsNode, m
  <2>16. IsNode(more, node.id)
    BY <2>9, <2>14 DEF IsNode
  <2>17. \A i \in 1..m : g.nodes[i].id # node.id
    BY <1>4 DEF IsNode, m
  <2>18. \A id : IsEnd(g, id) => IsEnd(more, id)
    BY <2>8, <2>13 DEF IsEnd, n
  <2>19. IsEnd(more, node.id)
    BY <2>6, <2>8, <2>13 DEF IsEnd
  <2>20. \A i, j \in 1..n + 1 : more.edges[i] = more.edges[j] => i = j
    BY <1>1, <2>8, <2>10, <2>11 DEF Whole, n
  <2>21. \A i, j \in 1..m + 1 : more.nodes[i].id = more.nodes[j].id => i = j
    BY <1>1, <2>9, <2>17, <2>12 DEF Whole, m
  <2>22. \A i \in 1..n + 1 :
           more.edges[i][1] # more.edges[i][2]
           /\ IsNode(more, more.edges[i][1]) /\ IsNode(more, more.edges[i][2])
    <3> SUFFICES ASSUME NEW i \in 1..n + 1
                 PROVE  more.edges[i][1] # more.edges[i][2]
                        /\ IsNode(more, more.edges[i][1]) /\ IsNode(more, more.edges[i][2])
      OBVIOUS
    <3>1. CASE i \in 1..n
      BY <1>1, <2>8, <2>15, <3>1 DEF Whole, n
    <3>2. CASE i = n + 1
      BY <2>6, <2>8, <2>15, <2>16, <3>2
    <3> QED BY <2>11, <3>1, <3>2
  <2>23. \A i \in 1..m + 1 : more.nodes[i].id # Vault!Project => IsEnd(more, more.nodes[i].id)
    <3> SUFFICES ASSUME NEW i \in 1..m + 1
                 PROVE  more.nodes[i].id # Vault!Project => IsEnd(more, more.nodes[i].id)
      OBVIOUS
    <3>1. CASE i \in 1..m
      BY <1>1, <2>9, <2>18, <3>1 DEF Whole, m
    <3>2. CASE i = m + 1
      BY <2>9, <2>19, <3>2
    <3> QED BY <2>12, <3>1, <3>2
  <2>24. IsNode(more, Vault!Project)
    BY <1>1, <2>15 DEF Whole
  <2>25. Whole(more)
    BY <2>8, <2>9, <2>20, <2>21, <2>22, <2>23, <2>24 DEF Whole
  <2>26. more \in GraphsWhole
    BY <2>7, <2>25 DEF GraphsWhole
  <2>27. LinkTells(more, g, node.id)
    BY ONLY <2>15, <2>16, <2>26 DEF LinkTells
  <2> QED BY <2>27 DEF more
<1> QED BY <1>3, <1>4

\* A file under the project.
LEMMA FileLinked ==
  ASSUME NEW g \in GraphsWhole, NEW kind \in NodeKind \ {"project"}, NEW file \in FileName,
         NEW how \in {"documents", "contains", "depends_on"}
  PROVE  Vault!Link(g, Vault!Project, Vault!File(kind, file), how) \in GraphsWhole
<1> DEFINE node == Vault!File(kind, file)
           more == Vault!Link(g, Vault!Project, node, how)
<1>1. node = [id |-> <<kind, file>>, label |-> file, deps |-> {}]
  BY DEF Vault!File, Vault!Node
<1>2. node.id = <<kind, file>> /\ node.id \in NodeId
  BY <1>1 DEF NodeId
<1>3. node \in NodeText
  <2>1. {} \in {d \in SUBSET STRING : IsFiniteSet(d)}
    BY FS_EmptySet
  <2> QED BY <1>1, <1>2, <2>1 DEF NodeText
<1>4. Vault!Project \in NodeId /\ node.id # Vault!Project
  BY <1>2 DEF NodeId, NodeKind, FileName, Vault!Project
<1>5. IsNode(g, Vault!Project)
  BY DEF GraphsWhole, Whole
<1> HIDE DEF node
<1>6. LinkTells(more, g, node.id)
  BY <1>3, <1>4, <1>5, NodeLinked
<1>7. more \in GraphsWhole
  BY <1>6 DEF LinkTells
<1> QED BY <1>7 DEF more, node

\* The files of a list, each under the project.
LEMMA FilesLinked ==
  ASSUME NEW g \in GraphsWhole, NEW kind \in NodeKind \ {"project"},
         NEW files \in Seq(STRING), NEW how \in {"documents", "contains", "depends_on"}
  PROVE  Vault!LinkFiles(g, kind, files, how) \in GraphsWhole
<1> DEFINE n == Len(files)
           Op(h, i) == Vault!Link(h, Vault!Project, Vault!File(kind, files[i]), how)
           take == [p \in (1..n) \X GraphsWhole |-> Op(p[2], p[1])]
           IsIt(it) == it = [s \in SUBSET (1..n) |->
                              IF s = {} THEN g ELSE Op(it[s \ {Greatest(s)}], Greatest(s))]
           it == CHOOSE it : IsIt(it)
<1>1. DOMAIN files = 1..n /\ n \in Nat
  OBVIOUS
<1>2. ASSUME NEW h \in GraphsWhole, NEW i \in 1..n PROVE Op(h, i) \in GraphsWhole
  <2>1. files[i] \in FileName
    BY DEF FileName
  <2> QED BY <2>1, FileLinked
<1>3. Vault!LinkFiles(g, kind, files, how) = it[1..n]
  BY <1>1 DEF Vault!LinkFiles, Vault!FoldLeft, Vault!MapThenFoldSet, Vault!Max, Greatest
<1> HIDE DEF Op
<1>4. take \in [(1..n) \X GraphsWhole -> GraphsWhole]
  BY <1>2
<1>5. PICK f : Folds(f, n, g, take) /\ f \in [SUBSET (1..n) -> GraphsWhole]
  BY <1>1, <1>4, FoldThereIs
<1>6. IsIt(f)
  <2> SUFFICES ASSUME NEW s \in SUBSET (1..n), s # {}
               PROVE  take[<<Greatest(s), f[s \ {Greatest(s)}]>>] = Op(f[s \ {Greatest(s)}], Greatest(s))
    BY <1>5 DEF Folds
  <2>1. Greatest(s) \in 1..n
    BY <1>1, GreatestOfFirst
  <2>2. f[s \ {Greatest(s)}] \in GraphsWhole
    BY <1>5
  <2> QED BY <2>1, <2>2
<1>7. IsIt(it)
  BY <1>6
<1>8. it[{}] \in GraphsWhole
  BY <1>7
<1>9. ASSUME NEW s \in SUBSET (1..n), s # {}, it[s \ {Greatest(s)}] \in GraphsWhole
      PROVE  it[s] \in GraphsWhole
  <2>1. Greatest(s) \in 1..n
    BY <1>1, <1>9, GreatestOfFirst
  <2>2. it[s] = Op(it[s \ {Greatest(s)}], Greatest(s))
    BY <1>7, <1>9
  <2> QED BY <1>2, <1>9, <2>1, <2>2
<1> HIDE DEF it
<1>10. it[1..n] \in GraphsWhole
  BY <1>1, <1>8, <1>9, FoldKeeps
<1> QED BY <1>3, <1>10

LEMMA FirstOfList ==
  ASSUME NEW S, NEW list \in Seq(S), NEW n \in Nat
  PROVE  Vault!FirstOf(n, list) \in Seq(S)
<1>1. CASE n < Len(list)
  BY <1>1 DEF Vault!FirstOf
<1>2. CASE ~(n < Len(list))
  BY <1>2 DEF Vault!FirstOf
<1> QED BY <1>1, <1>2

\* A signal is no node and no edge.
LEMMA Signalled ==
  ASSUME NEW g \in GraphsWhole, NEW condition,
         NEW signal \in {"capped:adrFiles", "capped:policyFiles"}
  PROVE  Vault!Signal(g, condition, signal) \in GraphsWhole
<1> DEFINE more == Vault!Signal(g, condition, signal)
<1>1. CASE condition
  <2>1. more = [g EXCEPT !.signals = @ \union {signal}]
    BY <1>1 DEF Vault!Signal
  <2>2. more \in GraphText /\ more.nodes = g.nodes /\ more.edges = g.edges
    <3>1. g \in GraphText
      BY DEF GraphsWhole
    <3>2. g.signals \union {signal} \in SUBSET {"capped:adrFiles", "capped:policyFiles"}
      BY <3>1 DEF GraphText
    <3> HIDE DEF more
    <3> QED BY <2>1, <3>1, <3>2 DEF GraphText
  <2> HIDE DEF more
  <2>3. Whole(more)
    <3>1. (\A id : IsNode(more, id) <=> IsNode(g, id)) /\ (\A id : IsEnd(more, id) <=> IsEnd(g, id))
      BY <2>2 DEF IsNode, IsEnd
    <3>2. Whole(g)
      BY DEF GraphsWhole
    <3> QED BY <2>2, <3>1, <3>2 DEF Whole
  <2>4. more \in GraphsWhole
    BY <2>2, <2>3 DEF GraphsWhole
  <2> QED BY <2>4 DEF more
<1>2. CASE ~condition
  BY <1>2 DEF Vault!Signal
<1> QED BY <1>1, <1>2

\* docs/adr and the files in it.
LEMMA AdrsAdded ==
  ASSUME NEW g \in GraphsWhole, NEW source, source.adrs \in Seq(STRING), MaxAdrFiles \in Nat
  PROVE  Vault!AddAdrs(g, source) \in GraphsWhole
<1> DEFINE files == Vault!FirstOf(MaxAdrFiles, source.adrs)
           n == Len(files)
           adr == Vault!File("doc", "docs/adr")
           start == Vault!Link(g, Vault!Project, adr, "documents")
           X == {h \in GraphsWhole : IsNode(h, adr.id)}
           Op(h, i) ==
             IF Vault!Full(h) THEN h
             ELSE Vault!AddEdge(Vault!Link(h, Vault!Project, Vault!File("doc", files[i]), "documents"),
                               adr.id, <<"doc", files[i]>>, "contains")
           take == [p \in (1..n) \X X |-> Op(p[2], p[1])]
           IsIt(it) == it = [s \in SUBSET (1..n) |->
                              IF s = {} THEN start ELSE Op(it[s \ {Greatest(s)}], Greatest(s))]
           it == CHOOSE it : IsIt(it)
<1>1. files \in Seq(STRING) /\ DOMAIN files = 1..n /\ n \in Nat
  <2>1. files \in Seq(STRING)
    BY FirstOfList
  <2> HIDE DEF files
  <2> QED BY <2>1
<1>2. adr \in NodeText /\ adr.id \in NodeId /\ adr.id # Vault!Project /\ Vault!Project \in NodeId
  <2>1. {} \in {d \in SUBSET STRING : IsFiniteSet(d)}
    BY FS_EmptySet
  <2> QED BY <2>1 DEF Vault!File, Vault!Node, Vault!Project, NodeText, NodeId, NodeKind, FileName
<1>3. start \in X
  <2>1. IsNode(g, Vault!Project)
    BY DEF GraphsWhole, Whole
  <2>2. LinkTells(start, g, adr.id)
    <3> HIDE DEF adr
    <3> QED BY <1>2, <2>1, NodeLinked
  <2> QED BY <2>2 DEF LinkTells
<1>4. ASSUME NEW h \in X, NEW i \in 1..n PROVE Op(h, i) \in X
  <2>1. files[i] \in STRING
    <3> HIDE DEF files
    <3> QED BY <1>1
  <2> DEFINE file == files[i]
  <2> HIDE DEF files, file
  <2> DEFINE node == Vault!File("doc", file)
             more == Vault!Link(h, Vault!Project, node, "documents")
             end == Vault!AddEdge(more, adr.id, <<"doc", file>>, "contains")
  <2>2. node \in NodeText /\ node.id = <<"doc", file>> /\ node.id \in NodeId /\ node.id # Vault!Project
    <3>1. {} \in {d \in SUBSET STRING : IsFiniteSet(d)}
      BY FS_EmptySet
    <3>2. file \in STRING
      BY <2>1 DEF file
    <3> QED BY <3>1, <3>2 DEF Vault!File, Vault!Node, Vault!Project, NodeText, NodeId, NodeKind, FileName
  <2>3. LinkTells(more, h, node.id)
    <3>1. IsNode(h, Vault!Project)
      BY DEF GraphsWhole, Whole
    <3> HIDE DEF node
    <3> QED BY <1>2, <2>2, <3>1, NodeLinked
  <2>4. more \in GraphsWhole /\ IsNode(more, adr.id) /\ IsNode(more, node.id)
    BY <2>3 DEF LinkTells
  <2> HIDE DEF more, adr
  <2>5. EdgeTells(end, more, adr.id, node.id)
    BY <1>2, <2>2, <2>4, EdgeAdded
  <2>6. end \in X
    <3>1. end \in GraphsWhole /\ end.nodes = more.nodes
      BY <2>5 DEF EdgeTells
    <3> HIDE DEF end
    <3> QED BY <2>4, <3>1 DEF IsNode
  <2> HIDE DEF end, X
  <2> QED BY <2>6 DEF end, more, node, file
<1>5. Vault!AddAdrs(g, source) =
        IF ~source.hasAdrs THEN g
        ELSE Vault!Signal(it[1..n], Len(source.adrs) > MaxAdrFiles, "capped:adrFiles")
  BY <1>1 DEF Vault!AddAdrs, Vault!FoldLeft, Vault!MapThenFoldSet, Vault!Max, Greatest
<1> HIDE DEF Op, start, X
<1>6. take \in [(1..n) \X X -> X]
  BY <1>4
<1>7. PICK f : Folds(f, n, start, take) /\ f \in [SUBSET (1..n) -> X]
  BY <1>1, <1>3, <1>6, FoldThereIs
<1>8. IsIt(f)
  <2> SUFFICES ASSUME NEW s \in SUBSET (1..n), s # {}
               PROVE  take[<<Greatest(s), f[s \ {Greatest(s)}]>>] = Op(f[s \ {Greatest(s)}], Greatest(s))
    BY <1>7 DEF Folds
  <2>1. Greatest(s) \in 1..n
    BY <1>1, GreatestOfFirst
  <2>2. f[s \ {Greatest(s)}] \in X
    BY <1>7
  <2> QED BY <2>1, <2>2
<1>9. IsIt(it)
  BY <1>8
<1>10. it[{}] \in X
  BY <1>3, <1>9
<1>11. ASSUME NEW s \in SUBSET (1..n), s # {}, it[s \ {Greatest(s)}] \in X
       PROVE  it[s] \in X
  <2>1. Greatest(s) \in 1..n
    BY <1>1, <1>11, GreatestOfFirst
  <2>2. it[s] = Op(it[s \ {Greatest(s)}], Greatest(s))
    BY <1>9, <1>11
  <2> QED BY <1>4, <1>11, <2>1, <2>2
<1> HIDE DEF it
<1>12. it[1..n] \in X
  BY <1>1, <1>10, <1>11, FoldKeeps
<1>13. it[1..n] \in GraphsWhole
  BY <1>12 DEF X
<1> QED BY <1>5, <1>13, Signalled

\* A bucket and the packages in it.
LEMMA BucketAdded ==
  ASSUME NEW g \in GraphsWhole, NEW source \in Repositories \union Layouts, NEW bucket \in FileName
  PROVE  Vault!AddBucket(g, source, bucket) \in GraphsWhole
<1> DEFINE kids == Vault!Kids(source, bucket)
           n == Len(kids)
           Kid == [dir : STRING, name : STRING, deps : SUBSET STRING]
           node == Vault!File("module", bucket)
           kind == IF bucket = "engines" THEN "engine" ELSE "package"
           start == Vault!Link(g, Vault!Project, node, "contains")
           X == {h \in GraphsWhole : IsNode(h, node.id)}
           Op(h, i) ==
             IF Vault!Full(h) THEN h
             ELSE Vault!Link(h, node.id, Vault!Node(kind, <<bucket, kids[i].dir>>, kids[i].name, kids[i].deps), "contains")
           take == [p \in (1..n) \X X |-> Op(p[2], p[1])]
           IsIt(it) == it = [s \in SUBSET (1..n) |->
                              IF s = {} THEN start ELSE Op(it[s \ {Greatest(s)}], Greatest(s))]
           it == CHOOSE it : IsIt(it)
<1>1. kids \in Seq(Kid) /\ \A i \in DOMAIN kids : IsFiniteSet(kids[i].deps)
  BY GraphAssumption DEF Vault!Kids
<1>2. DOMAIN kids = 1..n /\ n \in Nat
  <2> HIDE DEF kids
  <2> QED BY <1>1
<1>3. /\ node \in NodeText /\ node.id = <<"module", bucket>> /\ node.id \in NodeId
      /\ node.id # Vault!Project /\ Vault!Project \in NodeId
  <2>1. {} \in {d \in SUBSET STRING : IsFiniteSet(d)}
    BY FS_EmptySet
  <2> QED BY <2>1 DEF Vault!File, Vault!Node, Vault!Project, NodeText, NodeId, NodeKind, FileName
<1>4. start \in X
  <2>1. IsNode(g, Vault!Project)
    BY DEF GraphsWhole, Whole
  <2>2. LinkTells(start, g, node.id)
    <3> HIDE DEF node
    <3> QED BY <1>3, <2>1, NodeLinked
  <2> QED BY <2>2 DEF LinkTells
<1>5. ASSUME NEW h \in X, NEW i \in 1..n PROVE Op(h, i) \in X
  <2> DEFINE kid == kids[i]
  <2>1. kid \in Kid /\ IsFiniteSet(kid.deps)
    <3> HIDE DEF kids, Kid
    <3>1. i \in DOMAIN kids
      BY <1>2
    <3> QED BY <1>1, <3>1
  <2> HIDE DEF kid, kids
  <2> DEFINE new == Vault!Node(kind, <<bucket, kid.dir>>, kid.name, kid.deps)
             more == Vault!Link(h, node.id, new, "contains")
  <2>2. kind \in {"engine", "package"}
    OBVIOUS
  <2> HIDE DEF kind
  <2>3. new = [id |-> <<kind, <<bucket, kid.dir>>>>, label |-> kid.name, deps |-> kid.deps]
    BY DEF Vault!Node
  <2>4. new.id = <<kind, <<bucket, kid.dir>>>> /\ new.id # node.id
    BY <1>3, <2>2, <2>3
  <2>5. <<bucket, kid.dir>> \in FileName \X STRING
    BY <2>1
  <2>6. new.id \in NodeId
    BY <2>2, <2>4, <2>5 DEF NodeId, NodeKind
  <2>7. new \in NodeText
    BY <2>1, <2>3, <2>4, <2>6 DEF NodeText, FileName
  <2> HIDE DEF new, node
  <2>8. LinkTells(more, h, new.id)
    BY <1>3, <2>4, <2>7, NodeLinked
  <2>9. more \in X
    BY <2>8 DEF LinkTells
  <2> HIDE DEF more, X
  <2> QED BY <2>9 DEF more, new, kid
<1>6. Vault!AddBucket(g, source, bucket) = IF kids = <<>> THEN g ELSE it[1..n]
  BY <1>2 DEF Vault!AddBucket, Vault!FoldLeft, Vault!MapThenFoldSet, Vault!Max, Greatest
<1> HIDE DEF Op, start, X, kids
<1>7. take \in [(1..n) \X X -> X]
  BY <1>5
<1>8. PICK f : Folds(f, n, start, take) /\ f \in [SUBSET (1..n) -> X]
  BY <1>2, <1>4, <1>7, FoldThereIs
<1>9. IsIt(f)
  <2> SUFFICES ASSUME NEW s \in SUBSET (1..n), s # {}
               PROVE  take[<<Greatest(s), f[s \ {Greatest(s)}]>>] = Op(f[s \ {Greatest(s)}], Greatest(s))
    BY <1>8 DEF Folds
  <2>1. Greatest(s) \in 1..n
    BY <1>2, GreatestOfFirst
  <2>2. f[s \ {Greatest(s)}] \in X
    BY <1>8
  <2> QED BY <2>1, <2>2
<1>10. IsIt(it)
  BY <1>9
<1>11. it[{}] \in X
  BY <1>4, <1>10
<1>12. ASSUME NEW s \in SUBSET (1..n), s # {}, it[s \ {Greatest(s)}] \in X
       PROVE  it[s] \in X
  <2>1. Greatest(s) \in 1..n
    BY <1>2, <1>12, GreatestOfFirst
  <2>2. it[s] = Op(it[s \ {Greatest(s)}], Greatest(s))
    BY <1>10, <1>12
  <2> QED BY <1>5, <1>12, <2>1, <2>2
<1> HIDE DEF it
<1>13. it[1..n] \in X
  BY <1>2, <1>11, <1>12, FoldKeeps
<1> QED BY <1>6, <1>13 DEF X

\* All buckets: the three, and those the workspace file names.
LEMMA BucketsAdded ==
  ASSUME NEW g \in GraphsWhole, NEW source \in Repositories \union Layouts
  PROVE  Vault!AddBuckets(g, source) \in GraphsWhole
<1> DEFINE buckets == Vault!Buckets(source)
           n == Len(buckets)
           Op(h, i) == Vault!AddBucket(h, source, buckets[i])
           take == [p \in (1..n) \X GraphsWhole |-> Op(p[2], p[1])]
           IsIt(it) == it = [s \in SUBSET (1..n) |->
                              IF s = {} THEN g ELSE Op(it[s \ {Greatest(s)}], Greatest(s))]
           it == CHOOSE it : IsIt(it)
<1>1. buckets \in Seq(FileName) /\ DOMAIN buckets = 1..n /\ n \in Nat
  <2> DEFINE extra == {i \in DOMAIN source.globs : source.globs[i] \notin Vault!ToSet(Vault!DefaultBuckets)}
  <2>1. source.globs \in Seq(STRING)
    BY GraphAssumption
  <2> DEFINE m == Len(source.globs)
  <2>2. m \in Nat /\ extra \in SUBSET (1..m) /\ \A i \in extra : source.globs[i] \in STRING
    BY <2>1
  <2>3. buckets = Vault!DefaultBuckets \o Vault!At(source.globs, extra)
    BY DEF Vault!Buckets
  <2> HIDE DEF extra, m, buckets
  <2>4. At(source.globs, extra) \in Seq(STRING)
    BY <2>2, AtElements
  <2>5. Vault!At(source.globs, extra) = At(source.globs, extra)
    BY Zenon DEF Vault!At, Vault!Rank, Vault!Cardinality, At, Rank, Cardinality
  <2>6. At(source.globs, extra) \in Seq(FileName)
    <3> DEFINE drawn == At(source.globs, extra)
    <3> HIDE DEF drawn
    <3>1. drawn \in Seq(STRING)
      BY <2>4 DEF drawn
    <3>2. drawn \in Seq(FileName)
      BY <3>1 DEF FileName
    <3> QED BY <3>2 DEF drawn
  <2>7. Vault!DefaultBuckets \in Seq(FileName)
    BY DEF Vault!DefaultBuckets, FileName
  <2>8. buckets \in Seq(FileName)
    BY <2>3, <2>5, <2>6, <2>7
  <2> QED BY <2>8
<1>2. ASSUME NEW h \in GraphsWhole, NEW i \in 1..n PROVE Op(h, i) \in GraphsWhole
  <2> HIDE DEF buckets
  <2>1. buckets[i] \in FileName
    BY <1>1
  <2> QED BY <2>1, BucketAdded DEF buckets
<1>3. Vault!AddBuckets(g, source) = it[1..n]
  BY <1>1 DEF Vault!AddBuckets, Vault!FoldLeft, Vault!MapThenFoldSet, Vault!Max, Greatest
<1> HIDE DEF Op, buckets
<1>4. take \in [(1..n) \X GraphsWhole -> GraphsWhole]
  BY <1>2
<1>5. PICK f : Folds(f, n, g, take) /\ f \in [SUBSET (1..n) -> GraphsWhole]
  BY <1>1, <1>4, FoldThereIs
<1>6. IsIt(f)
  <2> SUFFICES ASSUME NEW s \in SUBSET (1..n), s # {}
               PROVE  take[<<Greatest(s), f[s \ {Greatest(s)}]>>] = Op(f[s \ {Greatest(s)}], Greatest(s))
    BY <1>5 DEF Folds
  <2>1. Greatest(s) \in 1..n
    BY <1>1, GreatestOfFirst
  <2>2. f[s \ {Greatest(s)}] \in GraphsWhole
    BY <1>5
  <2> QED BY <2>1, <2>2
<1>7. IsIt(it)
  BY <1>6
<1>8. it[{}] \in GraphsWhole
  BY <1>7
<1>9. ASSUME NEW s \in SUBSET (1..n), s # {}, it[s \ {Greatest(s)}] \in GraphsWhole
      PROVE  it[s] \in GraphsWhole
  <2>1. Greatest(s) \in 1..n
    BY <1>1, <1>9, GreatestOfFirst
  <2>2. it[s] = Op(it[s \ {Greatest(s)}], Greatest(s))
    BY <1>7, <1>9
  <2> QED BY <1>2, <1>9, <2>1, <2>2
<1> HIDE DEF it
<1>10. it[1..n] \in GraphsWhole
  BY <1>1, <1>8, <1>9, FoldKeeps
<1> QED BY <1>3, <1>10

\* A finite set in any order is a list of its elements.
LEMMA GraphListOfSet ==
  ASSUME NEW S, IsFiniteSet(S)
  PROVE  Vault!SetToSeq(S) \in Seq(S)
<1> DEFINE n == Vault!Cardinality(S)
<1>1. n \in Nat /\ ExistsBijection(1..n, S)
  BY FS_CardinalityType, Zenon DEF Vault!Cardinality, Cardinality
<1>2. \E f \in [1..n -> S] : Vault!IsInjective(f)
  BY <1>1 DEF ExistsBijection, Bijection, Injection, IsInjective, Vault!IsInjective
<1>3. Vault!SetToSeq(S) \in [1..n -> S]
  BY <1>2, Zenon DEF Vault!SetToSeq
<1> QED BY <1>1, <1>3

\* A name leads to a node of the graph, or nowhere.
LEMMA LastNamedIsThere ==
  ASSUME NEW g \in GraphsWhole, NEW name, Vault!NodesNamed(g, name) # {}
  PROVE  Vault!LastNamed(g, name) \in 1..Len(g.nodes)
<1> DEFINE places == Vault!NodesNamed(g, name)
           n == Len(g.nodes)
<1>1. n \in Nat /\ DOMAIN g.nodes = 1..n
  BY DEF GraphsWhole, GraphText
<1>2. places \in SUBSET (1..n)
  BY <1>1 DEF Vault!NodesNamed
<1> HIDE DEF places, n
<1>3. places # {}
  BY DEF places
<1>4. Greatest(places) \in places /\ \A j \in places : j <= Greatest(places)
  BY <1>1, <1>2, <1>3, GreatestOfFirst
<1>5. Vault!LastNamed(g, name) = CHOOSE i \in places : \A j \in places : j <= i
  BY DEF Vault!LastNamed, places
<1>6. Vault!LastNamed(g, name) \in places
  BY <1>4, <1>5
<1> QED BY <1>2, <1>6 DEF n

\* The dependencies of one node.
LEMMA NodeDepends ==
  ASSUME NEW g \in GraphsWhole, NEW h \in GraphsWhole, h.nodes = g.nodes,
         NEW node \in NodeText, IsNode(g, node.id)
  PROVE  /\ Vault!AddDependsOn(h, g, node) \in GraphsWhole
         /\ Vault!AddDependsOn(h, g, node).nodes = g.nodes
<1> DEFINE wanted == Vault!SetToSeq(node.deps)
           n == Len(wanted)
           X == {k \in GraphsWhole : k.nodes = g.nodes}
           Op(k, i) ==
             IF Vault!NodesNamed(g, wanted[i]) = {} THEN k
             ELSE Vault!AddEdge(k, node.id, g.nodes[Vault!LastNamed(g, wanted[i])].id, "depends_on")
           take == [p \in (1..n) \X X |-> Op(p[2], p[1])]
           IsIt(it) == it = [s \in SUBSET (1..n) |->
                              IF s = {} THEN h ELSE Op(it[s \ {Greatest(s)}], Greatest(s))]
           it == CHOOSE it : IsIt(it)
<1>1. n \in Nat /\ DOMAIN wanted = 1..n
  <2>1. IsFiniteSet(node.deps)
    BY DEF NodeText
  <2>2. wanted \in Seq(node.deps)
    BY <2>1, GraphListOfSet
  <2> HIDE DEF wanted
  <2> QED BY <2>2
<1>2. h \in X
  OBVIOUS
<1>3. ASSUME NEW k \in X, NEW i \in 1..n PROVE Op(k, i) \in X
  <2>1. CASE Vault!NodesNamed(g, wanted[i]) = {}
    BY <2>1
  <2>2. CASE Vault!NodesNamed(g, wanted[i]) # {}
    <3> DEFINE last == Vault!LastNamed(g, wanted[i])
               to == g.nodes[last].id
               more == Vault!AddEdge(k, node.id, to, "depends_on")
    <3>1. last \in 1..Len(g.nodes)
      BY <2>2, LastNamedIsThere
    <3> HIDE DEF last
    <3>2. to \in NodeId /\ IsNode(g, to)
      <4>1. g.nodes \in Seq(NodeText)
        BY DEF GraphsWhole, GraphText
      <4>2. g.nodes[last] \in NodeText
        BY <3>1, <4>1
      <4>3. to \in NodeId
        BY <4>2 DEF NodeText
      <4> QED BY <3>1, <4>3 DEF IsNode
    <3>3. node.id \in NodeId /\ IsNode(k, node.id) /\ IsNode(k, to)
      BY <3>2 DEF NodeText, IsNode
    <3> HIDE DEF to
    <3>4. EdgeTells(more, k, node.id, to)
      BY <3>2, <3>3, EdgeAdded
    <3>5. more \in GraphsWhole /\ more.nodes = k.nodes
      BY <3>4 DEF EdgeTells
    <3> HIDE DEF more
    <3>6. more \in X
      BY <3>5
    <3>7. Op(k, i) = more
      BY <2>2 DEF more, to, last
    <3> QED BY <3>6, <3>7
  <2> QED BY <2>1, <2>2
<1>4. Vault!AddDependsOn(h, g, node) = it[1..n]
  BY <1>1 DEF Vault!AddDependsOn, Vault!FoldLeft, Vault!MapThenFoldSet, Vault!Max, Greatest
<1> HIDE DEF Op, X, wanted
<1>5. take \in [(1..n) \X X -> X]
  BY <1>3
<1>6. PICK f : Folds(f, n, h, take) /\ f \in [SUBSET (1..n) -> X]
  BY <1>1, <1>2, <1>5, FoldThereIs
<1>7. IsIt(f)
  <2> SUFFICES ASSUME NEW s \in SUBSET (1..n), s # {}
               PROVE  take[<<Greatest(s), f[s \ {Greatest(s)}]>>] = Op(f[s \ {Greatest(s)}], Greatest(s))
    BY <1>6 DEF Folds
  <2>1. Greatest(s) \in 1..n
    BY <1>1, GreatestOfFirst
  <2>2. f[s \ {Greatest(s)}] \in X
    BY <1>6
  <2> QED BY <2>1, <2>2
<1>8. IsIt(it)
  BY <1>7
<1>9. it[{}] \in X
  BY <1>2, <1>8
<1>10. ASSUME NEW s \in SUBSET (1..n), s # {}, it[s \ {Greatest(s)}] \in X
       PROVE  it[s] \in X
  <2>1. Greatest(s) \in 1..n
    BY <1>1, <1>10, GreatestOfFirst
  <2>2. it[s] = Op(it[s \ {Greatest(s)}], Greatest(s))
    BY <1>8, <1>10
  <2> QED BY <1>3, <1>10, <2>1, <2>2
<1> HIDE DEF it
<1>11. it[1..n] \in X
  BY <1>1, <1>9, <1>10, FoldKeeps
<1> QED BY <1>4, <1>11 DEF X

\* The dependencies of all nodes: addWorkspaceDependsOn.
LEMMA DependsAdded ==
  ASSUME NEW g \in GraphsWhole
  PROVE  Vault!AddWorkspaceDependsOn(g) \in GraphsWhole
<1> DEFINE n == Len(g.nodes)
           X == {k \in GraphsWhole : k.nodes = g.nodes}
           Op(k, i) == Vault!AddDependsOn(k, g, g.nodes[i])
           take == [p \in (1..n) \X X |-> Op(p[2], p[1])]
           IsIt(it) == it = [s \in SUBSET (1..n) |->
                              IF s = {} THEN g ELSE Op(it[s \ {Greatest(s)}], Greatest(s))]
           it == CHOOSE it : IsIt(it)
<1>1. n \in Nat /\ DOMAIN g.nodes = 1..n /\ g \in X
  BY DEF GraphsWhole, GraphText
<1>2. ASSUME NEW k \in X, NEW i \in 1..n PROVE Op(k, i) \in X
  <2>1. g.nodes[i] \in NodeText
    BY DEF GraphsWhole, GraphText
  <2>2. IsNode(g, g.nodes[i].id)
    BY DEF IsNode
  <2> QED BY <2>1, <2>2, NodeDepends
<1>3. Vault!AddWorkspaceDependsOn(g) = it[1..n]
  BY <1>1 DEF Vault!AddWorkspaceDependsOn, Vault!FoldLeft, Vault!MapThenFoldSet, Vault!Max, Greatest
<1> HIDE DEF Op, X
<1>4. take \in [(1..n) \X X -> X]
  BY <1>2
<1>5. PICK f : Folds(f, n, g, take) /\ f \in [SUBSET (1..n) -> X]
  BY <1>1, <1>4, FoldThereIs
<1>6. IsIt(f)
  <2> SUFFICES ASSUME NEW s \in SUBSET (1..n), s # {}
               PROVE  take[<<Greatest(s), f[s \ {Greatest(s)}]>>] = Op(f[s \ {Greatest(s)}], Greatest(s))
    BY <1>5 DEF Folds
  <2>1. Greatest(s) \in 1..n
    BY <1>1, GreatestOfFirst
  <2>2. f[s \ {Greatest(s)}] \in X
    BY <1>5
  <2> QED BY <2>1, <2>2
<1>7. IsIt(it)
  BY <1>6
<1>8. it[{}] \in X
  BY <1>1, <1>7
<1>9. ASSUME NEW s \in SUBSET (1..n), s # {}, it[s \ {Greatest(s)}] \in X
      PROVE  it[s] \in X
  <2>1. Greatest(s) \in 1..n
    BY <1>1, <1>9, GreatestOfFirst
  <2>2. it[s] = Op(it[s \ {Greatest(s)}], Greatest(s))
    BY <1>7, <1>9
  <2> QED BY <1>2, <1>9, <2>1, <2>2
<1> HIDE DEF it
<1>10. it[1..n] \in X
  BY <1>1, <1>8, <1>9, FoldKeeps
<1> QED BY <1>3, <1>10 DEF X

\* The policy files.
LEMMA PoliciesAdded ==
  ASSUME NEW g \in GraphsWhole, NEW source \in Repositories \union Layouts
  PROVE  Vault!AddPolicies(g, source) \in GraphsWhole
<1> DEFINE files == Vault!FirstOf(MaxPolicyFiles, source.policies)
           n == Len(files)
           Op(h, i) ==
             IF Vault!Full(h) THEN h
             ELSE Vault!Link(h, Vault!Project, Vault!File("policy", files[i]), "documents")
           take == [p \in (1..n) \X GraphsWhole |-> Op(p[2], p[1])]
           IsIt(it) == it = [s \in SUBSET (1..n) |->
                              IF s = {} THEN g ELSE Op(it[s \ {Greatest(s)}], Greatest(s))]
           it == CHOOSE it : IsIt(it)
<1>1. files \in Seq(STRING) /\ DOMAIN files = 1..n /\ n \in Nat
  <2>1. files \in Seq(STRING)
    BY GraphAssumption, FirstOfList
  <2> HIDE DEF files
  <2> QED BY <2>1
<1>2. ASSUME NEW h \in GraphsWhole, NEW i \in 1..n PROVE Op(h, i) \in GraphsWhole
  <2> HIDE DEF files
  <2>1. files[i] \in FileName /\ "policy" \in NodeKind \ {"project"}
    BY <1>1 DEF FileName, NodeKind
  <2> QED BY <2>1, FileLinked
<1>3. Vault!AddPolicies(g, source) =
        Vault!Signal(it[1..n], Len(source.policies) > MaxPolicyFiles, "capped:policyFiles")
  BY <1>1 DEF Vault!AddPolicies, Vault!FoldLeft, Vault!MapThenFoldSet, Vault!Max, Greatest
<1> HIDE DEF Op, files
<1>4. take \in [(1..n) \X GraphsWhole -> GraphsWhole]
  BY <1>2
<1>5. PICK f : Folds(f, n, g, take) /\ f \in [SUBSET (1..n) -> GraphsWhole]
  BY <1>1, <1>4, FoldThereIs
<1>6. IsIt(f)
  <2> SUFFICES ASSUME NEW s \in SUBSET (1..n), s # {}
               PROVE  take[<<Greatest(s), f[s \ {Greatest(s)}]>>] = Op(f[s \ {Greatest(s)}], Greatest(s))
    BY <1>5 DEF Folds
  <2>1. Greatest(s) \in 1..n
    BY <1>1, GreatestOfFirst
  <2>2. f[s \ {Greatest(s)}] \in GraphsWhole
    BY <1>5
  <2> QED BY <2>1, <2>2
<1>7. IsIt(it)
  BY <1>6
<1>8. it[{}] \in GraphsWhole
  BY <1>7
<1>9. ASSUME NEW s \in SUBSET (1..n), s # {}, it[s \ {Greatest(s)}] \in GraphsWhole
      PROVE  it[s] \in GraphsWhole
  <2>1. Greatest(s) \in 1..n
    BY <1>1, <1>9, GreatestOfFirst
  <2>2. it[s] = Op(it[s \ {Greatest(s)}], Greatest(s))
    BY <1>7, <1>9
  <2> QED BY <1>2, <1>9, <2>1, <2>2
<1> HIDE DEF it
<1>10. it[1..n] \in GraphsWhole
  BY <1>1, <1>8, <1>9, FoldKeeps
<1> QED BY <1>3, <1>10, Signalled

\* The registry, the infrastructure and the hints of the dependencies.
LEMMA HintsAdded ==
  ASSUME NEW g \in GraphsWhole, NEW source \in Repositories \union Layouts
  PROVE  Vault!AddHints(g, source) \in GraphsWhole
<1> DEFINE deps == source.hintDeps
           n == Len(deps)
           listed == IF source.registry
                       THEN Vault!Link(g, Vault!Project, Vault!File("workspace", "registry"), "contains")
                       ELSE g
           infra == Vault!LinkFiles(listed, "infra", source.infra, "contains")
           Op(h, i) == Vault!Hint(Vault!Hint(h, deps[i], "api"), deps[i], "database")
           take == [p \in (1..n) \X GraphsWhole |-> Op(p[2], p[1])]
           IsIt(it) == it = [s \in SUBSET (1..n) |->
                              IF s = {} THEN infra ELSE Op(it[s \ {Greatest(s)}], Greatest(s))]
           it == CHOOSE it : IsIt(it)
           Dep == [name : STRING, hints : SUBSET STRING]
<1>1. deps \in Seq(Dep) /\ DOMAIN deps = 1..n /\ n \in Nat
  BY GraphAssumption
<1>2. infra \in GraphsWhole
  <2>1. listed \in GraphsWhole
    <3>1. "workspace" \in NodeKind \ {"project"} /\ "registry" \in FileName
      BY DEF NodeKind, FileName
    <3> QED BY <3>1, FileLinked
  <2> HIDE DEF listed
  <2>2. source.infra \in Seq(STRING) /\ "infra" \in NodeKind \ {"project"}
    BY GraphAssumption DEF NodeKind
  <2> QED BY <2>1, <2>2, FilesLinked
<1>3. ASSUME NEW h \in GraphsWhole, NEW dep \in Dep, NEW kind \in {"api", "database"}
      PROVE  Vault!Hint(h, dep, kind) \in GraphsWhole
  <2>1. dep.name \in FileName /\ kind \in NodeKind \ {"project"}
    BY DEF FileName, NodeKind
  <2>2. Vault!Link(h, Vault!Project, Vault!File(kind, dep.name), "depends_on") \in GraphsWhole
    BY <2>1, FileLinked
  <2> QED BY <2>2 DEF Vault!Hint
<1>4. ASSUME NEW h \in GraphsWhole, NEW i \in 1..n PROVE Op(h, i) \in GraphsWhole
  <2> HIDE DEF deps, Dep
  <2>1. deps[i] \in Dep
    BY <1>1
  <2>2. Vault!Hint(h, deps[i], "api") \in GraphsWhole
    BY <1>3, <2>1
  <2> QED BY <1>3, <2>1, <2>2
<1>5. Vault!AddHints(g, source) = it[1..n]
  BY <1>1 DEF Vault!AddHints, Vault!FoldLeft, Vault!MapThenFoldSet, Vault!Max, Greatest
<1> HIDE DEF Op, infra, deps
<1>6. take \in [(1..n) \X GraphsWhole -> GraphsWhole]
  BY <1>4
<1>7. PICK f : Folds(f, n, infra, take) /\ f \in [SUBSET (1..n) -> GraphsWhole]
  BY <1>1, <1>2, <1>6, FoldThereIs
<1>8. IsIt(f)
  <2> SUFFICES ASSUME NEW s \in SUBSET (1..n), s # {}
               PROVE  take[<<Greatest(s), f[s \ {Greatest(s)}]>>] = Op(f[s \ {Greatest(s)}], Greatest(s))
    BY <1>7 DEF Folds
  <2>1. Greatest(s) \in 1..n
    BY <1>1, GreatestOfFirst
  <2>2. f[s \ {Greatest(s)}] \in GraphsWhole
    BY <1>7
  <2> QED BY <2>1, <2>2
<1>9. IsIt(it)
  BY <1>8
<1>10. it[{}] \in GraphsWhole
  BY <1>2, <1>9
<1>11. ASSUME NEW s \in SUBSET (1..n), s # {}, it[s \ {Greatest(s)}] \in GraphsWhole
      PROVE  it[s] \in GraphsWhole
  <2>1. Greatest(s) \in 1..n
    BY <1>1, <1>11, GreatestOfFirst
  <2>2. it[s] = Op(it[s \ {Greatest(s)}], Greatest(s))
    BY <1>9, <1>11
  <2> QED BY <1>4, <1>11, <2>1, <2>2
<1> HIDE DEF it
<1>12. it[1..n] \in GraphsWhole
  BY <1>1, <1>10, <1>11, FoldKeeps
<1> QED BY <1>5, <1>12

\* The lists cut to their caps hang together.
LEMMA CapHangsTogether ==
  ASSUME NEW g \in GraphsWhole
  PROVE  Vault!HangsTogether(Vault!Cap(g))
<1> DEFINE cut == Vault!Cap(g)
           n == Len(cut.nodes)
           m == Len(cut.edges)
<1>1. /\ g.nodes \in Seq(NodeText) /\ g.edges \in Seq(EdgeText)
      /\ g.signals \in SUBSET {"capped:adrFiles", "capped:policyFiles"} /\ Whole(g)
  BY DEF GraphsWhole, GraphText
<1>2. MaxNodes \in Nat /\ MaxEdges \in Nat
  BY GraphAssumption
<1>3. /\ cut.nodes = Vault!FirstOf(MaxNodes, g.nodes)
      /\ cut.edges = Vault!FirstOf(MaxEdges, g.edges)
      /\ Len(g.nodes) > MaxNodes => "capped:maxNodes" \in cut.signals
      /\ Len(g.edges) > MaxEdges => "capped:maxEdges" \in cut.signals
  BY DEF Vault!Cap
<1> HIDE DEF cut
<1>4. /\ n \in Nat /\ n <= MaxNodes /\ n <= Len(g.nodes) /\ DOMAIN cut.nodes = 1..n
      /\ \A i \in 1..n : cut.nodes[i] = g.nodes[i]
      /\ Len(g.nodes) <= MaxNodes => n = Len(g.nodes)
  <2>1. CASE MaxNodes < Len(g.nodes)
    BY <1>1, <1>2, <1>3, <2>1 DEF Vault!FirstOf
  <2>2. CASE ~(MaxNodes < Len(g.nodes))
    BY <1>1, <1>2, <1>3, <2>2 DEF Vault!FirstOf
  <2> QED BY <2>1, <2>2
<1>5. /\ m \in Nat /\ m <= MaxEdges /\ m <= Len(g.edges) /\ DOMAIN cut.edges = 1..m
      /\ \A i \in 1..m : cut.edges[i] = g.edges[i]
      /\ Len(g.edges) <= MaxEdges => m = Len(g.edges)
  <2>1. CASE MaxEdges < Len(g.edges)
    BY <1>1, <1>2, <1>3, <2>1 DEF Vault!FirstOf
  <2>2. CASE ~(MaxEdges < Len(g.edges))
    BY <1>1, <1>2, <1>3, <2>2 DEF Vault!FirstOf
  <2> QED BY <2>1, <2>2
<1>6. Len(g.nodes) \in Nat /\ Len(g.edges) \in Nat
  BY <1>1
<1> HIDE DEF n, m
<1>7. (\A i \in 1..n : i \in 1..Len(g.nodes)) /\ (\A i \in 1..m : i \in 1..Len(g.edges))
  BY <1>4, <1>5, <1>6
<1>8. \A i, j \in DOMAIN cut.nodes : cut.nodes[i].id = cut.nodes[j].id => i = j
  BY <1>1, <1>4, <1>7 DEF Whole
<1>9. Vault!IsInjective(cut.edges)
  BY <1>1, <1>5, <1>7 DEF Whole, Vault!IsInjective
<1>10. \A i \in DOMAIN cut.edges : cut.edges[i][1] # cut.edges[i][2]
  BY <1>1, <1>5, <1>7 DEF Whole
<1>11. "capped:maxNodes" \notin cut.signals =>
         \A i \in DOMAIN cut.edges : Vault!Has(cut, cut.edges[i][1]) /\ Vault!Has(cut, cut.edges[i][2])
  <2> SUFFICES ASSUME "capped:maxNodes" \notin cut.signals, NEW i \in DOMAIN cut.edges
               PROVE  Vault!Has(cut, cut.edges[i][1]) /\ Vault!Has(cut, cut.edges[i][2])
    OBVIOUS
  <2>1. n = Len(g.nodes)
    BY <1>2, <1>3, <1>4, <1>6
  <2>2. IsNode(g, cut.edges[i][1]) /\ IsNode(g, cut.edges[i][2])
    BY <1>1, <1>5, <1>7 DEF Whole
  <2> QED BY <1>4, <2>1, <2>2 DEF Vault!Has, IsNode
<1>12. "capped:maxEdges" \notin cut.signals =>
         \A i \in DOMAIN cut.nodes : cut.nodes[i].id # Vault!Project =>
           \E k \in DOMAIN cut.edges : cut.edges[k][2] = cut.nodes[i].id
  <2> SUFFICES ASSUME "capped:maxEdges" \notin cut.signals, NEW i \in DOMAIN cut.nodes,
                      cut.nodes[i].id # Vault!Project
               PROVE  \E k \in DOMAIN cut.edges : cut.edges[k][2] = cut.nodes[i].id
    OBVIOUS
  <2>1. m = Len(g.edges)
    BY <1>2, <1>3, <1>5, <1>6
  <2>2. IsEnd(g, cut.nodes[i].id)
    BY <1>1, <1>4, <1>7 DEF Whole
  <2> QED BY <1>5, <2>1, <2>2 DEF IsEnd
<1>13. Len(cut.nodes) <= MaxNodes /\ Len(cut.edges) <= MaxEdges
  BY <1>4, <1>5 DEF n, m
<1>14. Vault!HangsTogether(cut)
  BY <1>8, <1>9, <1>10, <1>11, <1>12, <1>13 DEF Vault!HangsTogether
<1> QED BY <1>14 DEF cut

LEMMA GraphIsWhole ==
  ASSUME NEW source \in Repositories \union Layouts
  PROVE  \E whole \in GraphsWhole : Vault!BuildKnowledgeGraph(source) = Vault!Cap(whole)
<1> DEFINE first == Vault!Node("project", "root", "root", {})
           project == [nodes |-> <<first>>, edges |-> <<>>, signals |-> {}]
           files == Vault!LinkFiles(project, "doc", source.docs, "documents")
           adrs == Vault!AddAdrs(files, source)
           buckets == Vault!AddBuckets(adrs, source)
           depends == Vault!AddWorkspaceDependsOn(buckets)
           policies == Vault!AddPolicies(depends, source)
           hints == Vault!AddHints(policies, source)
<1>1. project \in GraphsWhole
  <2>1. first = [id |-> <<"project", "root">>, label |-> "root", deps |-> {}]
    BY DEF Vault!Node
  <2>2. first.id = Vault!Project /\ Vault!Project \in NodeId
    BY <2>1 DEF Vault!Project, NodeId, NodeKind, FileName
  <2>3. first \in NodeText
    <3>1. {} \in {d \in SUBSET STRING : IsFiniteSet(d)}
      BY FS_EmptySet
    <3> QED BY <2>1, <2>2, <3>1 DEF NodeText, FileName
  <2> HIDE DEF first
  <2>4. project \in GraphText
    BY <2>3 DEF GraphText
  <2>5. Len(project.nodes) = 1 /\ project.nodes[1] = first /\ Len(project.edges) = 0
    OBVIOUS
  <2> HIDE DEF project
  <2>6. Whole(project)
    BY <2>2, <2>5 DEF Whole, IsNode
  <2> QED BY <2>4, <2>6 DEF GraphsWhole
<1> HIDE DEF project
<1>2. files \in GraphsWhole
  <2>1. source.docs \in Seq(STRING) /\ "doc" \in NodeKind \ {"project"}
    BY GraphAssumption DEF NodeKind
  <2> QED BY <1>1, <2>1, FilesLinked
<1> HIDE DEF files
<1>3. adrs \in GraphsWhole
  <2>1. source.adrs \in Seq(STRING) /\ MaxAdrFiles \in Nat
    BY GraphAssumption
  <2> QED BY <1>2, <2>1, AdrsAdded
<1> HIDE DEF adrs
<1>4. buckets \in GraphsWhole
  BY <1>3, BucketsAdded
<1> HIDE DEF buckets
<1>5. depends \in GraphsWhole
  BY <1>4, DependsAdded
<1> HIDE DEF depends
<1>6. policies \in GraphsWhole
  BY <1>5, PoliciesAdded
<1> HIDE DEF policies
<1>7. hints \in GraphsWhole
  BY <1>6, HintsAdded
<1>8. Vault!BuildKnowledgeGraph(source) = Vault!Cap(hints)
  BY DEF Vault!BuildKnowledgeGraph, hints, policies, depends, buckets, adrs, files, project, first
<1> HIDE DEF hints
<1> QED BY <1>7, <1>8

LEMMA GraphBuilt ==
  ASSUME NEW source \in Repositories \union Layouts
  PROVE  Vault!HangsTogether(Vault!BuildKnowledgeGraph(source))
BY GraphIsWhole, CapHangsTogether

\* Whatever a repository holds and however small the caps are, its graph hangs
\* together: nothing is in it twice, and a node or an edge is lost only if the
\* graph says so.
THEOREM GraphsHangTogether == EnginesSpec => []GraphHangsTogether
<1>1. EnginesInit => GraphHangsTogether
  BY DEF EnginesInit, GraphHangsTogether
<1>2. GraphHangsTogether /\ [EnginesNext]_enginesVars => GraphHangsTogether'
  <2> SUFFICES ASSUME GraphHangsTogether, [EnginesNext]_enginesVars PROVE GraphHangsTogether'
    OBVIOUS
  <2>1. CASE UNCHANGED graph
    BY <2>1 DEF GraphHangsTogether
  <2>2. CASE BuildGraph
    BY <2>2, GraphBuilt DEF BuildGraph, GraphHangsTogether
  <2>3. UNCHANGED graph \/ BuildGraph
    BY DEF EnginesNext, enginesVars, AgentsPart, RemotesPart, TreesPart, PromptsPart,
           ContextPart, GraphPart, VaultPart, DocsPart
  <2> QED BY <2>1, <2>2, <2>3
<1> QED BY <1>1, <1>2, PTL DEF EnginesSpec

-----------------------------------------------------------------------------
(* Dependency trees.                                                       *)

\* An index of agents: all that is requested has a name.
IsIndex(map) ==
  /\ DOMAIN map \subseteq Name
  /\ \A a \in DOMAIN map : \A r \in map[a].requests : r.name \in Name

\* Who requests whom.
Arcs(map) ==
  {arc \in Name \X Name : arc[1] \in DOMAIN map /\ \E r \in map[arc[1]].requests : r.name = arc[2]}

\* The names some names lead to are those at the ends of paths.
LEMMA ReachedIsLed ==
  ASSUME IsIndex(registry), NEW S \in SUBSET Name
  PROVE  \A b : b \in Trees!Reached(S) <=> Leads(S, b, Arcs(registry), Name)
<1> DEFINE R == Arcs(registry)
           c == Cardinality(Name)
           Ends(p, b) == IsPath(p, R, Name) /\ p[1] \in S /\ p[Len(p)] = b
           Upto(n) == {b \in Name : \E p : Ends(p, b) /\ Len(p) <= n + 1}
           Grown(T) == T \union Trees!Requested(T)
           IsIt(f) == f = [n \in 0..c |-> IF n = 0 THEN S ELSE Grown(f[n - 1])]
           it == CHOOSE f : IsIt(f)
<1>1. IsFiniteSet(Name) /\ c \in Nat
  BY TreeAssumption, FS_CardinalityType
<1>2. \A T \in SUBSET Name : Trees!Requested(T) = {b \in Name : \E a \in T : <<a, b>> \in R}
  BY DEF Trees!Requested, Arcs, IsIndex
<1>3. Upto(0) = S
  <2>1. ASSUME NEW b \in Upto(0) PROVE b \in S
    <3>1. PICK p : Ends(p, b) /\ Len(p) <= 1
      OBVIOUS
    <3>2. Len(p) \in Nat /\ Len(p) > 0 /\ Len(p) <= 1
      BY <3>1 DEF IsPath
    <3>3. \A m \in Nat : m > 0 /\ m <= 1 => m = 1
      OBVIOUS
    <3>4. Len(p) = 1
      BY ONLY <3>2, <3>3
    <3> QED BY <3>1, <3>4
  <2>2. ASSUME NEW b \in S PROVE b \in Upto(0)
    <3>1. <<b>> \in Seq(Name) /\ Len(<<b>>) = 1 /\ <<b>>[1] = b
      OBVIOUS
    <3>2. Ends(<<b>>, b)
      BY <3>1 DEF IsPath
    <3> QED BY <3>1, <3>2
  <2> QED BY <2>1, <2>2
<1>4. ASSUME NEW n \in Nat PROVE Upto(n + 1) = Grown(Upto(n))
  <2>1. ASSUME NEW b \in Upto(n + 1) PROVE b \in Grown(Upto(n))
    <3>1. PICK p : Ends(p, b) /\ Len(p) <= n + 2
      OBVIOUS
    <3>2. p \in Seq(Name) /\ Len(p) \in Nat /\ Len(p) > 0
      BY <3>1 DEF IsPath
    <3>3. CASE Len(p) <= n + 1
      BY <3>1, <3>3
    <3>4. CASE Len(p) > n + 1
      <4>0. PICK m : m = Len(p) - 1
        OBVIOUS
      <4>1. m \in 1..Len(p) /\ 1 \in 1..Len(p) /\ 1 <= m /\ m <= n + 1 /\ Len(p) = m + 1
        BY <3>1, <3>2, <3>4, <4>0
      <4>2. PICK q : IsPath(q, R, Name) /\ q[1] = p[1] /\ q[Len(q)] = p[m] /\ Len(q) = m
        <5>1. IsPath(p, R, Name) /\ m \in 1..Len(p)
          BY <3>1, <4>1
        <5> QED BY <5>1, BeginningOfPath
      <4>3. p[m] \in Name
        BY <3>2, <4>1
      <4>4. p[m] \in Upto(n)
        BY <3>1, <4>1, <4>2, <4>3
      <4>5. <<p[m], b>> \in R
        BY <3>1, <3>2, <4>1 DEF IsPath
      <4>6. b \in Name /\ Upto(n) \in SUBSET Name
        OBVIOUS
      <4> HIDE DEF Upto
      <4> QED BY <1>2, <4>4, <4>5, <4>6
    <3> QED BY <3>2, <3>3, <3>4
  <2>2. ASSUME NEW b \in Upto(n) PROVE b \in Upto(n + 1)
    <3>1. PICK p : Ends(p, b) /\ Len(p) <= n + 1
      OBVIOUS
    <3>2. Len(p) <= (n + 1) + 1
      BY <3>1 DEF IsPath
    <3> QED BY <3>1, <3>2
  <2>3. ASSUME NEW b \in Trees!Requested(Upto(n)) PROVE b \in Upto(n + 1)
    <3>1. PICK a \in Upto(n) : <<a, b>> \in R /\ b \in Name
      <4>1. Upto(n) \in SUBSET Name
        OBVIOUS
      <4> HIDE DEF Upto
      <4> QED BY <1>2, <2>3, <4>1
    <3>2. PICK p : Ends(p, a) /\ Len(p) <= n + 1
      OBVIOUS
    <3> DEFINE q == Append(p, b)
    <3>3. IsPath(q, R, Name) /\ q[1] = p[1] /\ q[Len(q)] = b /\ Len(q) = Len(p) + 1
      BY <3>1, <3>2, PathAndStep
    <3> HIDE DEF q
    <3>4. Len(p) \in Nat /\ Len(q) <= (n + 1) + 1
      BY <3>2, <3>3 DEF IsPath
    <3> QED BY <3>1, <3>2, <3>3, <3>4
  <2> HIDE DEF Upto
  <2> QED BY <2>1, <2>2, <2>3
<1> HIDE DEF Upto, Grown
<1>5. IsIt([n \in 0..c |-> Upto(n)])
  <2> SUFFICES ASSUME NEW n \in 0..c, n # 0 PROVE n - 1 \in 0..c /\ Upto(n) = Grown(Upto(n - 1))
    BY <1>1, <1>3
  <2>1. n - 1 \in Nat /\ n - 1 \in 0..c /\ n = (n - 1) + 1
    BY <1>1
  <2> QED BY <1>4, <2>1
<1>6. IsIt(it)
  BY <1>5
<1> HIDE DEF it
<1>7. ASSUME NEW n \in 0..c PROVE it[n] = Upto(n)
  <2> DEFINE Bad == {m \in 0..c : it[m] # Upto(m)}
  <2> SUFFICES ASSUME Bad # {} PROVE FALSE
    OBVIOUS
  <2>1. Bad \in SUBSET Nat
    BY <1>1
  <2>2. PICK m \in Bad : \A k \in Bad : m <= k
    BY <2>1, HasLeast
  <2>3. m # 0
    BY <1>3, <1>6
  <2>4. m - 1 \in 0..c /\ m - 1 \in Nat /\ m - 1 < m /\ m = (m - 1) + 1
    BY <1>1, <2>3
  <2>5. m - 1 \notin Bad
    BY <2>2, <2>4
  <2>6. it[m - 1] = Upto(m - 1)
    BY <2>4, <2>5
  <2>7. it[m] = Grown(it[m - 1])
    BY <1>6, <2>3
  <2> QED BY <1>4, <2>4, <2>6, <2>7
<1>8. Trees!Reached(S) = it[c]
  <2>1. Trees!Cardinality(Name) = c
    BY Zenon DEF Trees!Cardinality, Cardinality
  <2> QED BY <2>1 DEF Trees!Reached, it, Grown
<1>9. Trees!Reached(S) = Upto(c)
  BY <1>1, <1>7, <1>8
<1>10. ASSUME NEW b, b \in Upto(c) PROVE Leads(S, b, R, Name)
  BY <1>10 DEF Upto, Leads
<1>11. ASSUME NEW b, Leads(S, b, R, Name) PROVE b \in Upto(c)
  <2> HIDE DEF R
  <2>1. PICK p : /\ IsPath(p, R, Name) /\ p[1] \in S /\ p[Len(p)] = b
                 /\ NoneTwice(p, Len(p)) /\ Len(p) <= c
    BY ONLY <1>1, <1>11, SimplePath
  <2>2. p \in Seq(Name) /\ Len(p) \in Nat /\ Len(p) > 0
    BY <2>1 DEF IsPath
  <2>3. b \in Name /\ Len(p) <= c + 1
    BY <1>1, <2>1, <2>2
  <2> QED BY <2>1, <2>3 DEF Upto
<1> QED BY <1>9, <1>10, <1>11

\* The k-th name of a path is on it before.
IsOn(p, k) == \E i \in 1..k - 1 : p[i] = p[k]

\* The walk goes on beyond the k-th name of a path.
GoesOn(map, depth, p, k) ==
  k <= depth /\ ~IsOn(p, k) /\ <<p[k], p[k + 1]>> \in Arcs(map)

\* The walk comes by the path p if it comes by here.
Goes(map, depth, here, p) ==
  /\ p \in Seq(Name) /\ Len(here) <= Len(p)
  /\ \A i \in 1..Len(here) : p[i] = here[i]
  /\ \A k \in Len(here)..Len(p) - 1 : GoesOn(map, depth, p, k)

Mismatches(map, name) ==
  {<<"version_mismatch", r.name>> :
     r \in {q \in map[name].requests : /\ q.name \in DOMAIN map
                                       /\ q.version \notin {"any", map[q.name].version}}}

\* The node at the end of a path.
TreeNode(map, depth, p) ==
  IF p[Len(p)] \notin DOMAIN map THEN Trees!Leaf(p, "missing", p[Len(p)])
  ELSE IF IsOn(p, Len(p)) THEN Trees!Leaf(p, "cycle", p[Len(p)])
  ELSE IF Len(p) > depth THEN Trees!Leaf(p, "max_depth", p[Len(p)])
  ELSE [path |-> p, issues |-> Mismatches(map, p[Len(p)])]

TreeFrom(map, depth, here) ==
  {TreeNode(map, depth, p) : p \in {q \in Seq(Name) : Goes(map, depth, here, q)}}

\* One call of walkNode(), in terms of the calls it makes.
WalkStep(map, depth, here, f) ==
  LET path == Trees!Front(here)
      name == Trees!Last(here)
  IN  IF \E i \in DOMAIN path : path[i] = name THEN {Trees!Leaf(here, "cycle", name)}
      ELSE IF Len(path) >= depth THEN {Trees!Leaf(here, "max_depth", name)}
      ELSE {[path |-> here, issues |-> Mismatches(map, name)]}
           \union UNION {
             IF r.name \in DOMAIN map THEN f[Append(here, r.name)]
             ELSE {Trees!Leaf(Append(here, r.name), "missing", r.name)} :
             r \in map[name].requests}

\* If the calls it makes walk the paths from there, a call walks those from here.
LEMMA StepWalksPaths ==
  ASSUME NEW map, IsIndex(map), NEW depth \in Nat, NEW f,
         NEW here \in Seq(DOMAIN map) \ {<<>>},
         Len(here) <= depth =>
           \A r \in map[here[Len(here)]].requests : r.name \in DOMAIN map =>
             f[Append(here, r.name)] = TreeFrom(map, depth, Append(here, r.name))
  PROVE  WalkStep(map, depth, here, f) = TreeFrom(map, depth, here)
<1> DEFINE n == Len(here)
           name == here[n]
           From(h) == {q \in Seq(Name) : Goes(map, depth, h, q)}
<1>1. here \in Seq(Name) /\ n \in Nat /\ n > 0 /\ name \in DOMAIN map /\ \A i \in 1..n : here[i] \in Name
  BY DEF IsIndex
<1>2. DOMAIN Trees!Front(here) = 1..n - 1 /\ \A i \in 1..n - 1 : Trees!Front(here)[i] = here[i]
  BY <1>1 DEF Trees!Front
<1>3. Len(Trees!Front(here)) = n - 1 /\ Trees!Last(here) = name
  <2>1. Trees!Front(here) = SubSeq(here, 1, n - 1) /\ Trees!Last(here) = name
    BY DEF Trees!Front, Trees!Last
  <2>2. Len(SubSeq(here, 1, n - 1)) = IF 1 <= n - 1 THEN n - 1 - 1 + 1 ELSE 0
    BY <1>1, SubSeqProperties
  <2> HIDE DEF n
  <2>3. (IF 1 <= n - 1 THEN n - 1 - 1 + 1 ELSE 0) = n - 1
    BY <1>1
  <2>4. Len(Trees!Front(here)) = n - 1
    BY <2>1, <2>2, <2>3
  <2> QED BY <2>1, <2>4
<1>4. (\E i \in DOMAIN Trees!Front(here) : Trees!Front(here)[i] = name) <=> IsOn(here, n)
  BY <1>2 DEF IsOn
<1>5. Len(Trees!Front(here)) >= depth <=> n > depth
  BY <1>1, <1>3
<1>6. here \in From(here)
  <2>1. \A k \in n..n - 1 : FALSE
    BY <1>1
  <2> QED BY <1>1, <2>1 DEF Goes
<1>7. ASSUME NEW p \in From(here), Len(p) = n PROVE p = here
  BY <1>1, <1>7, SeqEqual DEF Goes
<1>8. ASSUME NEW p \in From(here), p # here
      PROVE  /\ Len(p) > n /\ Len(p) \in Nat /\ n <= depth /\ ~IsOn(here, n)
             /\ <<name, p[n + 1]>> \in Arcs(map)
  <2>1. p \in Seq(Name) /\ Len(p) \in Nat /\ Len(p) > n /\ \A i \in 1..n : p[i] = here[i]
    <3>1. p \in Seq(Name) /\ n <= Len(p) /\ \A i \in 1..n : p[i] = here[i]
      BY DEF Goes
    <3>2. Len(p) \in Nat /\ Len(p) # n
      BY <1>7, <1>8, <3>1
    <3> QED BY <1>1, <3>1, <3>2
  <2>2. n \in n..Len(p) - 1 /\ n \in 1..n /\ \A i \in 1..n - 1 : i \in 1..n
    BY <1>1, <2>1
  <2>3. GoesOn(map, depth, p, n)
    BY <2>2 DEF Goes
  <2> QED BY <2>1, <2>2, <2>3 DEF GoesOn, IsOn
<1>9. TreeFrom(map, depth, here) = {TreeNode(map, depth, p) : p \in From(here)}
  BY DEF TreeFrom
<1> HIDE DEF From
<1>10. CASE IsOn(here, n) \/ n > depth
  <2>1. \A p \in From(here) : p = here
    <3> SUFFICES ASSUME NEW p \in From(here), p # here PROVE FALSE
      OBVIOUS
    <3>1. n <= depth /\ ~IsOn(here, n)
      BY <1>8
    <3> QED BY <1>1, <1>10, <3>1
  <2>2. TreeFrom(map, depth, here) = {TreeNode(map, depth, here)}
    BY <1>6, <1>9, <2>1
  <2>3. CASE IsOn(here, n)
    <3>1. WalkStep(map, depth, here, f) = {Trees!Leaf(here, "cycle", name)}
      BY <1>3, <1>4, <2>3 DEF WalkStep
    <3> QED BY <1>1, <2>2, <2>3, <3>1 DEF TreeNode
  <2>4. CASE ~IsOn(here, n)
    <3>1. WalkStep(map, depth, here, f) = {Trees!Leaf(here, "max_depth", name)}
      BY <1>3, <1>4, <1>5, <1>10, <2>4 DEF WalkStep
    <3> QED BY <1>1, <1>10, <2>2, <2>4, <3>1 DEF TreeNode
  <2> QED BY <2>3, <2>4
<1>11. CASE ~IsOn(here, n) /\ n <= depth
  <2> DEFINE Child(r) == Append(here, r.name)
             Sub(r) == IF r.name \in DOMAIN map THEN f[Child(r)]
                       ELSE {Trees!Leaf(Child(r), "missing", r.name)}
             inner == [path |-> here, issues |-> Mismatches(map, name)]
  <2>1. WalkStep(map, depth, here, f) = {inner} \union UNION {Sub(r) : r \in map[name].requests}
    <3>1. ~(Len(Trees!Front(here)) >= depth)
      BY <1>1, <1>5, <1>11
    <3> QED BY <1>3, <1>4, <1>11, <3>1 DEF WalkStep
  <2>2. inner = TreeNode(map, depth, here)
    BY <1>1, <1>11 DEF TreeNode
  <2>3. ASSUME NEW r \in map[name].requests
        PROVE  /\ r.name \in Name /\ Child(r) \in Seq(Name) /\ Len(Child(r)) = n + 1
               /\ Child(r)[n + 1] = r.name /\ \A i \in 1..n : Child(r)[i] = here[i]
    <3>1. r.name \in Name
      BY <1>1 DEF IsIndex
    <3> QED BY <1>1, <3>1
  <2> HIDE DEF Child
  <2>4. ASSUME NEW r \in map[name].requests, NEW p PROVE p \in From(Child(r)) => p \in From(here)
    <3> SUFFICES ASSUME p \in Seq(Name), Goes(map, depth, Child(r), p) PROVE Goes(map, depth, here, p)
      BY DEF From
    <3>1. /\ Len(p) \in Nat /\ n + 1 <= Len(p) /\ p[n + 1] = r.name
          /\ \A i \in 1..n : i \in 1..n + 1 /\ p[i] = here[i]
      <4>1. n + 1 <= Len(p) /\ \A i \in 1..n + 1 : p[i] = Child(r)[i]
        BY <2>3 DEF Goes
      <4>2. n + 1 \in 1..n + 1 /\ \A i \in 1..n : i \in 1..n + 1
        BY <1>1
      <4> QED BY <2>3, <4>1, <4>2
    <3>2. GoesOn(map, depth, p, n)
      <4>1. n \in 1..n /\ \A i \in 1..n - 1 : i \in 1..n
        BY <1>1
      <4>2. ~IsOn(p, n) /\ p[n] = name
        BY <1>11, <3>1, <4>1 DEF IsOn
      <4>3. <<name, r.name>> \in Arcs(map)
        BY <1>1, <2>3 DEF Arcs, IsIndex
      <4> QED BY <1>11, <3>1, <4>2, <4>3 DEF GoesOn
    <3>3. \A k \in n..Len(p) - 1 : k = n \/ k \in n + 1..Len(p) - 1
      BY <1>1, <3>1
    <3>4. \A k \in n + 1..Len(p) - 1 : GoesOn(map, depth, p, k)
      BY <2>3 DEF Goes
    <3> QED BY <1>1, <3>1, <3>2, <3>3, <3>4 DEF Goes
  <2>5. ASSUME NEW r \in map[name].requests PROVE Child(r) \in From(Child(r))
    <3>1. \A k \in n + 1..n + 1 - 1 : FALSE
      BY <1>1
    <3> QED BY <1>1, <2>3, <3>1 DEF From, Goes
  <2>6. ASSUME NEW p \in From(here), p # here
        PROVE  \E r \in map[name].requests : p[n + 1] = r.name /\ p \in From(Child(r))
    <3>1. /\ Len(p) > n /\ Len(p) \in Nat /\ <<name, p[n + 1]>> \in Arcs(map)
      BY <1>8, <2>6
    <3>2. PICK r \in map[name].requests : r.name = p[n + 1]
      BY <3>1 DEF Arcs
    <3>3. p \in Seq(Name) /\ (\A i \in 1..n : p[i] = here[i])
          /\ \A k \in n..Len(p) - 1 : GoesOn(map, depth, p, k)
      BY DEF From, Goes
    <3>4. \A i \in 1..n + 1 : i \in 1..n \/ i = n + 1
      BY <1>1
    <3>5. \A i \in 1..n + 1 : p[i] = Child(r)[i]
      BY <2>3, <3>2, <3>3, <3>4
    <3>6. \A k \in n + 1..Len(p) - 1 : k \in n..Len(p) - 1
      BY <1>1, <3>1
    <3>7. n + 1 <= Len(p)
      BY <1>1, <3>1
    <3>8. p \in From(Child(r))
      BY <2>3, <3>3, <3>5, <3>6, <3>7 DEF From, Goes
    <3> QED BY <3>2, <3>8
  <2>7. ASSUME NEW r \in map[name].requests, r.name \notin DOMAIN map, NEW p \in From(Child(r))
        PROVE  p = Child(r)
    <3>1. /\ p \in Seq(Name) /\ Len(p) \in Nat /\ n + 1 <= Len(p)
          /\ \A i \in 1..n + 1 : p[i] = Child(r)[i]
          /\ \A k \in n + 1..Len(p) - 1 : GoesOn(map, depth, p, k)
      <4>1. p \in Seq(Name) /\ Goes(map, depth, Child(r), p)
        BY DEF From
      <4>2. /\ Len(Child(r)) <= Len(p) /\ \A i \in 1..Len(Child(r)) : p[i] = Child(r)[i]
            /\ \A k \in Len(Child(r))..Len(p) - 1 : GoesOn(map, depth, p, k)
        BY <4>1 DEF Goes
      <4>3. Len(Child(r)) = n + 1
        BY <2>3
      <4>4. Len(p) \in Nat
        BY <4>1
      <4> QED BY <4>1, <4>2, <4>3, <4>4
    <3>2. CASE Len(p) = n + 1
      BY <2>3, <3>1, <3>2, SeqEqual
    <3>3. CASE Len(p) # n + 1
      <4>1. n + 1 \in n + 1..Len(p) - 1 /\ n + 1 \in 1..n + 1
        BY <1>1, <3>1, <3>3
      <4>2. <<p[n + 1], p[n + 1 + 1]>> \in Arcs(map) /\ p[n + 1] = r.name
        BY <2>3, <3>1, <4>1 DEF GoesOn
      <4> QED BY <2>7, <4>2 DEF Arcs
    <3> QED BY <3>2, <3>3
  <2>8. ASSUME NEW r \in map[name].requests
        PROVE  Sub(r) = {TreeNode(map, depth, p) : p \in From(Child(r))}
    <3>1. CASE r.name \in DOMAIN map
      <4>1. f[Child(r)] = TreeFrom(map, depth, Child(r))
        BY <1>11, <3>1 DEF Child
      <4> QED BY <3>1, <4>1 DEF TreeFrom, From
    <3>2. CASE r.name \notin DOMAIN map
      <4>1. \A p \in From(Child(r)) : p = Child(r)
        BY <2>7, <3>2
      <4>2. {TreeNode(map, depth, p) : p \in From(Child(r))} = {TreeNode(map, depth, Child(r))}
        BY <2>5, <4>1
      <4>3. TreeNode(map, depth, Child(r)) = Trees!Leaf(Child(r), "missing", r.name)
        BY <2>3, <3>2 DEF TreeNode
      <4> QED BY <3>2, <4>2, <4>3
    <3> QED BY <3>1, <3>2
  <2> HIDE DEF Sub, inner
  <2>9. ASSUME NEW x \in TreeFrom(map, depth, here) PROVE x \in WalkStep(map, depth, here, f)
    <3>1. PICK p \in From(here) : x = TreeNode(map, depth, p)
      BY <1>9
    <3>2. CASE p = here
      BY <2>1, <2>2, <3>1, <3>2
    <3>3. CASE p # here
      <4>1. PICK r \in map[name].requests : p \in From(Child(r))
        BY <2>6, <3>3
      <4>2. x \in Sub(r)
        BY <2>8, <3>1, <4>1
      <4> QED BY <2>1, <4>2
    <3> QED BY <3>2, <3>3
  <2>10. ASSUME NEW x \in WalkStep(map, depth, here, f) PROVE x \in TreeFrom(map, depth, here)
    <3>1. CASE x = inner
      BY <1>6, <1>9, <2>2, <3>1
    <3>2. CASE \E r \in map[name].requests : x \in Sub(r)
      <4>1. PICK r \in map[name].requests : x \in Sub(r)
        BY <3>2
      <4>2. PICK p \in From(Child(r)) : x = TreeNode(map, depth, p)
        BY <2>8, <4>1
      <4>3. p \in From(here)
        BY <2>4
      <4> QED BY <1>9, <4>2, <4>3
    <3> QED BY <2>1, <3>1, <3>2
  <2> QED BY <2>9, <2>10
<1> QED BY <1>1, <1>10, <1>11

\* walkNode() walks the paths from the root.
LEMMA WalkIsPaths ==
  ASSUME NEW map, IsIndex(map), NEW depth \in Nat, NEW top \in DOMAIN map
  PROVE  Trees!WalkNode(top, map, depth) = TreeFrom(map, depth, <<top>>)
<1> DEFINE D == Seq(DOMAIN map) \ {<<>>}
           IsIt(f) == f = [here \in D |-> WalkStep(map, depth, here, f)]
           T == [here \in D |-> TreeFrom(map, depth, here)]
           it == CHOOSE f : IsIt(f)
           Left(here) == IF Len(here) > depth THEN 0 ELSE depth + 1 - Len(here)
<1>1. ASSUME NEW here \in D, NEW name \in DOMAIN map
      PROVE  Append(here, name) \in D /\ Len(Append(here, name)) = Len(here) + 1
  OBVIOUS
<1>2. IsIt(T)
  <2> SUFFICES ASSUME NEW here \in D PROVE TreeFrom(map, depth, here) = WalkStep(map, depth, here, T)
    OBVIOUS
  <2>1. \A r \in map[here[Len(here)]].requests : r.name \in DOMAIN map =>
          T[Append(here, r.name)] = TreeFrom(map, depth, Append(here, r.name))
    BY <1>1
  <2> HIDE DEF T
  <2> QED BY <2>1, StepWalksPaths
<1>3. IsIt(it)
  BY <1>2
<1> HIDE DEF it, T
<1>4. ASSUME NEW h \in D PROVE it[h] = TreeFrom(map, depth, h)
  <2> DEFINE Bad == {m \in Nat : \E here \in D : Left(here) = m /\ it[here] # TreeFrom(map, depth, here)}
  <2> SUFFICES ASSUME it[h] # TreeFrom(map, depth, h) PROVE FALSE
    OBVIOUS
  <2>1. \A here \in D : Left(here) \in Nat /\ Len(here) \in Nat
    OBVIOUS
  <2>2. Bad # {} /\ Bad \in SUBSET Nat
    <3> HIDE DEF Left
    <3> QED BY <2>1
  <2>3. PICK m \in Bad : \A k \in Bad : m <= k
    BY <2>2, HasLeast
  <2>4. PICK here \in D : Left(here) = m /\ it[here] # TreeFrom(map, depth, here)
    OBVIOUS
  <2>5. it[here] = WalkStep(map, depth, here, it)
    BY <1>3
  <2>6. ASSUME Len(here) <= depth, NEW name \in DOMAIN map
        PROVE  it[Append(here, name)] = TreeFrom(map, depth, Append(here, name))
    <3> DEFINE child == Append(here, name)
    <3>1. child \in D /\ Len(child) = Len(here) + 1
      BY <1>1
    <3> HIDE DEF child
    <3>2. Left(child) \in Nat /\ Left(child) < m
      BY <2>1, <2>4, <2>6, <3>1
    <3>3. Left(child) \notin Bad
      <4> HIDE DEF Left
      <4> QED BY <2>2, <2>3, <3>2
    <3> HIDE DEF Left
    <3>4. it[child] = TreeFrom(map, depth, child)
      BY <3>1, <3>2, <3>3
    <3> QED BY <3>4 DEF child
  <2>7. WalkStep(map, depth, here, it) = TreeFrom(map, depth, here)
    BY <2>6, StepWalksPaths
  <2> QED BY <2>4, <2>5, <2>7
<1>5. <<top>> \in D
  OBVIOUS
<1>6. Trees!WalkNode(top, map, depth) = it[<<top>>]
  BY DEF Trees!WalkNode, WalkStep, Mismatches, it
<1> QED BY <1>4, <1>5, <1>6

\* A path the walk comes by is one of the graph, and only its last name may be
\* on it before.
LEMMA WalkedIsPath ==
  ASSUME NEW map, IsIndex(map), NEW depth \in Nat, NEW top \in DOMAIN map,
         NEW p \in Seq(Name), Goes(map, depth, <<top>>, p)
  PROVE  IsPath(p, Arcs(map), Name) /\ p[1] = top /\ NoneTwice(p, Len(p) - 1)
<1> DEFINE n == Len(p)
<1>1. /\ n \in Nat /\ 1 <= n /\ p[1] = top
      /\ \A k \in 1..n - 1 : ~IsOn(p, k) /\ <<p[k], p[k + 1]>> \in Arcs(map)
  <2>1. Len(<<top>>) = 1 /\ <<top>>[1] = top /\ 1 \in 1..1
    OBVIOUS
  <2> QED BY <2>1 DEF Goes, GoesOn
<1>2. IsPath(p, Arcs(map), Name)
  BY <1>1 DEF IsPath
<1> HIDE DEF n
<1>3. ASSUME NEW i \in 1..n - 1, NEW j \in 1..n - 1, p[i] = p[j], i < j PROVE FALSE
  <2>1. i \in 1..j - 1
    BY <1>1, <1>3
  <2> QED BY <1>1, <1>3, <2>1 DEF IsOn
<1>4. NoneTwice(p, n - 1)
  <2> SUFFICES ASSUME NEW i \in 1..n - 1, NEW j \in 1..n - 1, p[i] = p[j], i # j PROVE FALSE
    BY DEF NoneTwice
  <2>1. i < j \/ j < i
    BY <1>1
  <2> QED BY <1>3, <2>1
<1> QED BY <1>1, <1>2, <1>4 DEF n

\* The tree was cut off somewhere.
IsCut(map, depth, top) ==
  \E p \in Seq(Name) : Goes(map, depth, <<top>>, p) /\ TreeNode(map, depth, p) = Trees!Leaf(p, "max_depth", p[Len(p)])

\* A path of the graph on which only the last name may be before is walked, or
\* the tree is cut off.
LEMMA PathIsWalked ==
  ASSUME NEW map, IsIndex(map), NEW depth \in Nat, NEW top \in DOMAIN map, ~IsCut(map, depth, top),
         NEW p, IsPath(p, Arcs(map), Name), p[1] = top, NoneTwice(p, Len(p) - 1)
  PROVE  p \in Seq(Name) /\ Goes(map, depth, <<top>>, p)
<1> DEFINE n == Len(p)
<1>1. p \in Seq(Name) /\ n \in Nat /\ n > 0 /\ \A k \in 1..n - 1 : <<p[k], p[k + 1]>> \in Arcs(map)
  BY DEF IsPath
<1>2. ASSUME NEW k \in 1..n - 1 PROVE ~IsOn(p, k)
  <2> SUFFICES ASSUME NEW i \in 1..k - 1, p[i] = p[k] PROVE FALSE
    BY DEF IsOn
  <2>1. i \in 1..n - 1 /\ i # k
    BY <1>1
  <2> QED BY <2>1 DEF NoneTwice
<1>3. Len(<<top>>) = 1 /\ \A i \in 1..1 : p[i] = <<top>>[i]
  OBVIOUS
<1>4. CASE n - 1 <= depth
  <2>1. \A k \in 1..n - 1 : GoesOn(map, depth, p, k)
    <3>1. \A k \in 1..n - 1 : k <= depth
      BY <1>1, <1>4
    <3> QED BY <1>1, <1>2, <3>1 DEF GoesOn
  <2>2. \A k \in Len(<<top>>)..Len(p) - 1 : GoesOn(map, depth, p, k)
    BY <1>3, <2>1
  <2>3. Len(<<top>>) <= Len(p) /\ \A i \in 1..Len(<<top>>) : p[i] = <<top>>[i]
    BY <1>1, <1>3
  <2> QED BY <1>1, <2>2, <2>3 DEF Goes
<1>5. CASE ~(n - 1 <= depth)
  <2> DEFINE m == depth + 1
             q == SubSeq(p, 1, m)
  <2>1. m \in 1..n - 1 /\ m \in 1..n /\ 1 \in 1..n /\ 1 <= m
    BY <1>1, <1>5
  <2>2. q \in Seq(Name) /\ Len(q) = m /\ \A k \in 1..m : q[k] = p[k]
    BY <1>1, <2>1
  <2> HIDE DEF q, n
  <2>3. \A k \in 1..m : k \in 1..n - 1
    BY <1>1, <2>1
  <2>4. ASSUME NEW k \in 1..m PROVE ~IsOn(q, k)
    <3>1. \A i \in 1..k - 1 : i \in 1..m
      BY <2>1
    <3>2. ~IsOn(p, k)
      BY <1>2, <2>3
    <3> QED BY <2>2, <3>1, <3>2 DEF IsOn
  <2>5. ASSUME NEW k \in 1..m - 1 PROVE GoesOn(map, depth, q, k)
    <3>1. k \in 1..m /\ k + 1 \in 1..m /\ k <= depth /\ k \in 1..n - 1
      BY <1>1, <2>1
    <3>2. q[k] = p[k] /\ q[k + 1] = p[k + 1]
      BY <2>2, <3>1
    <3> QED BY <1>1, <2>4, <3>1, <3>2 DEF GoesOn
  <2>6. Goes(map, depth, <<top>>, q)
    <3>1. q[1] = top
      BY <2>1, <2>2
    <3>2. \A k \in Len(<<top>>)..Len(q) - 1 : GoesOn(map, depth, q, k)
      BY <1>3, <2>2, <2>5
    <3>3. Len(<<top>>) <= Len(q) /\ \A i \in 1..Len(<<top>>) : q[i] = <<top>>[i]
      BY <1>3, <2>1, <2>2, <3>1
    <3> QED BY <2>2, <3>2, <3>3 DEF Goes
  <2>7. q[m] \in DOMAIN map
    <3>1. m \in 1..m
      BY <2>1
    <3> QED BY <1>1, <2>1, <2>2, <3>1 DEF Arcs
  <2>8. ~IsOn(q, m) /\ m > depth
    BY <2>1, <2>4
  <2>9. TreeNode(map, depth, q) = Trees!Leaf(q, "max_depth", q[Len(q)])
    BY <2>2, <2>7, <2>8 DEF TreeNode
  <2> QED BY <2>2, <2>6, <2>9 DEF IsCut
<1> QED BY <1>4, <1>5

\* What the issues of a node say of the path to it.
LEMMA IssuesOf ==
  ASSUME NEW map, NEW depth, NEW p, NEW i \in TreeNode(map, depth, p).issues
  PROVE  /\ i[1] = "missing" => p[Len(p)] \notin DOMAIN map /\ i[2] = p[Len(p)]
         /\ i[1] = "cycle" => p[Len(p)] \in DOMAIN map /\ IsOn(p, Len(p))
         /\ i[1] = "max_depth" =>
              /\ ~IsOn(p, Len(p)) /\ Len(p) > depth
              /\ TreeNode(map, depth, p) = Trees!Leaf(p, "max_depth", p[Len(p)])
         /\ i[1] = "version_mismatch" =>
              /\ p[Len(p)] \in DOMAIN map
              /\ \E r \in map[p[Len(p)]].requests :
                   /\ i[2] = r.name /\ r.name \in DOMAIN map
                   /\ r.version \notin {"any", map[r.name].version}
<1> DEFINE a == p[Len(p)]
           node == TreeNode(map, depth, p)
<1> HIDE DEF a
<1>1. CASE a \notin DOMAIN map
  <2>1. node.issues = {<<"missing", a>>}
    BY <1>1 DEF TreeNode, Trees!Leaf, a
  <2>2. i[1] = "missing" /\ i[2] = a
    BY <2>1
  <2> QED BY <1>1, <2>2 DEF a
<1>2. CASE a \in DOMAIN map /\ IsOn(p, Len(p))
  <2>1. node.issues = {<<"cycle", a>>}
    BY <1>2 DEF TreeNode, Trees!Leaf, a
  <2>2. i[1] = "cycle"
    BY <2>1
  <2> QED BY <1>2, <2>2 DEF a
<1>3. CASE a \in DOMAIN map /\ ~IsOn(p, Len(p)) /\ Len(p) > depth
  <2>1. node = Trees!Leaf(p, "max_depth", a)
    BY <1>3 DEF TreeNode, a
  <2>2. node.issues = {<<"max_depth", a>>}
    BY <2>1 DEF Trees!Leaf
  <2>3. i[1] = "max_depth"
    BY <2>2
  <2> QED BY <1>3, <2>1, <2>3 DEF a
<1>4. CASE a \in DOMAIN map /\ ~IsOn(p, Len(p)) /\ ~(Len(p) > depth)
  <2>1. node.issues = Mismatches(map, a)
    BY <1>4 DEF TreeNode, a
  <2>2. PICK r \in map[a].requests :
          i = <<"version_mismatch", r.name>> /\ r.name \in DOMAIN map
          /\ r.version \notin {"any", map[r.name].version}
    BY <2>1 DEF Mismatches
  <2>3. i[1] = "version_mismatch" /\ i[2] = r.name
    BY <2>2
  <2> QED BY <1>4, <2>2, <2>3 DEF a
<1> QED BY <1>1, <1>2, <1>3, <1>4

\* Every tree tells the truth.
LEMMA TreeTruth ==
  ASSUME IsIndex(registry), NEW top \in DOMAIN registry, NEW depth \in Nat,
         resolved = [root |-> top, maxDepth |-> depth, nodes |-> Trees!WalkNode(top, registry, depth)]
  PROVE  Trees!TreeTellsGraph
<1> DEFINE R == Arcs(registry)
           nodes == resolved.nodes
           issues == Trees!FormatDependencyIssues(nodes)
           reached == Trees!Reached({top})
           Walked(p) == p \in Seq(Name) /\ Goes(registry, depth, <<top>>, p)
           Node(p) == TreeNode(registry, depth, p)
           cut == \E i \in issues : i[1] = "max_depth"
           Wrong(a, n) == \E r \in registry[a].requests :
                            r.name = n /\ r.version \notin {"any", registry[n].version}
<1>1. nodes = {Node(p) : p \in {q \in Seq(Name) : Goes(registry, depth, <<top>>, q)}}
  BY WalkIsPaths DEF TreeFrom
<1>2. issues = UNION {n.issues : n \in nodes}
  BY DEF Trees!FormatDependencyIssues
<1> HIDE DEF nodes, issues
<1>3. \A i : i \in issues <=> \E p : Walked(p) /\ i \in Node(p).issues
  BY <1>1, <1>2
<1>4. \A p : Walked(p) => IsPath(p, R, Name) /\ p[1] = top /\ NoneTwice(p, Len(p) - 1) /\ Len(p) \in Nat /\ Len(p) > 0
  BY WalkedIsPath DEF IsPath
<1>5. top \in Name /\ {top} \in SUBSET Name
  BY DEF IsIndex
<1>6. \A b : b \in reached <=> Leads({top}, b, R, Name)
  BY <1>5, ReachedIsLed
<1>7. \A p : Walked(p) => p[Len(p)] \in reached
  BY <1>4, <1>6 DEF Leads
<1>8. cut <=> IsCut(registry, depth, top)
  <2>1. ASSUME cut PROVE IsCut(registry, depth, top)
    <3>1. PICK i \in issues : i[1] = "max_depth"
      BY <2>1
    <3>2. PICK p : Walked(p) /\ i \in Node(p).issues
      BY <1>3
    <3>3. Node(p) = Trees!Leaf(p, "max_depth", p[Len(p)])
      BY <3>1, <3>2, IssuesOf
    <3> QED BY <3>2, <3>3 DEF IsCut
  <2>2. ASSUME IsCut(registry, depth, top) PROVE cut
    <3>1. PICK p : Walked(p) /\ Node(p) = Trees!Leaf(p, "max_depth", p[Len(p)])
      BY <2>2 DEF IsCut
    <3> DEFINE i == <<"max_depth", p[Len(p)]>>
    <3>2. i \in Node(p).issues /\ i[1] = "max_depth"
      BY <3>1 DEF Trees!Leaf
    <3> HIDE DEF i, Node
    <3>3. i \in issues
      BY <1>3, <3>1, <3>2
    <3> QED BY <3>2, <3>3
  <2> QED BY <2>1, <2>2
<1>9. IsFiniteSet(Name) /\ Cardinality(Name) \in Nat
  BY TreeAssumption, FS_CardinalityType
<1>10. depth >= Cardinality(Name) => ~cut
  <2> SUFFICES ASSUME depth >= Cardinality(Name), cut PROVE FALSE
    OBVIOUS
  <2>1. PICK i \in issues : i[1] = "max_depth"
    OBVIOUS
  <2>2. PICK p : Walked(p) /\ i \in Node(p).issues
    BY <1>3
  <2>3. ~IsOn(p, Len(p)) /\ Len(p) > depth
    BY <2>1, <2>2, IssuesOf
  <2>4. p \in Seq(Name) /\ NoneTwice(p, Len(p) - 1) /\ Len(p) \in Nat /\ Len(p) > 0
    BY <1>4, <2>2
  <2>5. NoneTwice(p, Len(p))
    <3> SUFFICES ASSUME NEW j \in 1..Len(p), NEW k \in 1..Len(p), p[j] = p[k] PROVE j = k
      BY DEF NoneTwice
    <3>1. \A m \in 1..Len(p) : m \in 1..Len(p) - 1 \/ m = Len(p)
      BY <2>4
    <3>2. \A m \in 1..Len(p) - 1 : p[m] # p[Len(p)]
      BY <2>3 DEF IsOn
    <3> QED BY <2>4, <3>1, <3>2 DEF NoneTwice
  <2>6. Len(p) <= Cardinality(Name)
    BY <1>9, <2>4, <2>5, DifferBound
  <2> QED BY <1>9, <2>3, <2>4, <2>6
<1>11. ASSUME ~cut, NEW p, IsPath(p, R, Name), p[1] = top, NoneTwice(p, Len(p) - 1)
       PROVE  Walked(p)
  BY <1>8, <1>11, PathIsWalked
<1>12. ASSUME ~cut, NEW b \in reached
       PROVE  \E p : Walked(p) /\ p[Len(p)] = b /\ NoneTwice(p, Len(p))
  <2>1. PICK p : /\ IsPath(p, R, Name) /\ p[1] \in {top} /\ p[Len(p)] = b
                 /\ NoneTwice(p, Len(p)) /\ Len(p) <= Cardinality(Name)
    <3> HIDE DEF R
    <3>1. Leads({top}, b, R, Name)
      BY <1>6
    <3> QED BY <1>9, <3>1, SimplePath
  <2>2. NoneTwice(p, Len(p) - 1)
    <3>1. Len(p) \in Nat
      BY <2>1 DEF IsPath
    <3>2. \A k \in 1..Len(p) - 1 : k \in 1..Len(p)
      BY <3>1
    <3> QED BY <2>1, <3>2 DEF NoneTwice
  <2>3. Walked(p)
    BY <1>11, <1>12, <2>1, <2>2
  <2> QED BY <2>1, <2>3
<1>13. ASSUME NEW i \in issues, i[1] = "cycle"
       PROVE  \E n \in reached : n \in Trees!Reached(Trees!Requested({n}))
  <2>1. PICK p : Walked(p) /\ i \in Node(p).issues
    BY <1>3
  <2> DEFINE n == p[Len(p)]
             m == Len(p)
  <2>2. IsOn(p, m) /\ n \in DOMAIN registry
    BY <1>13, <2>1, IssuesOf
  <2>3. PICK j \in 1..m - 1 : p[j] = n
    BY <2>2 DEF IsOn
  <2>4. IsPath(p, R, Name) /\ m \in Nat /\ <<n, p[j + 1]>> \in R
    BY <1>4, <2>1, <2>3 DEF IsPath
  <2>5. IsPath(p, R, Name) /\ j \in 1..Len(p) - 1
    BY <2>4
  <2>6. PICK q : IsPath(q, R, Name) /\ q[1] = p[j + 1] /\ q[Len(q)] = n
    <3> HIDE DEF R
    <3>1. \E q : IsPath(q, R, Name) /\ q[1] = p[j + 1] /\ q[Len(q)] = p[Len(p)]
      BY ONLY <2>5, RestOfPath
    <3> QED BY <3>1
  <2>7. q[1] \in Trees!Requested({n}) /\ Trees!Requested({n}) \in SUBSET Name
    BY <2>2, <2>4, <2>6 DEF Trees!Requested, Arcs, IsIndex
  <2>8. Leads(Trees!Requested({n}), n, R, Name)
    BY <2>6, <2>7 DEF Leads
  <2>9. n \in Trees!Reached(Trees!Requested({n}))
    BY <2>7, <2>8, ReachedIsLed
  <2> QED BY <1>7, <2>1, <2>9
<1>14. ASSUME ~cut, NEW n \in reached, n \in Trees!Reached(Trees!Requested({n}))
       PROVE  \E i \in issues : i[1] = "cycle"
  <2>1. PICK p : IsPath(p, R, Name) /\ p[1] = top /\ p[Len(p)] = n
    BY <1>6 DEF Leads
  <2>2. \A b \in Trees!Requested({n}) : <<n, b>> \in R /\ b \in Name
    <3>1. n \in Name
      BY <2>1 DEF IsPath
    <3> QED BY <3>1 DEF Trees!Requested, Arcs, IsIndex
  <2>3. PICK q : IsPath(q, R, Name) /\ q[1] \in Trees!Requested({n}) /\ q[Len(q)] = n
    <3>1. Trees!Requested({n}) \in SUBSET Name
      BY <2>2
    <3>2. Leads(Trees!Requested({n}), n, R, Name)
      BY <1>14, <3>1, ReachedIsLed
    <3> QED BY <3>2 DEF Leads
  <2>4. PICK r : /\ IsPath(r, R, Name) /\ Len(r) = Len(p) + Len(q) /\ r[1] = p[1]
                 /\ r[Len(p)] = p[Len(p)] /\ r[Len(r)] = q[Len(q)]
    <3>1. <<p[Len(p)], q[1]>> \in R
      BY <2>1, <2>2, <2>3
    <3>2. IsPath(p, R, Name)
      BY <2>1
    <3>3. IsPath(q, R, Name)
      BY <2>3
    <3> HIDE DEF R
    <3> QED BY ONLY <3>1, <3>2, <3>3, PathAfterPath
  <2> DEFINE Again == {m \in 1..Len(r) : \E j \in 1..m - 1 : r[j] = r[m]}
  <2>5. Len(p) \in Nat /\ Len(q) \in Nat /\ Len(r) \in Nat /\ Len(p) > 0 /\ Len(q) > 0
    BY <2>1, <2>3, <2>4 DEF IsPath
  <2>6. Again # {} /\ Again \in SUBSET Nat
    <3>1. Len(r) \in 1..Len(r) /\ Len(p) \in 1..Len(r) - 1
      BY <2>4, <2>5
    <3>2. Len(r) \in Again
      BY <2>1, <2>3, <2>4, <3>1
    <3> QED BY <2>5, <3>2
  <2>7. PICK m \in Again : \A k \in Again : m <= k
    BY <2>6, HasLeast
  <2>8. PICK j \in 1..m - 1 : r[j] = r[m]
    OBVIOUS
  <2>9. m \in 1..Len(r) /\ 1 \in 1..Len(r) /\ 1 <= m /\ m \in Nat
    BY <2>5
  <2>10. PICK s : /\ IsPath(s, R, Name) /\ s[1] = r[1] /\ s[Len(s)] = r[m] /\ Len(s) = m
                  /\ \A k \in 1..m : s[k] = r[k]
    <3>1. IsPath(r, R, Name) /\ m \in 1..Len(r)
      BY <2>4, <2>9
    <3> HIDE DEF R, Again
    <3> QED BY ONLY <3>1, BeginningOfPath
  <2> HIDE DEF Again
  <2>11. Len(s) = m /\ \A k \in 1..m : s[k] = r[k]
    BY <2>10
  <2>12. NoneTwice(s, m - 1)
    <3>1. ASSUME NEW a \in 1..m - 1, NEW b \in 1..m - 1, s[a] = s[b], a < b PROVE FALSE
      <4>1. a \in 1..m /\ b \in 1..m /\ a \in 1..b - 1 /\ b \in 1..Len(r) /\ b < m
        BY <2>5, <2>9, <3>1
      <4>2. b \in Again
        BY <2>11, <3>1, <4>1 DEF Again
      <4> QED BY <2>7, <2>9, <4>1, <4>2
    <3> SUFFICES ASSUME NEW a \in 1..m - 1, NEW b \in 1..m - 1, s[a] = s[b], a # b PROVE FALSE
      BY DEF NoneTwice
    <3>2. a < b \/ b < a
      BY <2>9
    <3> QED BY <3>1, <3>2
  <2>13. Walked(s)
    BY <1>11, <1>14, <2>1, <2>4, <2>10, <2>11, <2>12
  <2>14. IsOn(s, Len(s)) /\ s[Len(s)] \in DOMAIN registry
    <3>1. j \in 1..m /\ j \in 1..Len(r) - 1
      BY <2>5, <2>9
    <3>2. m \in 1..m
      BY <2>9
    <3>3. s[j] = s[m]
      BY <2>8, <2>11, <3>1, <3>2
    <3>4. <<r[j], r[j + 1]>> \in R
      BY <2>4, <3>1 DEF IsPath
    <3>5. r[j] \in DOMAIN registry
      BY <3>4 DEF Arcs
    <3> QED BY <2>8, <2>11, <3>2, <3>3, <3>5 DEF IsOn
  <2> DEFINE i == <<"cycle", s[Len(s)]>>
  <2>15. i \in Node(s).issues /\ i[1] = "cycle"
    BY <2>14 DEF TreeNode, Trees!Leaf
  <2> HIDE DEF i, Node
  <2> QED BY <1>3, <2>13, <2>15
<1>15. ASSUME NEW i \in issues, i[1] = "missing" PROVE i[2] \in reached \ DOMAIN registry
  <2>1. PICK p : Walked(p) /\ i \in Node(p).issues
    BY <1>3
  <2>2. i[2] = p[Len(p)] /\ p[Len(p)] \notin DOMAIN registry
    BY <1>15, <2>1, IssuesOf
  <2> QED BY <1>7, <2>1, <2>2
<1>16. ASSUME ~cut, NEW b \in reached \ DOMAIN registry
       PROVE  \E i \in issues : i[1] = "missing" /\ i[2] = b
  <2>1. PICK p : Walked(p) /\ p[Len(p)] = b
    BY <1>12, <1>16
  <2> DEFINE i == <<"missing", b>>
  <2>2. i \in Node(p).issues /\ i[1] = "missing" /\ i[2] = b
    BY <2>1 DEF TreeNode, Trees!Leaf
  <2> HIDE DEF i, Node
  <2> QED BY <1>3, <2>1, <2>2
<1>17. ASSUME NEW i \in issues, i[1] = "version_mismatch"
       PROVE  i[2] \in DOMAIN registry /\ \E a \in reached \intersect DOMAIN registry : Wrong(a, i[2])
  <2>1. PICK p : Walked(p) /\ i \in Node(p).issues
    BY <1>3
  <2> DEFINE a == p[Len(p)]
  <2>2. /\ a \in DOMAIN registry
        /\ \E r \in registry[a].requests :
             i[2] = r.name /\ r.name \in DOMAIN registry /\ r.version \notin {"any", registry[r.name].version}
    BY <1>17, <2>1, IssuesOf
  <2>3. a \in reached
    BY <1>7, <2>1
  <2> HIDE DEF a
  <2>4. i[2] \in DOMAIN registry /\ Wrong(a, i[2])
    BY <2>2
  <2> QED BY <2>2, <2>3, <2>4
<1>18. ASSUME ~cut, NEW n \in DOMAIN registry, NEW a \in reached \intersect DOMAIN registry, Wrong(a, n)
       PROVE  \E i \in issues : i[1] = "version_mismatch" /\ i[2] = n
  <2>1. PICK p : Walked(p) /\ p[Len(p)] = a /\ NoneTwice(p, Len(p))
    BY <1>12, <1>18
  <2>2. Len(p) \in Nat /\ Len(p) > 0
    BY <1>4, <2>1
  <2>3. ~IsOn(p, Len(p))
    <3>1. \A k \in 1..Len(p) - 1 : k \in 1..Len(p) /\ Len(p) \in 1..Len(p) /\ k # Len(p)
      BY <2>2
    <3> QED BY <2>1, <3>1 DEF IsOn, NoneTwice
  <2>4. ~(Len(p) > depth)
    <3> SUFFICES ASSUME Len(p) > depth PROVE FALSE
      OBVIOUS
    <3>1. Node(p) = Trees!Leaf(p, "max_depth", p[Len(p)])
      BY <2>1, <2>3 DEF TreeNode
    <3>2. IsCut(registry, depth, top)
      BY <2>1, <3>1 DEF IsCut
    <3> QED BY <1>8, <1>18, <3>2
  <2>5. Node(p).issues = Mismatches(registry, a)
    BY <2>1, <2>3, <2>4 DEF TreeNode
  <2> DEFINE i == <<"version_mismatch", n>>
  <2>6. i \in Mismatches(registry, a)
    BY <1>18 DEF Mismatches
  <2>7. i[1] = "version_mismatch" /\ i[2] = n
    OBVIOUS
  <2> HIDE DEF i, Node
  <2> QED BY <1>3, <2>1, <2>5, <2>6, <2>7
<1>19. Trees!Cardinality(Name) = Cardinality(Name)
  BY Zenon DEF Trees!Cardinality, Cardinality
<1> HIDE DEF cut, reached, R, Walked, Node
<1>20. ASSUME ~cut
       PROVE  (\E i \in issues : i[1] = "cycle") <=> \E n \in reached : n \in Trees!Reached(Trees!Requested({n}))
  BY <1>13, <1>14, <1>20
<1>21. ASSUME ~cut
       PROVE  {i[2] : i \in {j \in issues : j[1] = "missing"}} = reached \ DOMAIN registry
  <2>1. \A b \in {i[2] : i \in {j \in issues : j[1] = "missing"}} : b \in reached \ DOMAIN registry
    BY <1>15
  <2>2. \A b \in reached \ DOMAIN registry : b \in {i[2] : i \in {j \in issues : j[1] = "missing"}}
    BY <1>16, <1>21
  <2> QED BY <2>1, <2>2
<1>22. ASSUME ~cut
       PROVE  {i[2] : i \in {j \in issues : j[1] = "version_mismatch"}} =
                {n \in DOMAIN registry : \E a \in reached \intersect DOMAIN registry : Wrong(a, n)}
  <2> HIDE DEF Wrong
  <2>1. \A b \in {i[2] : i \in {j \in issues : j[1] = "version_mismatch"}} :
          b \in DOMAIN registry /\ \E a \in reached \intersect DOMAIN registry : Wrong(a, b)
    BY <1>17
  <2>2. \A n \in DOMAIN registry : (\E a \in reached \intersect DOMAIN registry : Wrong(a, n)) =>
          n \in {i[2] : i \in {j \in issues : j[1] = "version_mismatch"}}
    BY <1>18, <1>22
  <2> QED BY <2>1, <2>2
<1>23. resolved.root = top /\ resolved.maxDepth = depth
  OBVIOUS
<1> QED BY <1>10, <1>19, <1>20, <1>21, <1>22, <1>23
        DEF Trees!TreeTellsGraph, cut, reached, issues, nodes

\* A tree that was resolved is the walk of the agents that are listed.
TreeInv ==
  \/ registry = <<>> /\ resolved = Trees!NoTree
  \/ /\ registry \in Trees!Agents
     /\ \/ resolved = Trees!NoTree
        \/ \E top \in Name, depth \in MaxDepths :
             resolved = [root |-> top, maxDepth |-> depth,
                         nodes |-> IF top \notin DOMAIN registry THEN {}
                                   ELSE Trees!WalkNode(top, registry, depth)]

\* Every dependency tree tells the truth about the graph of the agents: with
\* room for all names none of it is cut off, and unless it says that something
\* was, it tells of a cycle, of the names nobody listed and of the versions that
\* are not there exactly if the root leads to them, by whatever way.
THEOREM TreesTell == EnginesSpec => []TreeTellsGraph
<1>1. EnginesInit => TreeInv
  BY DEF EnginesInit, Trees!TreeInit, TreeInv
<1>2. TreeInv /\ [EnginesNext]_enginesVars => TreeInv'
  <2> SUFFICES ASSUME TreeInv, [EnginesNext]_enginesVars PROVE TreeInv'
    OBVIOUS
  <2>1. CASE UNCHANGED <<registry, resolved>>
    BY <2>1 DEF TreeInv
  <2>2. ASSUME NEW listed \in Trees!Agents, Trees!ListAgentsForTree(listed) PROVE TreeInv'
    <3>1. registry = <<>> /\ registry' \in Trees!Agents /\ UNCHANGED resolved
      BY <2>2 DEF Trees!ListAgentsForTree
    <3>2. \A s \in SUBSET Name : \A map \in [s -> [version : {"1"}, requests : RequestSets]] :
            s # {} => map # <<>>
      OBVIOUS
    <3>3. <<>> \notin Trees!Agents
      BY <3>2 DEF Trees!Agents
    <3>4. resolved = Trees!NoTree
      BY <3>1, <3>3 DEF TreeInv
    <3> QED BY <3>1, <3>4 DEF TreeInv
  <2>3. ASSUME NEW top \in Name, NEW depth \in MaxDepths, Trees!ResolveDependencyTree(top, depth)
        PROVE  TreeInv'
    <3>1. /\ registry # <<>> /\ UNCHANGED registry
          /\ resolved' = [root |-> top, maxDepth |-> depth,
                          nodes |-> IF top \notin DOMAIN registry THEN {}
                                    ELSE Trees!WalkNode(top, registry, depth)]
      BY <2>3 DEF Trees!ResolveDependencyTree, Trees!BuildAgentIndex
    <3>2. registry \in Trees!Agents
      BY <3>1 DEF TreeInv
    <3> QED BY <3>1, <3>2 DEF TreeInv
  <2>4. UNCHANGED <<registry, resolved>> \/ Trees!TreeNext
    BY DEF EnginesNext, enginesVars, trees, AgentsPart, RemotesPart, TreesPart, PromptsPart,
           ContextPart, GraphPart, VaultPart, DocsPart
  <2> QED BY <2>1, <2>2, <2>3, <2>4 DEF Trees!TreeNext
<1>3. TreeInv => TreeTellsGraph
  <2> SUFFICES ASSUME TreeInv, resolved.nodes # {} PROVE Trees!TreeTellsGraph
    BY DEF TreeTellsGraph, Trees!TreeTellsGraph
  <2>1. resolved # Trees!NoTree
    BY DEF Trees!NoTree
  <2>2. registry \in Trees!Agents
    BY <2>1 DEF TreeInv
  <2>3. PICK top \in Name, depth \in MaxDepths :
          resolved = [root |-> top, maxDepth |-> depth,
                      nodes |-> IF top \notin DOMAIN registry THEN {}
                                ELSE Trees!WalkNode(top, registry, depth)]
    BY <2>1 DEF TreeInv
  <2>4. top \in DOMAIN registry
    BY <2>3
  <2>5. IsIndex(registry)
    <3>1. PICK s \in SUBSET Name : registry \in [s -> [version : {"1"}, requests : RequestSets]]
      BY <2>2 DEF Trees!Agents
    <3> QED BY <3>1, TreeAssumption DEF IsIndex
  <2>6. depth \in Nat
    BY TreeAssumption
  <2>7. resolved = [root |-> top, maxDepth |-> depth, nodes |-> Trees!WalkNode(top, registry, depth)]
    BY <2>3, <2>4
  <2> QED BY <2>4, <2>5, <2>6, <2>7, TreeTruth
<1> QED BY <1>1, <1>2, <1>3, PTL DEF EnginesSpec
-----------------------------------------------------------------------------
(* The vault.                                                              *)

\* A name that is given is not in use: of as many numbers as there are names,
\* and one more, one makes a name that is free.
LEMMA FreeNameIsFree ==
  ASSUME NEW used \in SUBSET Seq(STRING), IsFiniteSet(used), Cardinality(used) <= MaxNodes,
         NEW base \in Seq(STRING)
  PROVE  Vault!FreeName(used, base) \in Seq(STRING) \ used
<1> DEFINE c == Cardinality(used)
           free == {i \in 2..c + 2 : Append(base, Numeral[i]) \notin used}
           p == [k \in 1..c + 1 |-> Append(base, Numeral[k + 1])]
<1>1. c \in Nat /\ c <= MaxNodes /\ MaxNodes \in Nat
  BY FS_CardinalityType, GraphAssumption
<1>2. Vault!Cardinality(used) = c
  BY Zenon DEF Vault!Cardinality, Cardinality
<1> HIDE DEF c
<1>3. \A i \in 2..c + 2 : i \in 2..MaxNodes + 2
  BY <1>1
<1>4. /\ \A i \in 2..c + 2 : Numeral[i] \in STRING
      /\ \A i, j \in 2..c + 2 : Numeral[i] = Numeral[j] => i = j
  BY <1>3, VaultAssumption DEF IsInjective
<1>5. \A i \in 2..c + 2 : Append(base, Numeral[i]) \in Seq(STRING)
  BY <1>4
<1>6. \A i, j \in 2..c + 2 : Append(base, Numeral[i]) = Append(base, Numeral[j]) => i = j
  <2> SUFFICES ASSUME NEW i \in 2..c + 2, NEW j \in 2..c + 2,
                      Append(base, Numeral[i]) = Append(base, Numeral[j])
               PROVE  Numeral[i] = Numeral[j]
    BY <1>4
  <2>1. Append(base, Numeral[i])[Len(base) + 1] = Numeral[i]
    BY <1>4
  <2>2. Append(base, Numeral[j])[Len(base) + 1] = Numeral[j]
    BY <1>4
  <2> QED BY <2>1, <2>2
<1>7. free # {}
  <2> SUFFICES ASSUME free = {} PROVE FALSE
    OBVIOUS
  <2>1. \A k \in 1..c + 1 : k + 1 \in 2..c + 2
    BY <1>1
  <2>2. \A k \in 1..c + 1 : p[k] \in used
    BY <2>1
  <2>3. p \in Seq(used) /\ Len(p) = c + 1
    BY <1>1, <2>2
  <2>4. NoneTwice(p, Len(p))
    <3> SUFFICES ASSUME NEW i \in 1..c + 1, NEW j \in 1..c + 1, p[i] = p[j] PROVE i = j
      BY <2>3 DEF NoneTwice
    <3>1. i + 1 = j + 1
      BY <1>6, <2>1
    <3> QED BY <1>1, <3>1
  <2> HIDE DEF p
  <2>5. Len(p) <= Cardinality(used)
    BY <2>3, <2>4, DifferBound
  <2> QED BY <1>1, <2>3, <2>5 DEF c
<1> DEFINE i == CHOOSE i \in free : \A j \in free : i <= j
<1>8. i \in free
  <2>1. free \in SUBSET Nat
    BY <1>1
  <2> HIDE DEF free
  <2>2. \E x \in free : \A y \in free : x <= y
    BY <1>7, <2>1, HasLeast
  <2> QED BY <2>2
<1>9. Vault!FreeName(used, base) = IF base \notin used THEN base ELSE Append(base, Numeral[i])
  BY <1>2 DEF Vault!FreeName
<1> HIDE DEF i
<1>10. i \in 2..c + 2 /\ Append(base, Numeral[i]) \notin used
  BY <1>8
<1> QED BY <1>5, <1>9, <1>10

\* Names given to some of the nodes, a different one to each.
NamesOf(ids) ==
  {given \in UNION {[some -> Seq(STRING)] : some \in SUBSET ids} :
     \A a, b \in DOMAIN given : given[a] = given[b] => a = b}

NameOneMore(given, id) ==
  [x \in DOMAIN given \union {id} |->
     IF x = id THEN Vault!FreeName({given[k] : k \in DOMAIN given}, Vault!NoteBasename(x))
     ELSE given[x]]

\* One more name is different too.
LEMMA NameGiven ==
  ASSUME NEW ids, IsFiniteSet(ids), Cardinality(ids) <= MaxNodes,
         NEW given \in NamesOf(ids), NEW id \in ids, Slug[id] \in Seq(STRING)
  PROVE  NameOneMore(given, id) \in NamesOf(ids) /\ DOMAIN NameOneMore(given, id) = DOMAIN given \union {id}
<1> DEFINE used == {given[k] : k \in DOMAIN given}
           some == DOMAIN given
           free == Vault!FreeName(used, Slug[id])
           more == NameOneMore(given, id)
<1>1. /\ some \in SUBSET ids /\ given \in [some -> Seq(STRING)]
      /\ \A a, b \in some : given[a] = given[b] => a = b
  BY DEF NamesOf
<1>2. IsFiniteSet(some) /\ Cardinality(some) <= Cardinality(ids)
  BY <1>1, FS_Subset
<1>3. used \in SUBSET Seq(STRING)
  BY <1>1
<1>4. given \in Surjection(some, used)
  BY <1>1 DEF Surjection
<1>5. IsFiniteSet(used) /\ Cardinality(used) <= Cardinality(some)
  BY <1>2, <1>4, FS_Surjection
<1>6. Cardinality(used) <= MaxNodes
  <2>1. /\ Cardinality(used) \in Nat /\ Cardinality(some) \in Nat /\ Cardinality(ids) \in Nat
        /\ MaxNodes \in Nat
    BY <1>2, <1>5, FS_CardinalityType, GraphAssumption
  <2> HIDE DEF used, some
  <2> QED BY <1>2, <1>5, <2>1
<1>7. free \in Seq(STRING) \ used
  <2> HIDE DEF used
  <2> QED BY <1>3, <1>5, <1>6, FreeNameIsFree
<1>8. more = [x \in some \union {id} |-> IF x = id THEN free ELSE given[x]]
  BY DEF NameOneMore, Vault!NoteBasename
<1> HIDE DEF free, more
<1>9. \A a \in some : given[a] \in used
  OBVIOUS
<1>10. more \in [some \union {id} -> Seq(STRING)] /\ some \union {id} \in SUBSET ids
  BY <1>1, <1>7, <1>8
<1>11. \A a, b \in DOMAIN more : more[a] = more[b] => a = b
  BY <1>1, <1>7, <1>8, <1>9
<1>12. more \in NamesOf(ids) /\ DOMAIN more = some \union {id}
  BY <1>10, <1>11 DEF NamesOf
<1> QED BY <1>12 DEF more

IdsOf(list, places) == {list[i].id : i \in places}

\* Every node of a list gets a name of its own.
LEMMA AllNamed ==
  ASSUME NEW list, NEW n \in Nat, DOMAIN list = 1..n, n <= MaxNodes,
         \A i \in 1..n : Slug[list[i].id] \in Seq(STRING)
  PROVE  /\ Vault!BasenameById(list) \in NamesOf(IdsOf(list, 1..n))
         /\ DOMAIN Vault!BasenameById(list) = IdsOf(list, 1..n)
<1> DEFINE ids == IdsOf(list, 1..n)
           X == NamesOf(ids)
           Op(h, i) == NameOneMore(h, list[i].id)
           take == [p \in (1..n) \X X |-> Op(p[2], p[1])]
           IsIt(it) == it = [s \in SUBSET (1..n) |->
                              IF s = {} THEN <<>> ELSE Op(it[s \ {Greatest(s)}], Greatest(s))]
           it == CHOOSE it : IsIt(it)
<1>1. IsFiniteSet(ids) /\ Cardinality(ids) <= MaxNodes
  <2> DEFINE f == [i \in 1..n |-> list[i].id]
  <2>1. f \in Surjection(1..n, ids)
    BY DEF Surjection, IdsOf
  <2>2. IsFiniteSet(1..n) /\ Cardinality(1..n) = n
    BY FS_Interval
  <2> HIDE DEF f, ids
  <2>3. IsFiniteSet(ids) /\ Cardinality(ids) <= n
    BY <2>1, <2>2, FS_Surjection
  <2>4. Cardinality(ids) \in Nat /\ MaxNodes \in Nat
    BY <2>3, FS_CardinalityType, GraphAssumption
  <2> QED BY <2>3, <2>4
<1>2. ASSUME NEW h \in X, NEW i \in 1..n
      PROVE  Op(h, i) \in X /\ DOMAIN Op(h, i) = DOMAIN h \union {list[i].id}
  <2> DEFINE id == list[i].id
  <2>1. id \in ids /\ Slug[id] \in Seq(STRING)
    BY DEF IdsOf
  <2> HIDE DEF ids, id
  <2>2. NameOneMore(h, id) \in X /\ DOMAIN NameOneMore(h, id) = DOMAIN h \union {id}
    <3>1. h \in NamesOf(ids)
      OBVIOUS
    <3>2. IsFiniteSet(ids) /\ Cardinality(ids) <= MaxNodes
      BY <1>1
    <3>3. id \in ids
      BY <2>1
    <3>4. Slug[id] \in Seq(STRING)
      BY <2>1
    <3> QED BY ONLY <3>1, <3>2, <3>3, <3>4, NameGiven, Zenon
  <2> QED BY <2>2 DEF id
<1>3. Vault!BasenameById(list) = it[1..n]
  BY DEF Vault!BasenameById, NameOneMore, Vault!FoldLeft, Vault!MapThenFoldSet, Vault!Max, Greatest
<1>4. <<>> \in X /\ DOMAIN <<>> = {}
  <2>1. <<>> \in [{} -> Seq(STRING)] /\ {} \in SUBSET ids
    OBVIOUS
  <2>2. DOMAIN <<>> = {}
    OBVIOUS
  <2>3. <<>> \in UNION {[some -> Seq(STRING)] : some \in SUBSET ids}
    BY <2>1
  <2> QED BY <2>2, <2>3 DEF NamesOf
<1> HIDE DEF Op, X
<1>5. take \in [(1..n) \X X -> X]
  BY <1>2
<1>6. PICK f : Folds(f, n, <<>>, take) /\ f \in [SUBSET (1..n) -> X]
  BY <1>4, <1>5, FoldThereIs
<1>7. IsIt(f)
  <2> SUFFICES ASSUME NEW s \in SUBSET (1..n), s # {}
               PROVE  take[<<Greatest(s), f[s \ {Greatest(s)}]>>] = Op(f[s \ {Greatest(s)}], Greatest(s))
    BY <1>6 DEF Folds
  <2>1. Greatest(s) \in 1..n
    BY GreatestOfFirst
  <2>2. f[s \ {Greatest(s)}] \in X
    BY <1>6
  <2> QED BY <2>1, <2>2
<1>8. IsIt(it)
  BY <1>7
<1> DEFINE Y == {q \in (SUBSET (1..n)) \X X : DOMAIN q[2] = IdsOf(list, q[1])}
           both == [s \in SUBSET (1..n) |-> <<s, it[s]>>]
<1>9. both[{}] \in Y
  BY <1>4, <1>8 DEF IdsOf
<1>10. ASSUME NEW s \in SUBSET (1..n), s # {}, both[s \ {Greatest(s)}] \in Y
       PROVE  both[s] \in Y
  <2> DEFINE k == Greatest(s)
             h == it[s \ {Greatest(s)}]
  <2>1. k \in 1..n /\ k \in s
    BY <1>10, GreatestOfFirst
  <2>2. it[s] = Op(h, k)
    BY <1>8, <1>10
  <2>3. both[s \ {k}] = <<s \ {k}, h>> /\ both[s \ {k}] \in Y
    BY <1>10
  <2>4. <<s \ {k}, h>> \in Y
    BY <2>3
  <2> HIDE DEF k, h, both
  <2>8. h \in X /\ DOMAIN h = IdsOf(list, s \ {k})
    BY <2>4
  <2>5. IdsOf(list, s) = IdsOf(list, s \ {k}) \union {list[k].id}
    BY <2>1 DEF IdsOf
  <2>6. it[s] \in X /\ DOMAIN it[s] = IdsOf(list, s)
    BY <1>2, <2>1, <2>2, <2>5, <2>8
  <2>7. <<s, it[s]>> \in Y
    <3> HIDE DEF it
    <3> QED BY <2>6
  <2> QED BY <2>7 DEF both
<1> HIDE DEF it, Y
<1>11. both[1..n] \in Y
  <2> HIDE DEF both
  <2> QED BY <1>9, <1>10, FoldKeeps
<1>12. it[1..n] \in X /\ DOMAIN it[1..n] = ids
  BY <1>11 DEF Y
<1> QED BY <1>3, <1>12 DEF X

\* A graph whose nodes an export can name.
Nameable(g) ==
  /\ g.nodes \in Seq(NodeText) /\ Len(g.nodes) <= MaxNodes
  /\ \A i \in 1..Len(g.nodes) : Slug[g.nodes[i].id] \in Seq(STRING)

LEMMA FilteredNameable ==
  ASSUME NEW g \in Vault!Graphs, NEW scope
  PROVE  Nameable(Vault!FilterGraph(g, scope))
<1>1. PICK source \in Layouts : g = Vault!BuildKnowledgeGraph(source)
  BY DEF Vault!Graphs
<1>2. PICK whole \in GraphsWhole : g = Vault!Cap(whole)
  BY <1>1, GraphIsWhole
<1> DEFINE n == Len(g.nodes)
           keep == {i \in DOMAIN g.nodes : g.nodes[i].id[1] = scope}
           drawn == At(g.nodes, keep)
<1>3. g.nodes \in Seq(NodeText) /\ n \in Nat /\ DOMAIN g.nodes = 1..n
  <2>1. whole.nodes \in Seq(NodeText)
    BY DEF GraphsWhole, GraphText
  <2>2. g.nodes = Vault!FirstOf(MaxNodes, whole.nodes)
    BY <1>2 DEF Vault!Cap
  <2>3. g.nodes \in Seq(NodeText)
    BY <2>1, <2>2, FirstOfList, GraphAssumption
  <2> QED BY <2>3
<1>4. n <= MaxNodes
  BY <1>1, GraphBuilt DEF Vault!HangsTogether
<1>5. \A i \in 1..n : Slug[g.nodes[i].id] \in Seq(STRING)
  BY <1>1, <1>3, VaultAssumption DEF ToSet
<1>6. CASE scope = "none"
  <2>1. Vault!FilterGraph(g, scope) = g
    BY <1>6 DEF Vault!FilterGraph
  <2> QED BY <1>3, <1>4, <1>5, <2>1 DEF Nameable
<1>7. CASE scope # "none"
  <2>1. Vault!FilterGraph(g, scope).nodes = Vault!At(g.nodes, keep)
    <3> DEFINE shown == {g.nodes[i].id : i \in keep}
               between == {i \in DOMAIN g.edges : {g.edges[i][1], g.edges[i][2]} \subseteq shown}
               edges == Vault!At(g.edges, between)
               nodes == Vault!At(g.nodes, keep)
    <3>1. Vault!FilterGraph(g, scope) = [g EXCEPT !.nodes = nodes, !.edges = edges]
      BY <1>7 DEF Vault!FilterGraph
    <3>2. DOMAIN g = {"nodes", "edges", "signals"}
      BY <1>2 DEF Vault!Cap
    <3> HIDE DEF nodes, edges
    <3>3. Vault!FilterGraph(g, scope).nodes = nodes
      BY <3>1, <3>2
    <3> QED BY <3>3 DEF nodes
  <2>2. Vault!At(g.nodes, keep) = drawn
    BY Zenon DEF Vault!At, Vault!Rank, Vault!Cardinality, At, Rank, Cardinality
  <2>3. keep \in SUBSET (1..n) /\ \A i \in keep : g.nodes[i] \in NodeText
    BY <1>3
  <2>4. drawn \in Seq(NodeText) /\ Draws(drawn, g.nodes, keep)
    <3> HIDE DEF n, keep
    <3> QED BY <1>3, <2>3, AtElements
  <2>5. Len(drawn) \in Nat /\ Len(drawn) <= n
    <3> HIDE DEF n, keep
    <3> QED BY <1>3, <2>3, AtLength
  <2> HIDE DEF drawn
  <2>6. \A i \in 1..Len(drawn) : Slug[drawn[i].id] \in Seq(STRING)
    BY <1>3, <1>5, <2>3, <2>4 DEF Draws
  <2>7. Len(drawn) <= MaxNodes
    BY <1>3, <1>4, <2>5, GraphAssumption
  <2> QED BY <2>1, <2>2, <2>4, <2>6, <2>7 DEF Nameable
<1> QED BY <1>6, <1>7

\* A note of a node, with links to nodes that have a name, by that name.
NotesOf(given, id) ==
  {[node |-> id, links |-> [to \in some |-> given[to]]] : some \in SUBSET DOMAIN given}

\* Notes still to be written.
ToWrite(given) == UNION {[file : {given[id]}, note : NotesOf(given, id)] : id \in DOMAIN given}

Planned(list, id) == \E j \in 1..Len(list) : list[j].note.node = id
Written(given, id, there) == given[id] \in DOMAIN there /\ there[given[id]] \in NotesOf(given, id)

\* No other export writes, and every node that has a name has a note, or one is
\* still to be written.
AloneTells(e) ==
  /\ \A a, b \in DOMAIN names[e] : names[e][a] = names[e][b] => a = b
  /\ \A other \in Exporter : doing[other] = "writing" => other = e
  /\ \A id \in DOMAIN names[e] : Planned(plan[e], id) \/ Written(names[e], id, vault)
  /\ doing[e] = "exported" => plan[e] = <<>> /\ index = names[e]

VaultTypeOK ==
  /\ repository \in Vault!Graphs
  /\ DOMAIN names = Exporter /\ DOMAIN plan = Exporter
  /\ doing \in [Exporter -> {"new", "rejected", "writing", "exported", "brokenOff"}]
  /\ alone \in [Exporter -> BOOLEAN]
  /\ \A e \in Exporter : plan[e] \in Seq(ToWrite(names[e]))

VaultInv ==
  /\ VaultTypeOK
  /\ \A e \in Exporter : alone[e] /\ doing[e] \in {"writing", "exported"} => AloneTells(e)

LEMMA ToWriteIs ==
  ASSUME NEW given, NEW next \in ToWrite(given)
  PROVE  /\ next.note.node \in DOMAIN given /\ next.file = given[next.note.node]
         /\ next.note \in NotesOf(given, next.note.node)
<1>1. PICK id \in DOMAIN given : next.file = given[id] /\ next.note \in NotesOf(given, id)
  BY DEF ToWrite
<1>2. next.note.node = id
  BY <1>1 DEF NotesOf
<1> QED BY <1>1, <1>2

\* What the invariant is for.
LEMMA VaultInvTells == VaultInv => Vault!VaultTells
<1> SUFFICES ASSUME VaultInv, NEW e \in Exporter, doing[e] = "exported", alone[e],
                    NEW id \in DOMAIN index
             PROVE  /\ index = names[e]
                    /\ index[id] \in DOMAIN vault
                    /\ vault[index[id]].node = id
                    /\ \A to \in DOMAIN vault[index[id]].links :
                         vault[vault[index[id]].links[to]].node = to
  <2>1. ASSUME VaultInv, NEW e \in Exporter, doing[e] = "exported", alone[e] PROVE index = names[e]
    BY <2>1 DEF VaultInv, AloneTells
  <2> QED BY <2>1 DEF Vault!VaultTells
<1>1. AloneTells(e) /\ index = names[e] /\ plan[e] = <<>>
  BY DEF VaultInv, AloneTells
<1>2. \A to \in DOMAIN names[e] : Written(names[e], to, vault)
  BY <1>1 DEF AloneTells, Planned
<1>3. \A to \in DOMAIN names[e] : vault[names[e][to]].node = to
  BY <1>2 DEF Written, NotesOf
<1>4. PICK some \in SUBSET DOMAIN names[e] :
        vault[names[e][id]].links = [to \in some |-> names[e][to]]
  <2>1. vault[names[e][id]] \in NotesOf(names[e], id)
    BY <1>1, <1>2 DEF Written
  <2>2. PICK some \in SUBSET DOMAIN names[e] :
          vault[names[e][id]] = [node |-> id, links |-> [to \in some |-> names[e][to]]]
    BY <2>1 DEF NotesOf
  <2> QED BY <2>2
<1>5. \A to \in DOMAIN vault[names[e][id]].links :
        vault[names[e][id]].links[to] = names[e][to] /\ to \in DOMAIN names[e]
  BY <1>4
<1> QED BY <1>1, <1>2, <1>3, <1>5 DEF Written

LEMMA VaultBegins == Vault!VaultInit => VaultInv
<1> SUFFICES ASSUME Vault!VaultInit PROVE VaultInv
  OBVIOUS
<1>1. repository \in Vault!Graphs
  <2>1. Vault!Graphs # {}
    BY VaultAssumption DEF Vault!Graphs
  <2> QED BY <2>1 DEF Vault!VaultInit
<1>2. /\ DOMAIN names = Exporter /\ DOMAIN plan = Exporter
      /\ \A e \in Exporter : plan[e] = <<>> /\ doing[e] = "new"
      /\ doing \in [Exporter -> {"new"}] /\ alone \in [Exporter -> BOOLEAN]
  BY DEF Vault!VaultInit
<1>3. \A e \in Exporter : plan[e] \in Seq(ToWrite(names[e]))
  <2>1. \A S : <<>> \in Seq(S)
    OBVIOUS
  <2> QED BY <1>2, <2>1
<1>4. doing \in [Exporter -> {"new", "rejected", "writing", "exported", "brokenOff"}]
  BY <1>2
<1> QED BY <1>1, <1>2, <1>3, <1>4 DEF VaultInv, VaultTypeOK

\* What a call plans is what is to be written, and no more.
LEMMA PlanOfCall ==
  ASSUME NEW g, Nameable(g)
  PROVE  LET given == Vault!BasenameById(g.nodes)
             planned == [i \in DOMAIN g.nodes |->
                           [file |-> given[g.nodes[i].id],
                            note |-> Vault!NodeMarkdown(g.nodes[i], g.edges, given)]]
         IN  /\ \A a, b \in DOMAIN given : given[a] = given[b] => a = b
             /\ planned \in Seq(ToWrite(given))
             /\ \A id \in DOMAIN given : Planned(planned, id)
<1> DEFINE n == Len(g.nodes)
           given == Vault!BasenameById(g.nodes)
           planned == [i \in DOMAIN g.nodes |->
                         [file |-> given[g.nodes[i].id],
                          note |-> Vault!NodeMarkdown(g.nodes[i], g.edges, given)]]
<1>1. n \in Nat /\ DOMAIN g.nodes = 1..n /\ n <= MaxNodes
  BY DEF Nameable
<1>2. \A i \in 1..n : Slug[g.nodes[i].id] \in Seq(STRING)
  BY DEF Nameable
<1>3. given \in NamesOf(IdsOf(g.nodes, 1..n)) /\ DOMAIN given = IdsOf(g.nodes, 1..n)
  <2> DEFINE list == g.nodes
  <2>1. DOMAIN list = 1..n /\ \A i \in 1..n : Slug[list[i].id] \in Seq(STRING)
    BY <1>1, <1>2
  <2> HIDE DEF list, n
  <2>2. /\ Vault!BasenameById(list) \in NamesOf(IdsOf(list, 1..n))
        /\ DOMAIN Vault!BasenameById(list) = IdsOf(list, 1..n)
    BY <1>1, <2>1, AllNamed
  <2> QED BY <2>2 DEF list
<1> HIDE DEF given
<1>4. \A a, b \in DOMAIN given : given[a] = given[b] => a = b
  BY <1>3 DEF NamesOf
<1>5. ASSUME NEW i \in 1..n
      PROVE  /\ planned[i] \in ToWrite(given)
             /\ planned[i].note.node = g.nodes[i].id
  <2> DEFINE id == g.nodes[i].id
             near == {g.edges[k][2] : k \in {k \in DOMAIN g.edges : g.edges[k][1] = id}}
                     \union {g.edges[k][1] : k \in {k \in DOMAIN g.edges : g.edges[k][2] = id}}
             note == [node |-> id, links |-> [to \in near \intersect DOMAIN given |-> given[to]]]
  <2>1. planned[i] = [file |-> given[id], note |-> note]
    BY <1>1 DEF Vault!NodeMarkdown
  <2>2. id \in DOMAIN given
    BY <1>3 DEF IdsOf
  <2>3. note \in NotesOf(given, id)
    <3> HIDE DEF near
    <3> DEFINE some == near \intersect DOMAIN given
    <3>1. some \in SUBSET DOMAIN given
      OBVIOUS
    <3> HIDE DEF some
    <3>2. [node |-> id, links |-> [to \in some |-> given[to]]] \in NotesOf(given, id)
      BY <3>1 DEF NotesOf
    <3> QED BY <3>2 DEF some
  <2>4. note.node = id
    OBVIOUS
  <2> HIDE DEF note, planned
  <2>5. planned[i].note.node = id
    BY <2>1, <2>4
  <2>6. planned[i] \in ToWrite(given)
    <3> HIDE DEF id
    <3>1. [file |-> given[id], note |-> note] \in [file : {given[id]}, note : NotesOf(given, id)]
      BY <2>3
    <3> QED BY <2>1, <2>2, <3>1 DEF ToWrite
  <2> QED BY <2>5, <2>6
<1>6. planned \in Seq(ToWrite(given)) /\ Len(planned) = n
  <2> DEFINE S == ToWrite(given)
  <2>1. DOMAIN planned = 1..n /\ planned = [i \in 1..n |-> planned[i]]
    BY <1>1
  <2>2. \A i \in 1..n : planned[i] \in S
    BY <1>5
  <2> HIDE DEF S, planned, n
  <2>3. planned \in [1..n -> S]
    BY <2>1, <2>2
  <2>4. planned \in Seq(S) /\ Len(planned) = n
    BY <1>1, <2>3
  <2> QED BY <2>4 DEF S
<1>7. \A id \in DOMAIN given : Planned(planned, id)
  <2> SUFFICES ASSUME NEW id \in DOMAIN given PROVE Planned(planned, id)
    OBVIOUS
  <2>1. PICK i \in 1..n : id = g.nodes[i].id
    BY <1>3 DEF IdsOf
  <2> HIDE DEF planned
  <2> QED BY <1>5, <1>6, <2>1 DEF Planned
<1> QED BY <1>4, <1>6, <1>7 DEF given

\* A call that is turned down, or that begins: then no other goes on undisturbed,
\* and it does so itself if no other writes.
LEMMA BeginStep ==
  ASSUME VaultInv, NEW e \in Exporter, NEW outDir, NEW scope, NEW otherRun \in BOOLEAN,
         Vault!BeginExport(e, outDir, scope, otherRun)
  PROVE  VaultInv'
<1>1. /\ doing[e] = "new" /\ UNCHANGED <<repository, vault, index>>
      /\ repository \in Vault!Graphs
      /\ DOMAIN names = Exporter /\ DOMAIN plan = Exporter
      /\ doing \in [Exporter -> {"new", "rejected", "writing", "exported", "brokenOff"}]
      /\ alone \in [Exporter -> BOOLEAN]
      /\ \A x \in Exporter : plan[x] \in Seq(ToWrite(names[x]))
      /\ \A x \in Exporter : alone[x] /\ doing[x] \in {"writing", "exported"} => AloneTells(x)
  BY DEF Vault!BeginExport, VaultInv, VaultTypeOK
<1>2. CASE doing' = [doing EXCEPT ![e] = "rejected"] /\ UNCHANGED <<plan, names, alone>>
  <2>1. VaultTypeOK'
    BY <1>1, <1>2 DEF VaultTypeOK
  <2>2. ASSUME NEW x \in Exporter, alone'[x], doing'[x] \in {"writing", "exported"}
        PROVE  AloneTells(x)'
    <3>1. alone[x] /\ doing'[x] = doing[x]
      BY <1>1, <1>2, <2>2
    <3>2. AloneTells(x)
      BY <1>1, <2>2, <3>1
    <3>3. \A other \in Exporter : doing'[other] = "writing" => doing[other] = "writing"
      BY <1>1, <1>2
    <3> QED BY <1>1, <1>2, <3>1, <3>2, <3>3 DEF AloneTells
  <2> QED BY <2>1, <2>2 DEF VaultInv
<1> DEFINE g == Vault!FilterGraph(repository, scope)
           given == Vault!BasenameById(g.nodes)
           planned == [i \in DOMAIN g.nodes |->
                         [file |-> given[g.nodes[i].id],
                          note |-> Vault!NodeMarkdown(g.nodes[i], g.edges, given)]]
<1>3. ASSUME names' = [names EXCEPT ![e] = given],
             plan' = [plan EXCEPT ![e] = planned],
             doing' = [doing EXCEPT ![e] = "writing"],
             alone' = [x \in Exporter |->
                         IF x = e THEN \A y \in Exporter : doing[y] # "writing"
                         ELSE alone[x] /\ doing[x] = "new"]
      PROVE  VaultInv'
  <2>1. /\ \A a, b \in DOMAIN given : given[a] = given[b] => a = b
        /\ planned \in Seq(ToWrite(given))
        /\ \A id \in DOMAIN given : Planned(planned, id)
    <3>1. Nameable(g)
      BY <1>1, FilteredNameable
    <3> HIDE DEF g
    <3> QED BY <3>1, PlanOfCall
  <2> HIDE DEF g, given, planned
  <2>2. plan'[e] = planned
    BY <1>1, <1>3
  <2>3. names'[e] = given /\ DOMAIN names' = Exporter /\ DOMAIN plan' = Exporter
    BY <1>1, <1>3
  <2>4. /\ \A x \in Exporter : x # e => names'[x] = names[x] /\ plan'[x] = plan[x] /\ doing'[x] = doing[x]
        /\ doing'[e] = "writing"
        /\ doing' \in [Exporter -> {"new", "rejected", "writing", "exported", "brokenOff"}]
    BY <1>1, <1>3
  <2>5. alone' \in [Exporter -> BOOLEAN]
    BY <1>3
  <2>6. \A x \in Exporter : plan'[x] \in Seq(ToWrite(names'[x]))
    <3> SUFFICES ASSUME NEW x \in Exporter PROVE plan'[x] \in Seq(ToWrite(names'[x]))
      OBVIOUS
    <3>1. CASE x = e
      BY <2>1, <2>2, <2>3, <3>1
    <3>2. CASE x # e
      BY <1>1, <2>4, <3>2
    <3> QED BY <3>1, <3>2
  <2>7. VaultTypeOK'
    BY <1>1, <2>3, <2>4, <2>5, <2>6 DEF VaultTypeOK
  <2>8. ASSUME NEW x \in Exporter, alone'[x], doing'[x] \in {"writing", "exported"}
        PROVE  AloneTells(x)'
    <3>1. x = e
      <4> SUFFICES ASSUME x # e PROVE FALSE
        OBVIOUS
      <4>1. doing[x] = "new"
        BY <1>3, <2>8
      <4> QED BY <2>4, <2>8, <4>1
    <3>2. \A y \in Exporter : doing[y] # "writing"
      BY <1>3, <2>8, <3>1
    <3>3. \A other \in Exporter : doing'[other] = "writing" => other = e
      BY <2>4, <3>2
    <3> QED BY <2>1, <2>2, <2>3, <2>4, <3>1, <3>3 DEF AloneTells
  <2> QED BY <2>7, <2>8 DEF VaultInv
<1>4. CASE ~Vault!SafeOutDir(outDir) \/ otherRun
  BY <1>2, <1>4 DEF Vault!BeginExport, Vault!Go
<1>5. CASE ~(~Vault!SafeOutDir(outDir) \/ otherRun)
  BY <1>3, <1>5 DEF Vault!BeginExport, Vault!Go
<1> QED BY <1>4, <1>5

\* What is left of a list without its first.
LEMMA HeadAndTail ==
  ASSUME NEW S, NEW list \in Seq(S), list # <<>>
  PROVE  /\ Head(list) \in S /\ Tail(list) \in Seq(S)
         /\ \A j \in 1..Len(list) : \/ list[j] = Head(list)
                                    \/ \E k \in 1..Len(Tail(list)) : Tail(list)[k] = list[j]
<1>1. Head(list) \in S /\ Tail(list) \in Seq(S) /\ Head(list) = list[1]
  OBVIOUS
<1>2. /\ Len(list) \in Nat /\ Len(Tail(list)) = Len(list) - 1
      /\ \A k \in 1..Len(list) - 1 : Tail(list)[k] = list[k + 1]
  OBVIOUS
<1>3. ASSUME NEW j \in 1..Len(list), j # 1
      PROVE  \E k \in 1..Len(Tail(list)) : Tail(list)[k] = list[j]
  <2>1. j - 1 \in 1..Len(Tail(list)) /\ j - 1 \in 1..Len(list) - 1 /\ (j - 1) + 1 = j
    BY <1>2, <1>3
  <2> QED BY <1>2, <2>1
<1> QED BY <1>1, <1>3

\* A note is written over none that is meant: no two nodes have one name.
LEMMA WriteNoteStep ==
  ASSUME VaultInv, NEW e \in Exporter, Vault!WriteNote(e)
  PROVE  VaultInv'
<1> DEFINE next == Head(plan[e])
           S == ToWrite(names[e])
<1>1. /\ doing[e] = "writing" /\ plan[e] # <<>>
      /\ UNCHANGED <<repository, index, names, doing, alone>>
      /\ vault' = [f \in DOMAIN vault \union {next.file} |->
                     IF f = next.file THEN next.note ELSE vault[f]]
      /\ plan' = [plan EXCEPT ![e] = Tail(plan[e])]
  BY DEF Vault!WriteNote
<1>2. /\ repository \in Vault!Graphs
      /\ DOMAIN names = Exporter /\ DOMAIN plan = Exporter
      /\ doing \in [Exporter -> {"new", "rejected", "writing", "exported", "brokenOff"}]
      /\ alone \in [Exporter -> BOOLEAN]
      /\ \A x \in Exporter : plan[x] \in Seq(ToWrite(names[x]))
      /\ \A x \in Exporter : alone[x] /\ doing[x] \in {"writing", "exported"} => AloneTells(x)
  BY DEF VaultInv, VaultTypeOK
<1>3. plan[e] \in Seq(S)
  BY <1>2
<1> HIDE DEF S
<1>4. /\ next \in S /\ Tail(plan[e]) \in Seq(S)
      /\ \A j \in 1..Len(plan[e]) : \/ plan[e][j] = next
                                    \/ \E k \in 1..Len(Tail(plan[e])) : Tail(plan[e])[k] = plan[e][j]
  BY <1>1, <1>3, HeadAndTail
<1> HIDE DEF next
<1>5. /\ next.note.node \in DOMAIN names[e] /\ next.file = names[e][next.note.node]
      /\ next.note \in NotesOf(names[e], next.note.node)
  BY <1>4, ToWriteIs DEF S
<1>6. plan'[e] = Tail(plan[e]) /\ DOMAIN plan' = Exporter /\ \A x \in Exporter : x # e => plan'[x] = plan[x]
  BY <1>1, <1>2
<1>7. VaultTypeOK'
  <2>1. \A x \in Exporter : plan'[x] \in Seq(ToWrite(names'[x]))
    BY <1>1, <1>2, <1>4, <1>6 DEF S
  <2> QED BY <1>1, <1>2, <1>6, <2>1 DEF VaultTypeOK
<1>8. ASSUME NEW x \in Exporter, alone'[x], doing'[x] \in {"writing", "exported"}
      PROVE  AloneTells(x)'
  <2>1. AloneTells(x) /\ x = e
    BY <1>1, <1>2, <1>8 DEF AloneTells
  <2>2. ASSUME NEW id \in DOMAIN names[e]
        PROVE  Planned(plan'[e], id) \/ Written(names[e], id, vault')
    <3>1. CASE next.note.node = id
      BY <1>1, <1>5, <3>1 DEF Written
    <3>2. CASE next.note.node # id /\ Planned(plan[e], id)
      BY <1>4, <1>6, <3>2 DEF Planned
    <3>3. CASE next.note.node # id /\ Written(names[e], id, vault)
      <4>1. names[e][id] # next.file
        BY <1>5, <2>1, <3>3 DEF AloneTells
      <4> QED BY <1>1, <3>3, <4>1 DEF Written
    <3> QED BY <2>1, <3>1, <3>2, <3>3 DEF AloneTells
  <2>3. doing'[e] # "exported"
    BY <1>1
  <2> QED BY <1>1, <2>1, <2>2, <2>3 DEF AloneTells
<1> QED BY <1>7, <1>8 DEF VaultInv

\* The index lists the names that were given; nothing is left to be written.
LEMMA WriteIndexStep ==
  ASSUME VaultInv, NEW e \in Exporter, Vault!WriteIndex(e)
  PROVE  VaultInv'
<1>1. /\ doing[e] = "writing" /\ plan[e] = <<>> /\ index' = names[e]
      /\ doing' = [doing EXCEPT ![e] = "exported"]
      /\ UNCHANGED <<repository, vault, plan, names, alone>>
  BY DEF Vault!WriteIndex, Vault!Go
<1>2. /\ VaultTypeOK
      /\ doing \in [Exporter -> {"new", "rejected", "writing", "exported", "brokenOff"}]
      /\ \A x \in Exporter : alone[x] /\ doing[x] \in {"writing", "exported"} => AloneTells(x)
  BY DEF VaultInv, VaultTypeOK
<1>3. /\ \A x \in Exporter : x # e => doing'[x] = doing[x]
      /\ doing'[e] = "exported"
      /\ doing' \in [Exporter -> {"new", "rejected", "writing", "exported", "brokenOff"}]
  BY <1>1, <1>2
<1>4. VaultTypeOK'
  BY <1>1, <1>2, <1>3 DEF VaultTypeOK
<1>5. ASSUME NEW x \in Exporter, alone'[x], doing'[x] \in {"writing", "exported"}
      PROVE  AloneTells(x)'
  <2>1. AloneTells(x)
    BY <1>1, <1>2, <1>3, <1>5
  <2>2. x = e
    BY <1>1, <2>1 DEF AloneTells
  <2>3. \A other \in Exporter : doing'[other] = "writing" => other = e
    BY <1>3, <2>1, <2>2 DEF AloneTells
  <2> QED BY <1>1, <2>1, <2>2, <2>3 DEF AloneTells
<1> QED BY <1>4, <1>5 DEF VaultInv

\* What an export that breaks off has not written, nobody waits for.
LEMMA BreakOffStep ==
  ASSUME VaultInv, NEW e \in Exporter, Vault!BreakOff(e)
  PROVE  VaultInv'
<1>1. /\ doing[e] = "writing"
      /\ doing' = [doing EXCEPT ![e] = "brokenOff"]
      /\ plan' = [plan EXCEPT ![e] = <<>>]
      /\ UNCHANGED <<repository, vault, index, names, alone>>
  BY DEF Vault!BreakOff, Vault!Go
<1>2. /\ repository \in Vault!Graphs
      /\ DOMAIN names = Exporter /\ DOMAIN plan = Exporter
      /\ doing \in [Exporter -> {"new", "rejected", "writing", "exported", "brokenOff"}]
      /\ alone \in [Exporter -> BOOLEAN]
      /\ \A x \in Exporter : plan[x] \in Seq(ToWrite(names[x]))
      /\ \A x \in Exporter : alone[x] /\ doing[x] \in {"writing", "exported"} => AloneTells(x)
  BY DEF VaultInv, VaultTypeOK
<1>3. /\ \A x \in Exporter : x # e => doing'[x] = doing[x] /\ plan'[x] = plan[x]
      /\ doing'[e] = "brokenOff" /\ plan'[e] = <<>> /\ DOMAIN plan' = Exporter
      /\ doing' \in [Exporter -> {"new", "rejected", "writing", "exported", "brokenOff"}]
  BY <1>1, <1>2
<1>4. VaultTypeOK'
  <2>1. \A S : <<>> \in Seq(S)
    OBVIOUS
  <2>2. \A x \in Exporter : plan'[x] \in Seq(ToWrite(names'[x]))
    BY <1>1, <1>2, <1>3, <2>1
  <2> QED BY <1>1, <1>2, <1>3, <2>2 DEF VaultTypeOK
<1>5. ASSUME NEW x \in Exporter, alone'[x], doing'[x] \in {"writing", "exported"}
      PROVE  AloneTells(x)'
  <2>1. x # e /\ AloneTells(x)
    BY <1>1, <1>2, <1>3, <1>5
  <2> QED BY <1>1, <2>1 DEF AloneTells
<1> QED BY <1>4, <1>5 DEF VaultInv

\* Whatever the repository holds, however its names collide, however small the
\* caps are and whatever earlier exports have left there: an export that no other
\* disturbs leaves a vault in which every node of its graph has a note of its own,
\* the index lists them, and every link leads to the note of the node it means.
THEOREM VaultsTell == EnginesSpec => []VaultTells
<1>1. EnginesInit => VaultInv
  BY VaultBegins DEF EnginesInit
<1>2. VaultInv /\ [EnginesNext]_enginesVars => VaultInv'
  <2> SUFFICES ASSUME VaultInv, [EnginesNext]_enginesVars PROVE VaultInv'
    OBVIOUS
  <2>1. CASE UNCHANGED notes
    BY <2>1 DEF notes, VaultInv, VaultTypeOK, AloneTells
  <2>2. CASE Vault!ChangeLayout
    <3>1. repository' \in Vault!Graphs /\ UNCHANGED <<vault, index, plan, names, doing, alone>>
      BY <2>2 DEF Vault!ChangeLayout
    <3> QED BY <3>1 DEF VaultInv, VaultTypeOK, AloneTells
  <2>3. ASSUME NEW e \in Exporter, NEW outDir \in Vault!OutDirs, NEW scope \in {"none", "package"},
               NEW otherRun \in BOOLEAN, Vault!BeginExport(e, outDir, scope, otherRun)
        PROVE  VaultInv'
    BY <2>3, BeginStep
  <2>4. ASSUME NEW e \in Exporter, Vault!WriteNote(e) PROVE VaultInv'
    BY <2>4, WriteNoteStep
  <2>5. ASSUME NEW e \in Exporter, Vault!WriteIndex(e) PROVE VaultInv'
    BY <2>5, WriteIndexStep
  <2>6. ASSUME NEW e \in Exporter, Vault!BreakOff(e) PROVE VaultInv'
    BY <2>6, BreakOffStep
  <2>7. UNCHANGED notes \/ Vault!VaultNext
    BY DEF EnginesNext, enginesVars, AgentsPart, RemotesPart, TreesPart, PromptsPart,
           ContextPart, GraphPart, VaultPart, DocsPart
  <2> QED BY <2>1, <2>2, <2>3, <2>4, <2>5, <2>6, <2>7 DEF Vault!VaultNext
<1>3. VaultInv => VaultTells
  BY VaultInvTells DEF VaultTells
<1> QED BY <1>1, <1>2, <1>3, PTL DEF EnginesSpec
=============================================================================
