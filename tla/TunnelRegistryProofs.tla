----------------------- MODULE TunnelRegistryProofs -----------------------
(* Proofs about TunnelRegistry, for any number of callers, configurations,   *)
(* fronts and connections: who owns a front, what the budgets count, and     *)
(* which connections may dial.                                               *)
EXTENDS TunnelRegistry, FiniteSetTheorems, TLAPS

\* A front is the entry of one configuration, or in the hands of a caller that
\* has taken it out.
OwnInv ==
    /\ \A i, j \in Ids : entries[i] = entries[j] /\ entries[i] # NoFront => i = j
    /\ \A i \in Ids, t \in Callers : entries[i] \notin taken[t]

\* A connection is at a front, and the aborted tasks are tasks.
ConnInv ==
    /\ \A c \in Conns : conn[c] # "none" => at[c] \in Fronts
    /\ \A c \in doomed : conn[c] \in Active

\* The fronts something still refers to.
LiveFronts == Fronts \ FreeFronts

\* No two of them have the same credentials, and who holds the credentials of one
\* asked for its configuration and revision; what dials presented them.
TokenInv ==
    /\ \A f \in LiveFronts : made[f] # NoAnswer
    /\ \A i \in Ids : entries[i] # NoFront => made[entries[i]].id = i
    /\ \A f, g \in LiveFronts : made[f].secret = made[g].secret => f = g
    /\ \A c \in Conns, f \in LiveFronts :
          kept[c] # NoAnswer /\ kept[c].secret = made[f].secret =>
              kept[c].id = made[f].id /\ kept[c].rev = made[f].rev
    /\ \A c \in Conns : conn[c] \in {"dial", "pump"} => Authentic(c)

LoopStates == {"none", "spawned", "body", "select", "done"}

RegistryInv ==
    TypeOK /\ OwnInv /\ ConnInv /\ NoOrphanFront /\ BudgetsExact /\ TokenInv

Charged == {c \in Conns : conn[c] \in Active}

\* The connection tasks are finitely many.
LEMMA TasksFinite == IsFiniteSet(Charged) /\ \A f : IsFiniteSet(ActiveAt(f))
<1>1. Charged \subseteq Conns /\ \A f : ActiveAt(f) \subseteq Conns
  BY DEF Charged, ActiveAt
<1> QED
  BY <1>1, RegistryAssumption, FS_Subset DEF RegistryAssumption

\* A task that exists is charged to both budgets.
LEMMA TaskCharged ==
    ASSUME TypeOK, ConnInv, BudgetsExact, NEW c \in Conns, conn[c] \in Active
    PROVE  at[c] \in Fronts /\ local[at[c]] >= 1 /\ global >= 1
<1>1. at[c] \in Fronts
  BY DEF ConnInv, Active
<1>2. c \in ActiveAt(at[c]) /\ c \in Charged
  BY DEF ActiveAt, Charged
<1>3. Cardinality(ActiveAt(at[c])) \in Nat /\ Cardinality(Charged) \in Nat
  BY TasksFinite, FS_CardinalityType
<1>4. Cardinality(ActiveAt(at[c])) # 0 /\ Cardinality(Charged) # 0
  BY <1>2, TasksFinite, FS_EmptySet
<1> QED
  BY <1>1, <1>3, <1>4 DEF BudgetsExact, Charged

\* The empty registry satisfies the invariant.
LEMMA RegistryInit == Init => RegistryInv
<1> SUFFICES ASSUME Init PROVE RegistryInv
  OBVIOUS
<1> USE DEF Init
<1>1. TypeOK
  BY RegistryAssumption DEF TypeOK, RegistryAssumption
<1>2. OwnInv /\ ConnInv /\ NoOrphanFront
  BY DEF OwnInv, ConnInv, NoOrphanFront, Listening
<1>4. TokenInv
  <2>1. LiveFronts = {}
    BY RegistryAssumption
    DEF LiveFronts, FreeFronts, Listening, ActiveAt, QueuedAt, RegistryAssumption, Active
  <2> QED
    BY <2>1 DEF TokenInv
<1>3. BudgetsExact
  <2>1. Charged = {} /\ \A f : ActiveAt(f) = {}
    BY DEF Charged, ActiveAt, Active
  <2>2. Cardinality({}) = 0
    BY FS_EmptySet
  <2>3. \A f \in Fronts : local[f] = Cardinality(ActiveAt(f)) /\ local[f] <= MaxFront
    BY <2>1, <2>2, RegistryAssumption, SMTT(20) DEF RegistryAssumption
  <2>4. global = Cardinality(Charged) /\ global <= MaxRegistry
    BY <2>1, <2>2, RegistryAssumption DEF RegistryAssumption
  <2> QED
    BY <2>3, <2>4 DEF BudgetsExact, Charged
<1> QED
  BY <1>1, <1>2, <1>3, <1>4 DEF RegistryInv

\* Where the connections do not change, what they are charged for does not.
LEMMA ConnsUnchanged ==
    ASSUME RegistryInv, UNCHANGED <<conn, at, doomed, local, global>>
    PROVE  ConnInv' /\ BudgetsExact'
BY DEF RegistryInv, ConnInv, BudgetsExact, ActiveAt

\* A front is live that listens, is an entry, is taken, or has connections.
LEMMA Live ==
    ASSUME NEW f \in Fronts
    PROVE  f \in LiveFronts <=>
             \/ Listening(f) \/ \E i \in Ids : entries[i] = f
             \/ \E t \in Callers : f \in taken[t]
             \/ \E c \in Conns : at[c] = f /\ conn[c] \in Active \cup {"queued"}
BY DEF LiveFronts, FreeFronts, ActiveAt, QueuedAt, Active

\* The same of the next state.
LEMMA LivePrime ==
    ASSUME NEW f \in Fronts
    PROVE  f \in LiveFronts' <=>
             \/ Listening(f)' \/ \E i \in Ids : entries'[i] = f
             \/ \E t \in Callers : f \in taken'[t]
             \/ \E c \in Conns : at'[c] = f /\ conn'[c] \in Active \cup {"queued"}
BY DEF LiveFronts, FreeFronts, ActiveAt, QueuedAt, Active

\* A step that starts no front and hands out no answer keeps the tokens apart, if
\* what dials after it dialled before it or is authentic.
LEMMA TokensKept ==
    ASSUME RegistryInv, UNCHANGED <<made, kept>>,
           \A i \in Ids : entries'[i] \in {entries[i], NoFront},
           \A f \in Fronts : f \in LiveFronts' => f \in LiveFronts,
           \A c \in Conns : conn'[c] \in {"dial", "pump"} =>
               at'[c] = at[c] /\ (conn[c] \in {"dial", "pump"} \/ Authentic(c))
    PROVE  TokenInv'
<1>0. LiveFronts' \subseteq LiveFronts
  BY DEF LiveFronts
<1>1. \A f \in LiveFronts' : made'[f] # NoAnswer
  BY <1>0 DEF RegistryInv, TokenInv
<1>2. \A i \in Ids : entries'[i] # NoFront => made'[entries'[i]].id = i
  BY DEF RegistryInv, TokenInv
<1>3. \A f, g \in LiveFronts' : made'[f].secret = made'[g].secret => f = g
  BY <1>0 DEF RegistryInv, TokenInv
<1>4. \A c \in Conns, f \in LiveFronts' :
          kept'[c] # NoAnswer /\ kept'[c].secret = made'[f].secret =>
              kept'[c].id = made'[f].id /\ kept'[c].rev = made'[f].rev
  BY <1>0 DEF RegistryInv, TokenInv
<1>5. \A c \in Conns : conn'[c] \in {"dial", "pump"} => Authentic(c)'
  BY DEF RegistryInv, TokenInv, Authentic
<1> QED
  BY <1>1, <1>2, <1>3, <1>4, <1>5 DEF TokenInv

\* An entry that serves again is handed to whoever asked for what it is.
LEMMA ReuseNext ==
    ASSUME RegistryInv, NEW i \in Ids, NEW r \in Revs, NEW who \in SUBSET Conns,
           ReuseFront(i, r, who)
    PROVE  RegistryInv'
<1> USE DEF RegistryInv, ReuseFront, Give, frontVars
<1>0. PICK f \in Fronts : f = entries[i]
  BY DEF TypeOK, Reusable
<1>1. f \in LiveFronts /\ made[f] \in Answers /\ made[f].id = i /\ made[f].rev = r
  <2>1. f \in LiveFronts
    BY <1>0, Live
  <2>2. made[f] \in Answers
    BY <1>0, <2>1 DEF TypeOK, TokenInv
  <2> QED
    BY <1>0, <2>1, <2>2 DEF Reusable, TokenInv
<1>2. [id |-> i, rev |-> r, port |-> made[entries[i]].port,
       secret |-> made[entries[i]].secret] = made[f]
  BY <1>0, <1>1 DEF Answers
<1>3. kept' = [c \in Conns |-> IF c \in who THEN made[f] ELSE kept[c]]
  BY <1>2
<1>4. TypeOK'
  <2>1. kept' \in [Conns -> Answers \cup {NoAnswer}]
    BY <1>1, <1>3 DEF TypeOK
  <2> QED
    BY <2>1 DEF TypeOK
<1>5. OwnInv' /\ NoOrphanFront'
  BY DEF OwnInv, NoOrphanFront, Listening
<1>6. TokenInv'
  <2>0. LiveFronts' = LiveFronts
    BY DEF LiveFronts, FreeFronts, Listening, ActiveAt, QueuedAt
  <2>1. ASSUME NEW c \in Conns, NEW g \in LiveFronts, kept'[c] # NoAnswer,
               kept'[c].secret = made[g].secret
        PROVE  kept'[c].id = made[g].id /\ kept'[c].rev = made[g].rev
    <3>1. CASE c \in who
      BY <1>1, <1>3, <2>1, <3>1 DEF TokenInv
    <3>2. CASE c \notin who
      BY <1>3, <2>1, <3>2 DEF TokenInv
    <3> QED
      BY <3>1, <3>2
  <2>2. ASSUME NEW c \in Conns, conn'[c] \in {"dial", "pump"} PROVE Authentic(c)'
    <3>1. c \notin who
      BY <2>2
    <3>2. kept'[c] = kept[c] /\ Authentic(c)
      BY <1>3, <2>2, <3>1 DEF TokenInv
    <3> QED
      BY <3>2 DEF Authentic
  <2> QED
    BY <2>0, <2>1, <2>2 DEF TokenInv
<1> QED
  BY <1>4, <1>5, <1>6, ConnsUnchanged

\* A start keeps the types, the owners and, its token being new, the tokens.
LEMMA StartFrontNext ==
    ASSUME RegistryInv, NEW f \in Fronts, NEW a \in Answers, NEW who \in SUBSET Conns,
           StartFront(f, a, who)
    PROVE  RegistryInv'
<1>0. PICK i \in Ids : i = a.id
  BY DEF Answers
<1> USE <1>0 DEF RegistryInv, StartFront, StopEntries, StaleOf, Give
<1>1. TypeOK'
  <2>1. kept' \in [Conns -> Answers \cup {NoAnswer}]
    BY DEF TypeOK
  <2>2. made' \in [Fronts -> Answers \cup {NoAnswer}]
    BY DEF TypeOK
  <2> QED
    BY <2>1, <2>2 DEF TypeOK
<1>2. /\ \A j \in Ids : entries[j] # f
      /\ \A t \in Callers : f \notin taken[t]
  BY DEF FreeFronts
<1>3. OwnInv'
  BY <1>2 DEF OwnInv, TypeOK
<1>4. NoOrphanFront'
  <2>1. ASSUME NEW j \in Ids, entries'[j] # NoFront PROVE ~told'[entries'[j]]
    <3>1. CASE j = i
      BY <3>1 DEF TypeOK
    <3>2. CASE j # i
      <4>1. entries'[j] = entries[j] /\ entries[j] \in Fronts /\ entries[j] # entries[i]
        BY <2>1, <3>2 DEF OwnInv, TypeOK
      <4>2. ~told[entries[j]]
        BY <2>1, <4>1 DEF NoOrphanFront
      <4> QED
        BY <4>1, <4>2 DEF TypeOK
    <3> QED
      BY <3>1, <3>2
  <2>2. ASSUME NEW g \in Fronts, Listening(g)', ~told'[g]
        PROVE  (\E j \in Ids : entries'[j] = g) \/ (\E t \in Callers : g \in taken'[t])
    <3>1. CASE g = f
      BY <3>1 DEF TypeOK
    <3>2. CASE g # f
      <4>1. Listening(g) /\ ~told[g] /\ (g # entries[i] \/ g = NoFront)
        BY <2>2, <3>2 DEF Listening, TypeOK
      <4>2. g # NoFront
        BY RegistryAssumption DEF RegistryAssumption
      <4> QED
        BY <4>1, <4>2 DEF NoOrphanFront, TypeOK
    <3> QED
      BY <3>1, <3>2
  <2> QED
    BY <2>1, <2>2 DEF NoOrphanFront
<1>5. f \notin LiveFronts
  BY DEF LiveFronts
<1>6. LiveFronts' \subseteq LiveFronts \cup {f}
  <2> SUFFICES ASSUME NEW g \in Fronts, g \in LiveFronts', g # f PROVE g \in LiveFronts
    BY DEF LiveFronts
  <2>1. Listening(g)' => Listening(g)
    BY DEF Listening, TypeOK
  <2>2. \A j \in Ids : entries'[j] = g => entries[j] = g
    BY DEF TypeOK
  <2> QED
    BY <2>1, <2>2, Live, LivePrime
<1>7. /\ \A g \in LiveFronts : made[g].secret # a.secret
      /\ \A c \in Conns : kept[c] # NoAnswer => kept[c].secret # a.secret
  BY DEF FreshSecrets, LiveFronts
<1>8. made'[f] = a /\ a # NoAnswer /\ \A g \in LiveFronts : made'[g] = made[g]
  BY <1>5, AnswerAssumption DEF TypeOK, AnswerAssumption
<1>9. TokenInv'
  <2>1. \A g \in LiveFronts' : made'[g] # NoAnswer
    BY <1>6, <1>8 DEF TokenInv
  <2>2. \A g, h \in LiveFronts' : made'[g].secret = made'[h].secret => g = h
    BY <1>6, <1>7, <1>8 DEF TokenInv
  <2>3. ASSUME NEW j \in Ids, entries'[j] # NoFront PROVE made'[entries'[j]].id = j
    <3>1. CASE j = i
      BY <1>8, <3>1 DEF TypeOK
    <3>2. CASE j # i
      <4>1. entries'[j] = entries[j] /\ entries[j] \in Fronts
        BY <2>3, <3>2 DEF TypeOK
      <4>2. entries[j] \in LiveFronts
        BY <4>1, Live
      <4> QED
        BY <1>8, <2>3, <4>1, <4>2 DEF TokenInv
    <3> QED
      BY <3>1, <3>2
  <2>4. ASSUME NEW c \in Conns, NEW g \in LiveFronts', kept'[c] # NoAnswer,
               kept'[c].secret = made'[g].secret
        PROVE  kept'[c].id = made'[g].id /\ kept'[c].rev = made'[g].rev
    <3>1. CASE c \in who
      <4>1. kept'[c] = a
        BY <3>1
      <4>2. g = f
        BY <1>6, <1>7, <1>8, <2>4, <4>1
      <4> QED
        BY <1>8, <4>1, <4>2
    <3>2. CASE c \notin who
      <4>1. kept'[c] = kept[c]
        BY <3>2
      <4>2. g \in LiveFronts
        BY <1>6, <1>7, <1>8, <2>4, <4>1
      <4> QED
        BY <1>8, <2>4, <4>1, <4>2 DEF TokenInv
    <3> QED
      BY <3>1, <3>2
  <2>5. ASSUME NEW c \in Conns, conn'[c] \in {"dial", "pump"} PROVE Authentic(c)'
    <3>1. c \notin who /\ Authentic(c) /\ at[c] \in Fronts /\ conn[c] \in Active
      BY <2>5 DEF TokenInv, ConnInv, Active
    <3>2. at[c] \in LiveFronts
      BY <3>1, Live
    <3> QED
      BY <1>8, <3>1, <3>2 DEF Authentic
  <2> QED
    BY <2>1, <2>2, <2>3, <2>4, <2>5 DEF TokenInv
<1> QED
  BY <1>1, <1>3, <1>4, <1>9, ConnsUnchanged

\* So does a removal that stops its entry at once.
LEMMA RemoveNext ==
    ASSUME RegistryInv, NEW i \in Ids, NEW r \in Revs,
           StartFails(i, r) \/ StopRevision(i, r)
    PROVE  RegistryInv'
<1>1. /\ entries' = [entries EXCEPT ![i] = NoFront]
      /\ StopEntries({entries[i]} \ {NoFront}, {})
      /\ UNCHANGED <<taken, made, loop, connVars>>
  <2>1. CASE StartFails(i, r)
    BY <2>1 DEF StartFails, StaleOf
  <2>2. CASE StopRevision(i, r)
    <3>1. {entries[i]} \ {NoFront} = {entries[i]}
      BY <2>2 DEF StopRevision
    <3> QED
      BY <2>2, <3>1 DEF StopRevision
  <2> QED
    BY <2>1, <2>2
<1> USE <1>1 DEF RegistryInv, StopEntries, connVars
<1>2. TypeOK'
  BY DEF TypeOK, connVars
<1>3. OwnInv'
  <2>1. ASSUME NEW t \in Callers PROVE NoFront \notin taken'[t]
    BY RegistryAssumption DEF TypeOK, RegistryAssumption
  <2> QED
    BY <2>1 DEF OwnInv, TypeOK
<1>4. NoOrphanFront'
  <2>1. \A j \in Ids : entries'[j] # NoFront => ~told'[entries'[j]]
    BY RegistryAssumption DEF OwnInv, NoOrphanFront, TypeOK, RegistryAssumption
  <2>2. ASSUME NEW g \in Fronts, Listening(g)', ~told'[g]
        PROVE  (\E j \in Ids : entries'[j] = g) \/ (\E t \in Callers : g \in taken'[t])
    <3>1. Listening(g) /\ ~told[g] /\ g # entries[i]
      BY <2>2, RegistryAssumption DEF Listening, TypeOK, RegistryAssumption
    <3> QED
      BY <3>1 DEF NoOrphanFront, TypeOK
  <2> QED
    BY <2>1, <2>2 DEF NoOrphanFront
<1>5. TokenInv'
  <2>1. \A j \in Ids : entries'[j] \in {entries[j], NoFront}
    BY DEF TypeOK
  <2>2. \A g \in Fronts : g \in LiveFronts' => g \in LiveFronts
    BY <2>1, Live, LivePrime, RegistryAssumption DEF Listening, RegistryAssumption
  <2> QED
    BY <2>1, <2>2, TokensKept
<1> QED
  BY <1>2, <1>3, <1>4, <1>5, ConnsUnchanged

\* stop and stop_all hand entries over to their caller.
LEMMA TakeNext ==
    ASSUME RegistryInv, NEW t \in Callers, NEW is \in SUBSET Ids, TakeEntries(t, is)
    PROVE  RegistryInv'
<1> USE DEF RegistryInv, TakeEntries, frontVars, connVars
<1>1. TypeOK'
  <2>1. {entries[i] : i \in is} \ {NoFront} \subseteq Fronts
    BY DEF TypeOK
  <2> QED
    BY <2>1 DEF TypeOK, connVars
<1>2. OwnInv'
  <2>1. \A i, j \in Ids : entries'[i] = entries'[j] /\ entries'[i] # NoFront => i = j
    BY DEF OwnInv
  <2>2. ASSUME NEW i \in Ids, NEW u \in Callers PROVE entries'[i] \notin taken'[u]
    <3>1. NoFront \notin taken[u]
      BY RegistryAssumption DEF TypeOK, RegistryAssumption
    <3>2. entries[i] \notin taken[u]
      BY DEF OwnInv
    <3>3. i \notin is /\ entries[i] # NoFront => entries[i] \notin {entries[j] : j \in is}
      BY DEF OwnInv
    <3> QED
      BY <3>1, <3>2, <3>3 DEF TypeOK
  <2> QED
    BY <2>1, <2>2 DEF OwnInv
<1>3. NoOrphanFront'
  <2>1. \A j \in Ids : entries'[j] # NoFront => ~told'[entries'[j]]
    BY DEF NoOrphanFront
  <2>2. ASSUME NEW g \in Fronts, Listening(g)', ~told'[g]
        PROVE  (\E j \in Ids : entries'[j] = g) \/ (\E u \in Callers : g \in taken'[u])
    <3>1. Listening(g) /\ ~told[g] /\ g # NoFront
      BY <2>2, RegistryAssumption DEF Listening, RegistryAssumption
    <3>2. CASE \E j \in Ids : entries[j] = g
      <4>1. PICK j \in Ids : entries[j] = g
        BY <3>2
      <4>2. CASE j \in is
        BY <3>1, <4>1, <4>2 DEF TypeOK
      <4>3. CASE j \notin is
        BY <4>1, <4>3
      <4> QED
        BY <4>2, <4>3
    <3>3. CASE \E u \in Callers : g \in taken[u]
      <4>1. PICK u \in Callers : g \in taken[u]
        BY <3>3
      <4>2. u # t
        BY <4>1
      <4> QED
        BY <4>1, <4>2 DEF TypeOK
    <3> QED
      BY <3>1, <3>2, <3>3 DEF NoOrphanFront
  <2> QED
    BY <2>1, <2>2 DEF NoOrphanFront
<1>4. TokenInv'
  <2>1. \A j \in Ids : entries'[j] \in {entries[j], NoFront}
    OBVIOUS
  <2>2. ASSUME NEW g \in Fronts, NEW u \in Callers, g \in taken'[u]
        PROVE  g \in taken[u] \/ \E j \in Ids : entries[j] = g
    BY <2>2 DEF TypeOK
  <2>3. \A g \in Fronts : g \in LiveFronts' => g \in LiveFronts
    BY <2>1, <2>2, Live, LivePrime, RegistryAssumption DEF Listening, RegistryAssumption
  <2> QED
    BY <2>1, <2>3, TokensKept
<1> QED
  BY <1>1, <1>2, <1>3, <1>4, ConnsUnchanged

\* The caller then stops them one by one.
LEMMA StopTakenNext ==
    ASSUME RegistryInv, NEW t \in Callers, NEW f \in Fronts, StopTaken(t, f)
    PROVE  RegistryInv'
<1> USE DEF RegistryInv, StopTaken, StopEntries, connVars
<1>1. TypeOK'
  BY DEF TypeOK, connVars
<1>2. OwnInv'
  BY DEF OwnInv, TypeOK
<1>3. NoOrphanFront'
  <2>1. \A j \in Ids : entries'[j] # NoFront => ~told'[entries'[j]]
    BY DEF NoOrphanFront, OwnInv, TypeOK
  <2>2. ASSUME NEW g \in Fronts, Listening(g)', ~told'[g]
        PROVE  (\E j \in Ids : entries'[j] = g) \/ (\E u \in Callers : g \in taken'[u])
    <3>1. Listening(g) /\ ~told[g] /\ g # f
      BY <2>2 DEF Listening, TypeOK
    <3> QED
      BY <3>1 DEF NoOrphanFront, TypeOK
  <2> QED
    BY <2>1, <2>2 DEF NoOrphanFront
<1>4. TokenInv'
  <2>1. \A g \in Fronts, u \in Callers : g \in taken'[u] => g \in taken[u]
    BY DEF TypeOK
  <2>2. \A g \in Fronts : g \in LiveFronts' => g \in LiveFronts
    BY <2>1, Live, LivePrime DEF Listening
  <2> QED
    BY <2>2, TokensKept
<1> QED
  BY <1>1, <1>2, <1>3, <1>4, ConnsUnchanged

\* Steps of an accept loop that leave the connections alone.
LEMMA LoopNext ==
    ASSUME RegistryInv, NEW f \in Fronts,
           loop[f] \in {"spawned", "body", "select"},
           loop' \in {[loop EXCEPT ![f] = "body"], [loop EXCEPT ![f] = "select"],
                     [loop EXCEPT ![f] = "done"]},
           UNCHANGED <<entries, taken, made, rung, told>>
    PROVE  /\ OwnInv' /\ NoOrphanFront' /\ loop' \in [Fronts -> LoopStates]
           /\ \A g \in Fronts : Listening(g)' => Listening(g)
<1>1. OwnInv'
  BY DEF RegistryInv, OwnInv
<1>2. loop' \in [Fronts -> LoopStates]
  BY DEF RegistryInv, TypeOK, LoopStates
<1>3. \A g \in Fronts : Listening(g)' => Listening(g)
  BY DEF RegistryInv, TypeOK, Listening
<1>4. NoOrphanFront'
  BY <1>3 DEF RegistryInv, NoOrphanFront
<1> QED
  BY <1>1, <1>2, <1>3, <1>4

\* A loop that ends closes what it had not accepted and dooms its tasks.
LEMMA LeaveNext ==
    ASSUME RegistryInv, NEW f \in Fronts, LeaveLoop(f),
           loop[f] \in {"spawned", "body", "select"}
    PROVE  RegistryInv'
<1> USE DEF RegistryInv, LeaveLoop, Forget
<1>1. /\ OwnInv' /\ NoOrphanFront' /\ loop' \in [Fronts -> LoopStates]
      /\ \A g \in Fronts : Listening(g)' => Listening(g)
  BY LoopNext
<1>2. TypeOK'
  <2>1. doomed' \subseteq Conns
    BY DEF TypeOK, ActiveAt
  <2>2. /\ conn' \in [Conns -> {"none", "queued"} \cup Active]
        /\ at' \in [Conns -> Fronts \cup {NoFront}]
    BY DEF TypeOK
  <2> QED
    BY <1>1, <2>1, <2>2 DEF TypeOK, LoopStates
<1>3. \A c \in Conns : conn[c] \in Active =>
        conn'[c] = conn[c] /\ at'[c] = at[c]
  BY DEF QueuedAt, Active
<1>4. \A c \in Conns : conn'[c] \in Active => conn[c] \in Active
  BY DEF Active
<1>5. ConnInv'
  <2>1. \A c \in Conns : conn'[c] # "none" => at'[c] \in Fronts
    BY DEF ConnInv
  <2>2. \A c \in doomed' : conn'[c] \in Active
    BY <1>3 DEF ConnInv, ActiveAt, TypeOK
  <2> QED
    BY <2>1, <2>2 DEF ConnInv
<1>6. TokenInv'
  <2>1. \A g \in Fronts : g \in LiveFronts' => g \in LiveFronts
    BY <1>1, Live, LivePrime, RegistryAssumption DEF RegistryAssumption, Active
  <2>2. \A c \in Conns : conn'[c] \in {"dial", "pump"} =>
          at'[c] = at[c] /\ conn[c] \in {"dial", "pump"}
    BY <1>3, <1>4 DEF Active
  <2> QED
    BY <2>1, <2>2, TokensKept
<1>7. BudgetsExact'
  <2>1. Charged' = Charged /\ \A g \in Fronts : ActiveAt(g)' = ActiveAt(g)
    BY <1>3, <1>4 DEF Charged, ActiveAt
  <2> QED
    BY <2>1 DEF BudgetsExact, Charged
<1> QED
  BY <1>1, <1>2, <1>5, <1>6, <1>7

\* An accepted peer is charged to both budgets, or dropped.
LEMMA AcceptNext ==
    ASSUME RegistryInv, NEW f \in Fronts, NEW c \in Conns, Accept(f, c)
    PROVE  RegistryInv'
<1> USE DEF RegistryInv, Accept
<1>0. conn[c] = "queued" /\ at[c] = f /\ c \notin doomed
  BY DEF QueuedAt, ConnInv, Active
<1>1. /\ OwnInv' /\ NoOrphanFront' /\ loop' \in [Fronts -> LoopStates]
      /\ \A g \in Fronts : Listening(g)' => Listening(g)
  BY LoopNext DEF Accepting
<1>2. CASE Refused(f)
  <2> USE <1>2 DEF Charge, Forget
  <2>1. TypeOK'
    BY <1>1 DEF TypeOK, LoopStates
  <2>2. Charged' = Charged /\ \A g \in Fronts : ActiveAt(g)' = ActiveAt(g)
    BY <1>0 DEF Charged, ActiveAt, Active
  <2>3. BudgetsExact'
    BY <2>2 DEF BudgetsExact, Charged
  <2>4. ConnInv'
    BY <1>0 DEF ConnInv, TypeOK
  <2>5. TokenInv'
    <3>1. \A g \in Fronts : g \in LiveFronts' => g \in LiveFronts
      BY <1>1, Live, LivePrime, RegistryAssumption DEF RegistryAssumption, Active
    <3>2. \A d \in Conns : conn'[d] \in {"dial", "pump"} =>
            at'[d] = at[d] /\ conn[d] \in {"dial", "pump"}
      OBVIOUS
    <3> QED
      BY <3>1, <3>2, TokensKept
  <2> QED
    BY <1>1, <2>1, <2>3, <2>4, <2>5
<1>3. CASE ~Refused(f)
  <2> USE <1>3 DEF Charge
  <2>1. local[f] < MaxFront /\ global < MaxRegistry
    BY RegistryAssumption DEF Refused, TypeOK, RegistryAssumption
  <2>2. TypeOK'
    <3>1. conn' \in [Conns -> {"none", "queued"} \cup Active]
      BY DEF TypeOK, Active
    <3> QED
      BY <1>1, <3>1 DEF TypeOK, LoopStates
  <2>3. ConnInv'
    BY <1>0 DEF ConnInv, TypeOK
  <2>11. TokenInv'
    <3>1. \A g \in Fronts : g \in LiveFronts' => g \in LiveFronts
      BY <1>0, <1>1, Live, LivePrime DEF TypeOK
    <3>2. \A d \in Conns : conn'[d] \in {"dial", "pump"} => conn[d] \in {"dial", "pump"}
      BY DEF TypeOK
    <3> QED
      BY <3>1, <3>2, TokensKept
  <2>4. Charged' = Charged \cup {c} /\ c \notin Charged
    BY <1>0 DEF Charged, Active, TypeOK
  <2>5. ActiveAt(f)' = ActiveAt(f) \cup {c} /\ c \notin ActiveAt(f)
    BY <1>0 DEF ActiveAt, Active, TypeOK
  <2>6. \A g \in Fronts \ {f} : ActiveAt(g)' = ActiveAt(g)
    BY <1>0 DEF ActiveAt, Active, TypeOK
  <2>7. Cardinality(Charged') = Cardinality(Charged) + 1
        /\ Cardinality(ActiveAt(f)') = Cardinality(ActiveAt(f)) + 1
    BY <2>4, <2>5, TasksFinite, FS_AddElement
  <2>8. global' = Cardinality(Charged') /\ global' <= MaxRegistry
    BY <2>1, <2>7, RegistryAssumption DEF BudgetsExact, Charged, TypeOK, RegistryAssumption
  <2>9. \A g \in Fronts : local'[g] = Cardinality(ActiveAt(g)') /\ local'[g] <= MaxFront
    BY <2>1, <2>6, <2>7, RegistryAssumption DEF BudgetsExact, TypeOK, RegistryAssumption
  <2>10. BudgetsExact'
    BY <2>8, <2>9 DEF BudgetsExact, Charged
  <2> QED
    BY <1>1, <2>2, <2>3, <2>10, <2>11
<1> QED
  BY <1>2, <1>3

\* A task that ends gives back what it was charged.
LEMMA EndNext ==
    ASSUME RegistryInv, NEW c \in Conns, conn[c] \in Active, EndConnection(c)
    PROVE  RegistryInv'
<1> USE DEF RegistryInv, EndConnection, Forget, frontVars
<1>1. at[c] \in Fronts /\ local[at[c]] >= 1 /\ global >= 1
  BY TaskCharged
<1>2. OwnInv' /\ NoOrphanFront'
  BY DEF OwnInv, NoOrphanFront, Listening
<1>3. TypeOK'
  <2>1. local' \in [Fronts -> Nat] /\ global' \in Nat
    BY <1>1 DEF ReleaseBoth, TypeOK
  <2> QED
    BY <2>1 DEF TypeOK
<1>4. ConnInv'
  BY DEF ConnInv, TypeOK
<1>13. TokenInv'
  <2>1. \A g \in Fronts : g \in LiveFronts' => g \in LiveFronts
    BY Live, LivePrime, RegistryAssumption DEF Listening, RegistryAssumption, Active
  <2>2. \A d \in Conns : conn'[d] \in {"dial", "pump"} =>
          at'[d] = at[d] /\ conn[d] \in {"dial", "pump"}
    OBVIOUS
  <2> QED
    BY <2>1, <2>2, TokensKept
<1>5. PICK f \in Fronts : f = at[c]
  BY <1>1
<1>6. Charged' = Charged \ {c} /\ c \in Charged
  BY DEF Charged, Active
<1>7. ActiveAt(f)' = ActiveAt(f) \ {c} /\ c \in ActiveAt(f)
  BY <1>5 DEF ActiveAt, Active
<1>8. \A g \in Fronts \ {f} : ActiveAt(g)' = ActiveAt(g)
  BY <1>5 DEF ActiveAt, Active
<1>9. Cardinality(Charged') = Cardinality(Charged) - 1
      /\ Cardinality(ActiveAt(f)') = Cardinality(ActiveAt(f)) - 1
  BY <1>6, <1>7, TasksFinite, FS_RemoveElement
<1>10. global' = Cardinality(Charged') /\ global' <= MaxRegistry
  BY <1>9, RegistryAssumption DEF ReleaseBoth, BudgetsExact, Charged, TypeOK, RegistryAssumption
<1>11. \A g \in Fronts : local'[g] = Cardinality(ActiveAt(g)') /\ local'[g] <= MaxFront
  BY <1>5, <1>8, <1>9, RegistryAssumption DEF ReleaseBoth, BudgetsExact, TypeOK,
     RegistryAssumption
<1>12. BudgetsExact'
  BY <1>10, <1>11 DEF BudgetsExact, Charged
<1> QED
  BY <1>2, <1>3, <1>4, <1>12, <1>13

\* A connection moves on within its task, or waits to be accepted.
LEMMA ConnectionNext ==
    ASSUME RegistryInv, NEW c \in Conns,
           (\E f \in Fronts : Connect(c, f)) \/ Negotiated(c) \/ Dialled(c)
    PROVE  RegistryInv'
<1> USE DEF RegistryInv
<1>1. UNCHANGED <<entries, taken, frontVars, kept, doomed, local, global>>
  BY DEF Connect, Negotiated, Dialled, Advance
<1>2. OwnInv' /\ NoOrphanFront'
  BY <1>1 DEF OwnInv, NoOrphanFront, Listening, frontVars
<1>3. \/ conn[c] = "none" /\ conn' = [conn EXCEPT ![c] = "queued"]
         /\ \E f \in Fronts : Listening(f) /\ at' = [at EXCEPT ![c] = f]
      \/ /\ UNCHANGED at
         /\ \/ conn[c] = "negotiate" /\ Authentic(c) /\ conn' = [conn EXCEPT ![c] = "dial"]
            \/ conn[c] = "dial" /\ conn' = [conn EXCEPT ![c] = "pump"]
  BY DEF Connect, Negotiated, Dialled, Advance
<1>4. TypeOK'
  <2>1. conn' \in [Conns -> {"none", "queued"} \cup Active]
    BY <1>3 DEF TypeOK, Active
  <2>2. at' \in [Conns -> Fronts \cup {NoFront}]
    BY <1>3 DEF TypeOK
  <2> QED
    BY <1>1, <2>1, <2>2 DEF TypeOK, frontVars
<1>5. ConnInv'
  BY <1>1, <1>3 DEF ConnInv, TypeOK, Active
<1>8. TokenInv'
  <2>1. ASSUME NEW g \in Fronts, g \in LiveFronts' PROVE g \in LiveFronts
    <3>1. Listening(g)' = Listening(g)
      BY <1>1 DEF Listening, frontVars
    <3>2. ASSUME NEW d \in Conns, at'[d] = g, conn'[d] \in Active \cup {"queued"}
          PROVE  Listening(g) \/ (at[d] = g /\ conn[d] \in Active \cup {"queued"})
      BY <1>3, <3>2 DEF TypeOK, Active
    <3> QED
      BY <1>1, <2>1, <3>1, <3>2, Live, LivePrime
  <2>2. \A d \in Conns : conn'[d] \in {"dial", "pump"} =>
          at'[d] = at[d] /\ (conn[d] \in {"dial", "pump"} \/ Authentic(d))
    BY <1>3 DEF TypeOK
  <2> QED
    BY <1>1, <2>1, <2>2, TokensKept DEF frontVars
<1>6. Charged' = Charged /\ \A g \in Fronts : ActiveAt(g)' = ActiveAt(g)
  BY <1>3 DEF Charged, ActiveAt, Active, TypeOK
<1>7. BudgetsExact'
  BY <1>1, <1>6 DEF BudgetsExact, Charged
<1> QED
  BY <1>2, <1>4, <1>5, <1>7, <1>8

\* Every step keeps the invariant.
LEMMA RegistryNext == RegistryInv /\ [Next]_vars => RegistryInv'
<1> SUFFICES ASSUME RegistryInv, [Next]_vars PROVE RegistryInv'
  OBVIOUS
<1>1. ASSUME NEW t \in Callers, CallerNext(t) PROVE RegistryInv'
  BY <1>1, TakeNext, StopTakenNext DEF CallerNext, Stop, StopAll
<1>2. CASE EnsureNext
  <2>1. ASSUME NEW i \in Ids, NEW r \in Revs, NEW f \in Fronts, NEW p \in FreePorts,
               NEW x \in FreshSecrets, NEW who \in SUBSET Conns,
               StartFront(f, [id |-> i, rev |-> r, port |-> p, secret |-> x], who)
        PROVE  RegistryInv'
    <3>1. [id |-> i, rev |-> r, port |-> p, secret |-> x] \in Answers
      BY DEF Answers, FreePorts, FreshSecrets
    <3> QED
      BY <2>1, <3>1, StartFrontNext
  <2> QED
    BY <1>2, <2>1, ReuseNext, RemoveNext DEF EnsureNext
<1>3. ASSUME NEW f \in Fronts, FrontNext(f) PROVE RegistryInv'
  <2>1. CASE Poll(f) \/ (Park(f) /\ ~Cancelled(f))
    <3>1. /\ OwnInv' /\ NoOrphanFront' /\ loop' \in [Fronts -> LoopStates]
          /\ \A g \in Fronts : Listening(g)' => Listening(g)
      BY <2>1, LoopNext DEF Poll, Park
    <3>2. UNCHANGED connVars
      BY <2>1 DEF Poll, Park
    <3>3. TypeOK'
      BY <2>1, <3>1 DEF Poll, Park, TypeOK, RegistryInv, connVars, LoopStates
    <3>4. UNCHANGED <<entries, taken, made>>
      BY <2>1 DEF Poll, Park
    <3>5. TokenInv'
      BY <3>1, <3>2, <3>4, Live, LivePrime, TokensKept DEF connVars
    <3> QED
      BY <3>1, <3>2, <3>3, <3>5, ConnsUnchanged DEF RegistryInv, connVars
  <2>2. CASE (Park(f) /\ Cancelled(f)) \/ Wake(f) \/ AcceptFails(f)
    BY <2>2, LeaveNext DEF Park, Wake, AcceptFails, Accepting
  <2> QED
    BY <1>3, <2>1, <2>2, AcceptNext DEF FrontNext
<1>4. ASSUME NEW c \in Conns, ConnNext(c) PROVE RegistryInv'
  <2>1. CASE NegotiationFails(c) \/ DialFails(c) \/ PumpEnds(c) \/ Reap(c)
    <3>1. conn[c] \in Active /\ EndConnection(c)
      BY <2>1 DEF NegotiationFails, DialFails, PumpEnds, Reap, RegistryInv, ConnInv, Active
    <3> QED
      BY <3>1, EndNext
  <2> QED
    BY <1>4, <2>1, ConnectionNext DEF ConnNext
<1>5. CASE UNCHANGED vars
  <2>1. UNCHANGED connVars /\ TypeOK' /\ OwnInv' /\ NoOrphanFront'
    BY <1>5 DEF RegistryInv, vars, frontVars, connVars, TypeOK, OwnInv, NoOrphanFront, Listening
  <2>2. TokenInv'
    BY <1>5, TokensKept, Live, LivePrime DEF vars, frontVars, connVars, Listening
  <2> QED
    BY <2>1, <2>2, ConnsUnchanged DEF RegistryInv, connVars
<1> QED
  BY <1>1, <1>2, <1>3, <1>4, <1>5 DEF Next

\* The inductive invariant of the registry: types, one owner per front, tasks
\* at fronts, budgets, and tokens that tell the live fronts apart.
THEOREM RegistryInvariant == Spec => []RegistryInv
BY RegistryInit, RegistryNext, PTL DEF Spec

\* The registry's, the fronts' and the connections' state keeps its type; no
\* budget goes below zero.
THEOREM RegistryTypeCorrect == Spec => []TypeOK
<1>1. RegistryInv => TypeOK
  BY DEF RegistryInv
<1> QED
  BY <1>1, RegistryInvariant, PTL

\* No front is left running without an owner, and no entry that ensure may hand
\* out was told to stop (ensure_tunnel_with, stop_revision, stop, stop_all).
THEOREM FrontsOwned == Spec => []NoOrphanFront
<1>1. RegistryInv => NoOrphanFront
  BY DEF RegistryInv
<1> QED
  BY <1>1, RegistryInvariant, PTL

\* Both budgets of serve count exactly the connection tasks that exist.
THEOREM BudgetsCorrect == Spec => []BudgetsExact
<1>1. RegistryInv => BudgetsExact
  BY DEF RegistryInv
<1> QED
  BY <1>1, RegistryInvariant, PTL

\* A connection dials only through a tunnel of the configuration and revision
\* ensured for its client (ensure_tunnel_with, negotiate), whichever ports the
\* system has reused, provided the owner's tokens are distinct.
THEOREM ClientsReachTheirs == Spec => []ReachesWhatWasEnsured
<1>1. ASSUME RegistryInv, NEW c \in Conns, conn[c] \in {"dial", "pump"}
      PROVE  made[at[c]].id = kept[c].id /\ made[at[c]].rev = kept[c].rev
  <2>1. at[c] \in Fronts /\ conn[c] \in Active
    BY <1>1 DEF RegistryInv, ConnInv, Active
  <2>2. at[c] \in LiveFronts
    BY <2>1, Live
  <2>3. kept[c] # NoAnswer /\ kept[c].secret = made[at[c]].secret
    BY <1>1 DEF RegistryInv, TokenInv, Authentic
  <2> QED
    BY <1>1, <2>2, <2>3 DEF RegistryInv, TokenInv
<1>2. RegistryInv => ReachesWhatWasEnsured
  BY <1>1 DEF ReachesWhatWasEnsured
<1> QED
  BY <1>2, RegistryInvariant, PTL

=============================================================================
