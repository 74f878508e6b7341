---------------------------- MODULE AuditorProofs ----------------------------
(* Proofs about the auditor, for any constraints, resources, verdicts and     *)
(* masks: what holds although the listener writes under the loop's feet.      *)
EXTENDS Auditor, PoliciesProofs, SequenceTheorems

Current == [id : ConstraintIds, added : BOOLEAN, code : Codes \cup {Absent}]
Auditing == {"select", "range", "match", "evaluate"}

SourceOK ==
    /\ object \in [Resources -> ObjectVersions \cup {Absent}]
    /\ informer \in [Resources -> Seq(ObjectVersions \cup {Absent, Nil})]
    /\ source \in {"syncing", "synced", "watching"}
    /\ crashed \in BOOLEAN

\* The listener is at a constraint between the writes of UpdateConstraint and of
\* RemoveConstraint.
ListenOK ==
    /\ listener \in {"idle", "table", "template", "delete", "cache", "event"}
    /\ current \in Current \cup {Absent}
    /\ updated \subseteq ConstraintIds
    /\ listener \in {"template", "delete", "cache"} => current \in Current
    /\ listener = "template" => Found(current.id) /\ current.code \in Codes
    /\ listener = "idle" => updated = {}

\* What the loop has listed exists, and it is at one of these resources.
LoopOK ==
    /\ loop \in {"select", "all", "one"}
    /\ ids \subseteq ConstraintIds
    /\ DOMAIN snapshot \subseteq Resources
    /\ \A r \in DOMAIN snapshot : snapshot[r] \in ObjectVersions
    /\ stage \in Auditing \cup {"next", "compare", "cache", "send"}
    /\ target \in Resources \cup {Absent}
    /\ stage # "next" => target \in DOMAIN snapshot
    /\ loop = "select" => DOMAIN snapshot = {}

\* What Audit holds of the constraints
RangeOK ==
    /\ unreached \subseteq ConstraintIds
    /\ reached \subseteq ConstraintIds
    /\ at \in ConstraintIds \cup {Absent}
    /\ record \in Constraint \cup {Absent}
    /\ DOMAIN selected \subseteq ConstraintIds
    /\ \A d \in DOMAIN selected : selected[d] \in Constraint
    /\ stage \notin Auditing => DOMAIN selected = {}
    /\ stage \in {"match", "evaluate"} => at \in ConstraintIds
    /\ stage \in {"range", "match", "evaluate"} /\ ids # {} => unreached \subseteq DOMAIN selected
    /\ stage = "match" /\ ids # {} => at \in DOMAIN selected
    /\ stage = "evaluate" => record \in Constraint

ResultsOK ==
    /\ results \in Seq(Result)
    /\ kept \in Seq(Result)
    /\ stage \notin {"compare", "cache"} => kept = <<>>
    /\ stage = "next" => results = <<>>

TablesOK ==
    /\ cache \in Table
    /\ told \in Table
    /\ overlooked \subseteq ConstraintIds
    /\ touched \in BOOLEAN

AudInv == PolTypeOK /\ SourceOK /\ ListenOK /\ LoopOK /\ RangeOK /\ ResultsOK /\ TablesOK

LEMMA AudInvTypes == AudInv => AudTypeOK
BY DEF AudInv, AudTypeOK, SourceOK, ListenOK, LoopOK, RangeOK, ResultsOK, TablesOK, Current, Auditing

LEMMA NoEntriesType ==
    NoEntries \in [Resources -> Statuses \cup {Absent}] /\ \A r \in Resources : NoEntries[r] = Absent
BY DEF NoEntries

\* Taking the first element of a sequence
LEMMA Taken ==
    ASSUME NEW S, NEW s \in Seq(S), s # <<>>
    PROVE  /\ Head(s) \in S /\ Head(s) = s[1]
           /\ Tail(s) \in Seq(S)
           /\ Len(s) \in Nat /\ Len(s) >= 1
           /\ Len(Tail(s)) = Len(s) - 1
           /\ \A i \in 1..Len(Tail(s)) : Tail(s)[i] = s[i + 1]
<1>1. Len(s) \in Nat /\ Len(s) >= 1
    BY EmptySeq
<1>2. Head(s) = s[1] /\ Head(s) \in S
    BY <1>1
<1>3. Tail(s) \in Seq(S) /\ Len(Tail(s)) = Len(s) - 1
      /\ \A i \in 1..Len(Tail(s)) : Tail(s)[i] = s[i + 1]
    BY <1>1
<1> QED BY <1>1, <1>2, <1>3

\* Adding one at the end
LEMMA Appended ==
    ASSUME NEW S, NEW s \in Seq(S), NEW e \in S
    PROVE  /\ Append(s, e) \in Seq(S)
           /\ Append(s, e) # <<>>
           /\ Len(s) \in Nat
           /\ Len(Append(s, e)) = Len(s) + 1
           /\ Append(s, e)[Len(s) + 1] = e
           /\ \A i \in 1..Len(s) : Append(s, e)[i] = s[i]
OBVIOUS

LEMMA AudInvInit == AudInit => AudInv
<1> SUFFICES ASSUME AudInit PROVE AudInv
    OBVIOUS
<1>1. PolTypeOK
    BY DEF AudInit, PolInit, PolTypeOK
<1>2. SourceOK
    <2> DEFINE W == ObjectVersions \cup {Absent, Nil}
    <2>1. <<>> \in Seq(W)
        OBVIOUS
    <2> HIDE DEF W
    <2>2. informer \in [Resources -> Seq(W)]
        BY <2>1 DEF AudInit
    <2> QED BY <2>2 DEF AudInit, SourceOK, W
<1>3. ListenOK
    BY DEF AudInit, ListenOK
<1>4. LoopOK /\ RangeOK /\ ResultsOK
    <2>1. DOMAIN snapshot = {} /\ DOMAIN selected = {}
        BY DEF AudInit, NoSnapshot, NoConstraints
    <2> QED BY <2>1 DEF AudInit, LoopOK, RangeOK, ResultsOK, Auditing
<1>5. TablesOK
    BY NoEntriesType DEF AudInit, TablesOK, Table
<1> QED BY <1>1, <1>2, <1>3, <1>4, <1>5 DEF AudInv

------------------------------------------------------------------------------
(* The steps, by who takes them *)

LEMMA ClusterKeeps ==
    ASSUME AudInv,
           Attach \/ \E r \in Resources : Change(r) \/ MissedDelete(r) \/ HandlerCrash(r)
    PROVE  AudInv'
<1> USE AuditorConstants
<1>1. UNCHANGED <<polVars, listenVars, loopVars, cache, told, ghostVars>>
    BY DEF Attach, Change, MissedDelete, HandlerCrash
<1>2. SourceOK'
    <2> DEFINE V == ObjectVersions \cup {Absent}
               W == ObjectVersions \cup {Absent, Nil}
    <2>1. \A v \in V : MaskUnstructured(v) \in W
        BY DEF MaskUnstructured
    <2>2. object \in [Resources -> V] /\ informer \in [Resources -> Seq(W)]
          /\ source \in {"syncing", "synced", "watching"} /\ crashed \in BOOLEAN
        BY DEF AudInv, SourceOK
    <2>3. CASE Attach
        <3>1. \A r \in Resources :
                  (IF object[r] \in {Absent} \cup Unmaskable THEN <<>>
                   ELSE <<MaskUnstructured(object[r])>>) \in Seq(W)
            <4> TAKE r \in Resources
            <4>1. MaskUnstructured(object[r]) \in W
                BY <2>1, <2>2
            <4> HIDE DEF W
            <4> QED BY <4>1
        <3> QED BY <2>2, <2>3, <3>1 DEF Attach, SourceOK
    <2>4. ASSUME NEW r \in Resources, Change(r) PROVE SourceOK'
        <3>1. PICK v \in V \ {object[r]} : object' = [object EXCEPT ![r] = v] /\ Notify(r, v)
            BY <2>4 DEF Change
        <3>2. Notification(object[r], v) \in W
            BY <2>1 DEF Notification
        <3>3. Append(informer[r], Notification(object[r], v)) \in Seq(W)
            <4> HIDE DEF W
            <4> QED BY <2>2, <3>2
        <3>4. informer' \in [Resources -> Seq(W)]
            <4> HIDE DEF W
            <4> QED BY <2>2, <3>1, <3>3 DEF Notify
        <3>5. object' \in [Resources -> V]
            BY <2>2, <3>1
        <3>6. source' = source /\ crashed' = crashed
            BY <2>4 DEF Change
        <3> QED BY <2>2, <3>4, <3>5, <3>6 DEF SourceOK
    <2>5. ASSUME NEW r \in Resources, MissedDelete(r) PROVE SourceOK'
        BY <2>2, <2>5 DEF MissedDelete, SourceOK
    <2>6. ASSUME NEW r \in Resources, HandlerCrash(r) PROVE SourceOK'
        BY <2>2, <2>6 DEF HandlerCrash, SourceOK
    <2> QED BY <2>3, <2>4, <2>5, <2>6
<1>3. PolTypeOK' /\ ListenOK' /\ TablesOK'
    BY <1>1 DEF polVars, countVars, listenVars, ghostVars, AudInv, PolTypeOK, ListenOK, TablesOK, Found
<1>4. LoopOK' /\ RangeOK' /\ ResultsOK'
    BY <1>1 DEF loopVars, rangeVars, AudInv, LoopOK, RangeOK, ResultsOK
<1> QED BY <1>2, <1>3, <1>4 DEF AudInv

LEMMA CommandKeeps == ASSUME AudInv, Command \/ UNCHANGED audVars PROVE AudInv'
<1>1. UNCHANGED <<polVars, sourceVars, listenVars, loopVars, cache, told, ghostVars>>
    BY DEF Command, audVars
<1>2. PolTypeOK' /\ SourceOK' /\ ListenOK' /\ TablesOK'
    BY <1>1 DEF polVars, countVars, sourceVars, listenVars, ghostVars, AudInv, PolTypeOK, SourceOK,
                ListenOK, TablesOK, Found
<1>3. LoopOK' /\ RangeOK' /\ ResultsOK'
    BY <1>1 DEF loopVars, rangeVars, AudInv, LoopOK, RangeOK, ResultsOK
<1> QED BY <1>2, <1>3 DEF AudInv

\* A step of the listener leaves the cluster and the loop alone, but for the keys
\* that a range forgets.
LEMMA ListenerFrame ==
    ASSUME AudInv,
           UNCHANGED <<sourceVars, loop, ids, snapshot, stage, target, selected, at, record, results,
                       kept, told>>,
           unreached' \subseteq unreached, reached' \subseteq reached,
           overlooked' \subseteq ConstraintIds, touched' \in BOOLEAN,
           cache' \in Table, PolTypeOK', ListenOK'
    PROVE  AudInv'
<1>1. SourceOK' /\ TablesOK'
    BY DEF sourceVars, AudInv, SourceOK, TablesOK
<1>2. LoopOK' /\ ResultsOK'
    BY DEF AudInv, LoopOK, ResultsOK
<1>3. RangeOK'
    BY DEF AudInv, RangeOK
<1> QED BY <1>1, <1>2, <1>3 DEF AudInv

\* The item of a request
LEMMA ItemFields ==
    ASSUME NEW i \in Items
    PROVE  i.id \in ConstraintIds /\ i.template \in TemplateIds /\ i.updatedAt \in Versions
           /\ i.code \in Codes
BY ItemsAssumption DEF Item

LEMMA TouchType == ASSUME TablesOK, Touch PROVE touched' \in BOOLEAN
BY Zenon DEF Touch

LEMMA RequestUpdateKeeps ==
    ASSUME AudInv, NEW i \in Items, RequestUpdate(i)
    PROVE  AudInv'
<1>0. PICK c \in ConstraintIds, t \in TemplateIds, v \in Versions, code \in Codes :
          c = i.id /\ t = i.template /\ v = i.updatedAt /\ code = i.code
    BY ItemFields
<1>1. UNCHANGED <<sourceVars, loopVars, cache, told, overlooked, updated>>
    BY DEF RequestUpdate
<1>2. \/ /\ KeepConstraint(c, v)
         /\ listener' = "table"
         /\ UNCHANGED <<current, touched>>
      \/ /\ Store(c, t, v)
         /\ current' = [id |-> c, added |-> ~Found(c), code |-> code]
         /\ listener' = "template"
         /\ Touch
         /\ UNCHANGED <<templates, refused, panicked, countVars>>
    BY <1>0 DEF RequestUpdate
<1>3. PolTypeOK /\ ListenOK /\ TablesOK
    BY DEF AudInv
<1>4. UNCHANGED <<sourceVars, loop, ids, snapshot, stage, target, selected, at, record, results,
                  kept, told, unreached, reached, overlooked, cache>>
    BY <1>1 DEF loopVars, rangeVars
<1>5. CASE KeepConstraint(c, v) /\ listener' = "table" /\ UNCHANGED <<current, touched>>
    <2>1. PolTypeOK'
        BY <1>3, <1>5 DEF KeepConstraint, countVars, PolTypeOK
    <2>2. ListenOK'
        BY <1>1, <1>3, <1>5 DEF ListenOK
    <2> QED BY <1>3, <1>4, <1>5, <2>1, <2>2, ListenerFrame DEF TablesOK
<1>6. CASE /\ Store(c, t, v)
           /\ current' = [id |-> c, added |-> ~Found(c), code |-> code]
           /\ listener' = "template"
           /\ Touch
           /\ UNCHANGED <<templates, refused, panicked, countVars>>
    <2>1. /\ constraints' \in [ConstraintIds -> Constraint \cup {Absent}]
          /\ constraints'[c] # Absent
        BY <1>3, <1>6, StoredType
    <2>2. PolTypeOK'
        BY <1>3, <1>6, <2>1 DEF PolTypeOK, countVars
    <2>3. (~Found(c)) \in BOOLEAN
        OBVIOUS
    <2>4. current' \in Current /\ current'.id = c /\ current'.code = code
        BY <1>6, <2>3 DEF Current
    <2>5. ListenOK'
        BY <1>1, <1>3, <1>6, <2>1, <2>4 DEF ListenOK, Found
    <2>6. touched' \in BOOLEAN
        BY <1>3, <1>6, TouchType
    <2> QED BY <1>3, <1>4, <2>2, <2>5, <2>6, ListenerFrame DEF TablesOK
<1> QED BY <1>2, <1>5, <1>6

LEMMA RequestTemplateKeeps ==
    ASSUME AudInv, RequestTemplate
    PROVE  AudInv'
<1>1. UNCHANGED <<sourceVars, loopVars, cache, told>>
    BY DEF RequestTemplate
<1>2. PolTypeOK /\ ListenOK /\ TablesOK
    BY DEF AudInv
<1>3. current \in Current /\ Found(current.id) /\ current.id \in ConstraintIds /\ current.code \in Codes
    BY <1>2 DEF RequestTemplate, ListenOK, Current
<1>4. PICK c \in ConstraintIds, t \in TemplateIds, added \in BOOLEAN, code \in Codes :
        c = current.id /\ t = constraints[c].template /\ added = current.added /\ code = current.code
    BY <1>2, <1>3, EntryTypes DEF Current
<1>5. /\ IF added THEN AddTemplate(c, t, code) /\ UNCHANGED panicked
         ELSE ReplaceTemplate(c, t, code)
      /\ listener' = IF c \in refused' THEN "table" ELSE "cache"
      /\ current' = IF c \in refused' THEN Absent ELSE current
      /\ updated' = IF c \in refused' THEN updated ELSE updated \cup {c}
      /\ overlooked' = overlooked \cup Overlooks(c, t)
      /\ constraints' = constraints
    BY <1>4 DEF RequestTemplate
<1>6. PolTypeOK'
    <2>1. CASE added
        BY <1>2, <1>5, <2>1, AddTemplateType DEF PolTypeOK
    <2>2. CASE ~added
        BY <1>2, <1>5, <2>2, ReplaceTemplateType DEF PolTypeOK
    <2> QED BY <2>1, <2>2
<1>7. ListenOK'
    BY <1>2, <1>3, <1>5 DEF ListenOK
<1>8. overlooked' \subseteq ConstraintIds
    <2>1. Overlooks(c, t) \subseteq ConstraintIds
        BY DEF Overlooks
    <2> QED BY <1>2, <1>5, <2>1 DEF TablesOK
<1>9. touched' \in BOOLEAN
    BY <1>2, TouchType DEF RequestTemplate
<1>10. UNCHANGED <<sourceVars, loop, ids, snapshot, stage, target, selected, at, record, results,
                   kept, told, unreached, reached, cache>>
    BY <1>1 DEF loopVars, rangeVars
<1> QED BY <1>2, <1>6, <1>7, <1>8, <1>9, <1>10, ListenerFrame DEF TablesOK

LEMMA RequestRemoveKeeps ==
    ASSUME AudInv, NEW c \in ConstraintIds, RequestRemove(c)
    PROVE  AudInv'
<1>1. UNCHANGED <<sourceVars, loopVars, cache, told, overlooked, updated, constraints>>
    BY DEF RequestRemove
<1>2. PolTypeOK /\ ListenOK /\ TablesOK /\ Found(c)
    BY DEF AudInv, RequestRemove
<1>3. PolTypeOK'
    BY <1>1, <1>2, DropTemplateType DEF RequestRemove, PolTypeOK
<1>4. current' \in Current /\ listener' = "delete"
    BY DEF RequestRemove, Current
<1>5. ListenOK'
    BY <1>1, <1>2, <1>4 DEF ListenOK
<1>6. touched' \in BOOLEAN
    BY <1>2, TouchType DEF RequestRemove
<1>7. UNCHANGED <<sourceVars, loop, ids, snapshot, stage, target, selected, at, record, results,
                  kept, told, unreached, reached, overlooked, cache>>
    BY <1>1 DEF loopVars, rangeVars
<1> QED BY <1>2, <1>3, <1>5, <1>6, <1>7, ListenerFrame DEF TablesOK

LEMMA RequestDeleteKeeps ==
    ASSUME AudInv, RequestDelete
    PROVE  AudInv'
<1>1. PolTypeOK /\ ListenOK /\ TablesOK
    BY DEF AudInv
<1>2. PolTypeOK'
    BY <1>1 DEF RequestDelete, PolTypeOK, countVars
<1>3. ListenOK'
    BY <1>1 DEF RequestDelete, ListenOK
<1>4. touched' \in BOOLEAN
    BY <1>1, TouchType DEF RequestDelete
<1>5. unreached' \subseteq unreached /\ reached' \subseteq reached /\ overlooked' \subseteq ConstraintIds
    BY <1>1 DEF RequestDelete, TablesOK
<1>6. UNCHANGED <<sourceVars, loop, ids, snapshot, stage, target, selected, at, record, results,
                  kept, told, cache>>
    BY DEF RequestDelete
<1> QED BY <1>1, <1>2, <1>3, <1>4, <1>5, <1>6, ListenerFrame DEF TablesOK

\* cache.RemoveConstraint forgets, and never adds.
LEMMA RequestUncacheKeeps ==
    ASSUME AudInv, RequestUncache
    PROVE  AudInv'
<1>1. UNCHANGED <<polVars, sourceVars, loopVars, told, ghostVars, updated>>
      /\ cache' = [cache EXCEPT ![current.id] = NoEntries]
    BY DEF RequestUncache
<1>2. ListenOK /\ PolTypeOK /\ TablesOK
    BY DEF AudInv
<1>3. cache' \in Table
    BY <1>1, <1>2, NoEntriesType DEF TablesOK, Table
<1>4. PolTypeOK'
    BY <1>1, <1>2 DEF polVars, countVars, PolTypeOK
<1>5. ListenOK'
    BY <1>1, <1>2 DEF RequestUncache, ListenOK
<1>6. UNCHANGED <<sourceVars, loop, ids, snapshot, stage, target, selected, at, record, results,
                  kept, told, unreached, reached, overlooked, touched>>
    BY <1>1 DEF loopVars, rangeVars, ghostVars
<1> QED BY <1>2, <1>3, <1>4, <1>5, <1>6, ListenerFrame DEF TablesOK

LEMMA RequestDoneKeeps ==
    ASSUME AudInv, RequestDone
    PROVE  AudInv'
<1>1. UNCHANGED <<polVars, sourceVars, loopVars, cache, told, ghostVars, updated, current>>
    BY DEF RequestDone
<1>2. ListenOK /\ PolTypeOK /\ TablesOK
    BY DEF AudInv
<1>3. PolTypeOK'
    BY <1>1, <1>2 DEF polVars, countVars, PolTypeOK
<1>4. ListenOK'
    BY <1>1, <1>2 DEF RequestDone, ListenOK
<1>5. UNCHANGED <<sourceVars, loop, ids, snapshot, stage, target, selected, at, record, results,
                  kept, told, unreached, reached, overlooked, touched, cache>>
    BY <1>1 DEF loopVars, rangeVars, ghostVars
<1> QED BY <1>2, <1>3, <1>4, <1>5, ListenerFrame DEF TablesOK

------------------------------------------------------------------------------
(* The loop *)

\* A step of the select only decides what to audit next.
LEMMA TakeFrame ==
    ASSUME AudInv, loop = "select",
           UNCHANGED <<polVars, stage, target, rangeVars, results, kept, told, touched>>,
           SourceOK', ListenOK', overlooked' \subseteq ConstraintIds, cache' \in Table,
           loop' \in {"select", "all", "one"}, ids' \subseteq ConstraintIds,
           DOMAIN snapshot' \subseteq Resources,
           \A r \in DOMAIN snapshot' : snapshot'[r] \in ObjectVersions,
           loop' = "select" => DOMAIN snapshot' = {}
    PROVE  AudInv'
<1>1. stage = "next" /\ stage' = "next"
    BY DEF AudInv, LoopOK
<1>2. PolTypeOK' /\ TablesOK'
    BY DEF polVars, countVars, AudInv, PolTypeOK, TablesOK
<1>3. LoopOK'
    BY <1>1 DEF AudInv, LoopOK
<1>4. RangeOK' /\ ResultsOK'
    BY <1>1 DEF AudInv, RangeOK, ResultsOK, rangeVars, Auditing
<1> QED BY <1>2, <1>3, <1>4 DEF AudInv

\* A listing has only resources that exist.
LEMMA ListingOK ==
    ASSUME SourceOK, NEW wanted \in SUBSET ConstraintIds, NEW L \in SUBSET Existing,
           StartAll(wanted, L)
    PROVE  /\ loop' \in {"select", "all", "one"} /\ ids' \subseteq ConstraintIds
           /\ DOMAIN snapshot' = L /\ L \subseteq Resources
           /\ \A r \in L : snapshot'[r] = object[r] /\ object[r] \in ObjectVersions
           /\ loop' = "select" => L = {}
<1>1. DOMAIN snapshot' = L /\ \A r \in L : snapshot'[r] = object[r]
    BY DEF StartAll
<1>2. \A r \in L : r \in Resources /\ object[r] \in ObjectVersions
    BY DEF SourceOK, Existing
<1> QED BY <1>1, <1>2 DEF StartAll

LEMMA TakeKeeps ==
    ASSUME AudInv, TakePolicies \/ TakeSync \/ TakeCommand
    PROVE  AudInv'
<1>1. SourceOK /\ ListenOK /\ LoopOK /\ TablesOK
    BY DEF AudInv
<1>2. PICK wanted \in SUBSET ConstraintIds, L \in SUBSET Existing : StartAll(wanted, L)
    <2>1. CASE TakePolicies
        BY <1>1, <2>1 DEF TakePolicies, ListenOK, Listed
    <2>2. CASE TakeSync
        BY <2>2 DEF TakeSync
    <2>3. CASE TakeCommand
        BY <2>3 DEF TakeCommand, Listed
    <2> QED BY <2>1, <2>2, <2>3
<1>3. loop = "select" /\ UNCHANGED <<polVars, cache, told>>
    BY DEF TakePolicies, TakeSync, TakeCommand
<1>4. UNCHANGED <<stage, target, rangeVars, results, kept, touched>>
      /\ overlooked' \subseteq ConstraintIds
    BY <1>1, <1>2 DEF StartAll, TablesOK
<1>5. SourceOK'
    BY <1>1 DEF TakePolicies, TakeSync, TakeCommand, sourceVars, SourceOK
<1>6. ListenOK'
    <2>1. constraints' = constraints
        BY <1>3 DEF polVars
    <2> QED BY <1>1, <2>1 DEF TakePolicies, TakeSync, TakeCommand, listenVars, ListenOK, Found
<1>7. cache' \in Table
    BY <1>1, <1>3 DEF TablesOK
<1>8. /\ loop' \in {"select", "all", "one"} /\ ids' \subseteq ConstraintIds
      /\ DOMAIN snapshot' \subseteq Resources
      /\ \A r \in DOMAIN snapshot' : snapshot'[r] \in ObjectVersions
      /\ loop' = "select" => DOMAIN snapshot' = {}
    BY <1>1, <1>2, ListingOK
<1> QED BY <1>3, <1>4, <1>5, <1>6, <1>7, <1>8, TakeFrame

LEMMA TakeResourceKeeps ==
    ASSUME AudInv, NEW r \in Resources, TakeResource(r)
    PROVE  AudInv'
<1> USE AuditorConstants
<1> DEFINE W == ObjectVersions \cup {Absent, Nil}
           v == Head(informer[r])
<1>1. /\ informer \in [Resources -> Seq(W)] /\ informer[r] # <<>>
      /\ informer' = [informer EXCEPT ![r] = Tail(@)]
    BY DEF AudInv, SourceOK, TakeResource
<1>2. v \in W /\ Tail(informer[r]) \in Seq(W)
    <2> HIDE DEF W
    <2>1. informer[r] \in Seq(W)
        BY <1>1
    <2> QED BY <1>1, <2>1, Taken
<1>3. informer' \in [Resources -> Seq(W)]
    <2> HIDE DEF W
    <2> QED BY <1>1, <1>2
<1>4. SourceOK'
    BY <1>3 DEF AudInv, SourceOK, TakeResource
<1>5. UNCHANGED <<polVars, listenVars, stage, target, rangeVars, results, kept, told, ghostVars>>
      /\ loop = "select"
    BY DEF TakeResource
<1>6. ListenOK'
    BY <1>5 DEF AudInv, polVars, listenVars, ListenOK, Found
<1>7. /\ loop' \in {"select", "all", "one"} /\ ids' \subseteq ConstraintIds
      /\ DOMAIN snapshot' \subseteq Resources
      /\ \A x \in DOMAIN snapshot' : snapshot'[x] \in ObjectVersions
      /\ loop' = "select" => DOMAIN snapshot' = {}
    <2>1. \/ UNCHANGED <<loop, ids, snapshot>>
          \/ /\ loop' = "one" /\ ids' = {} /\ snapshot' = [x \in {r} |-> v] /\ v # Absent /\ v # Nil
        BY DEF TakeResource
    <2>2. CASE UNCHANGED <<loop, ids, snapshot>>
        BY <2>2 DEF AudInv, LoopOK
    <2>3. CASE loop' = "one" /\ ids' = {} /\ snapshot' = [x \in {r} |-> v] /\ v # Absent /\ v # Nil
        <3>1. DOMAIN snapshot' = {r} /\ snapshot'[r] \in ObjectVersions
            BY <1>2, <2>3
        <3> HIDE DEF v
        <3> QED BY <2>3, <3>1
    <2> QED BY <2>1, <2>2, <2>3
<1>8. cache' \in Table
    <2>1. \/ cache' = cache
          \/ cache' = [c \in ConstraintIds |-> [cache[c] EXCEPT ![r] = Absent]]
        BY DEF TakeResource
    <2> QED BY <2>1 DEF AudInv, TablesOK, Table
<1>9. overlooked' \subseteq ConstraintIds /\ UNCHANGED touched
    BY <1>5 DEF AudInv, TablesOK, ghostVars
<1> QED BY <1>4, <1>5, <1>6, <1>7, <1>8, <1>9, TakeFrame

\* What a step of Audit or of what follows leaves alone keeps its type.
LEMMA AuditKeeps ==
    ASSUME AudInv, AuditFrame, panicked' \in BOOLEAN, touched' \in BOOLEAN,
           cache' \in Table, told' \in Table, LoopOK', RangeOK', ResultsOK'
    PROVE  AudInv'
<1>1. PolTypeOK' /\ TablesOK'
    BY DEF AuditFrame, countVars, AudInv, PolTypeOK, TablesOK
<1>2. SourceOK' /\ ListenOK'
    BY DEF AuditFrame, sourceVars, listenVars, AudInv, SourceOK, ListenOK, Found
<1> QED BY <1>1, <1>2 DEF AudInv

\* Done with a resource
LEMMA LeaveOK ==
    ASSUME LoopOK, NEW r, Leave(r)
    PROVE  /\ loop' \in {"select", "all", "one"} /\ ids' \subseteq ConstraintIds
           /\ DOMAIN snapshot' = DOMAIN snapshot \ {r}
           /\ \A x \in DOMAIN snapshot' : snapshot'[x] = snapshot[x] /\ snapshot'[x] \in ObjectVersions
           /\ loop' = "select" => DOMAIN snapshot' = {}
           /\ DOMAIN snapshot' # {} => ids' = ids
<1>1. DOMAIN snapshot' = DOMAIN snapshot \ {r} /\ \A x \in DOMAIN snapshot' : snapshot'[x] = snapshot[x]
    BY DEF Leave
<1>2. CASE DOMAIN snapshot = {r}
    BY <1>1, <1>2 DEF LoopOK, Leave
<1>3. CASE DOMAIN snapshot # {r}
    <2>1. loop' = loop /\ ids' = ids
        BY <1>3 DEF Leave
    <2> QED BY <1>1, <2>1 DEF LoopOK
<1> QED BY <1>2, <1>3

LEMMA AuditBeginKeeps ==
    ASSUME AudInv, NEW r \in Resources, AuditBegin(r)
    PROVE  AudInv'
<1>1. /\ AuditFrame /\ stage = "next" /\ r \in DOMAIN snapshot
      /\ UNCHANGED <<panicked, selected, reached, at, record, results, kept, cache, told>>
    BY DEF AuditBegin
<1>2. PolTypeOK /\ LoopOK /\ RangeOK /\ ResultsOK /\ TablesOK /\ panicked' \in BOOLEAN
      /\ cache' \in Table /\ told' \in Table
    BY <1>1 DEF AudInv, PolTypeOK, TablesOK
<1>3. CASE r \in Owned
    <2>1. Leave(r) /\ UNCHANGED <<stage, target, unreached, touched>>
        BY <1>3 DEF AuditBegin
    <2>2. LoopOK'
        BY <1>1, <1>2, <2>1, LeaveOK DEF LoopOK
    <2>3. RangeOK' /\ ResultsOK'
        BY <1>1, <1>2, <2>1 DEF RangeOK, ResultsOK, Auditing
    <2> QED BY <1>1, <1>2, <2>1, <2>2, <2>3, AuditKeeps DEF TablesOK
<1>4. CASE r \notin Owned
    <2>1. /\ target' = r /\ UNCHANGED <<loop, ids, snapshot>>
          /\ stage' = IF ids = {} THEN "range" ELSE "select"
          /\ unreached' = IF ids = {} THEN {c \in ConstraintIds : Found(c)} ELSE ids
          /\ touched' = (listener \in {"template", "delete"})
        BY <1>4 DEF AuditBegin
    <2>2. touched' \in BOOLEAN
        <3>1. touched' = TRUE \/ touched' = FALSE
            BY <2>1
        <3> QED BY <3>1
    <2>3. LoopOK'
        BY <1>1, <1>2, <2>1 DEF LoopOK, Auditing
    <2>4. RangeOK'
        <3>1. unreached' \subseteq ConstraintIds
            BY <1>2, <2>1 DEF LoopOK
        <3> QED BY <1>1, <1>2, <2>1, <3>1 DEF RangeOK, Auditing
    <2>5. ResultsOK'
        BY <1>1, <1>2, <2>1 DEF ResultsOK
    <2> QED BY <1>1, <1>2, <2>2, <2>3, <2>4, <2>5, AuditKeeps
<1> QED BY <1>3, <1>4

\* What getConstraints copies
LEMMA Copied ==
    ASSUME NEW c \in ConstraintIds, AuditSelect(c)
    PROVE  /\ Found(c) => /\ DOMAIN selected' = DOMAIN selected \cup {c}
                          /\ selected'[c] = constraints[c]
                          /\ \A d \in DOMAIN selected \ {c} : selected'[d] = selected[d]
           /\ ~Found(c) => selected' = selected
BY DEF AuditSelect

LEMMA AuditSelectKeeps ==
    ASSUME AudInv, NEW c \in ConstraintIds, AuditSelect(c)
    PROVE  AudInv'
<1>1. /\ AuditFrame /\ stage = "select" /\ c \in unreached
      /\ UNCHANGED <<panicked, loop, ids, snapshot, target, reached, at, record, results, kept, cache,
                     told, touched>>
      /\ unreached' = IF unreached = {c} THEN DOMAIN selected' ELSE unreached \ {c}
      /\ stage' = IF unreached = {c} THEN "range" ELSE "select"
    BY DEF AuditSelect
<1>2. PolTypeOK /\ LoopOK /\ RangeOK /\ ResultsOK /\ TablesOK /\ panicked' \in BOOLEAN
    BY <1>1 DEF AudInv, PolTypeOK
<1>3. DOMAIN selected' \subseteq ConstraintIds /\ \A d \in DOMAIN selected' : selected'[d] \in Constraint
    <2>1. CASE Found(c)
        <3>1. constraints[c] \in Constraint
            BY <1>2, <2>1 DEF PolTypeOK, Found
        <3> QED BY <1>2, <2>1, <3>1, Copied DEF RangeOK
    <2>2. CASE ~Found(c)
        BY <1>2, <2>2, Copied DEF RangeOK
    <2> QED BY <2>1, <2>2
<1>4. LoopOK'
    BY <1>1, <1>2 DEF LoopOK, Auditing
<1>5. RangeOK'
    BY <1>1, <1>2, <1>3 DEF RangeOK, Auditing
<1>6. ResultsOK'
    BY <1>1, <1>2 DEF ResultsOK
<1> QED BY <1>1, <1>2, <1>4, <1>5, <1>6, AuditKeeps DEF TablesOK

LEMMA AuditNextKeeps ==
    ASSUME AudInv, NEW c \in ConstraintIds, AuditNext(c)
    PROVE  AudInv'
<1>1. /\ AuditFrame /\ stage = "range" /\ (ids # {} => c \in unreached)
      /\ UNCHANGED <<panicked, loop, ids, snapshot, target, selected, record, results, kept, cache,
                     told, touched>>
      /\ unreached' = unreached \ {c} /\ reached' = reached \cup {c} /\ at' = c /\ stage' = "match"
    BY DEF AuditNext
<1>2. PolTypeOK /\ LoopOK /\ RangeOK /\ ResultsOK /\ TablesOK /\ panicked' \in BOOLEAN
    BY <1>1 DEF AudInv, PolTypeOK
<1>3. LoopOK'
    BY <1>1, <1>2 DEF LoopOK, Auditing
<1>4. RangeOK'
    BY <1>1, <1>2 DEF RangeOK, Auditing
<1>5. ResultsOK'
    BY <1>1, <1>2 DEF ResultsOK
<1> QED BY <1>1, <1>2, <1>3, <1>4, <1>5, AuditKeeps DEF TablesOK

\* The constraint Audit is at, as AuditMatch finds it
Matched == IF ids = {} THEN constraints[at] ELSE selected[at]

\* The three outcomes of AuditMatch
LEMMA MatchCases ==
    ASSUME AudInv, AuditMatch
    PROVE  \/ Matched = Absent /\ panicked' = TRUE /\ UNCHANGED <<stage, at, record>>
           \/ /\ Matched # Absent /\ snapshot[target] \in Matching[Matched.updatedAt]
              /\ stage' = "evaluate" /\ record' = Matched /\ UNCHANGED <<at, panicked>>
           \/ /\ Matched # Absent /\ snapshot[target] \notin Matching[Matched.updatedAt]
              /\ stage' = "range" /\ at' = Absent /\ UNCHANGED <<record, panicked>>
BY DEF AuditMatch, Matched

LEMMA AuditMatchKeeps ==
    ASSUME AudInv, AuditMatch
    PROVE  AudInv'
<1>1. /\ AuditFrame /\ stage = "match"
      /\ UNCHANGED <<loop, ids, snapshot, target, selected, unreached, reached, results, kept, cache,
                     told, touched>>
    BY DEF AuditMatch
<1>2. PolTypeOK /\ LoopOK /\ RangeOK /\ ResultsOK /\ TablesOK /\ panicked \in BOOLEAN
    BY DEF AudInv, PolTypeOK
<1>3. Matched \in Constraint \cup {Absent}
    BY <1>1, <1>2 DEF Matched, RangeOK, PolTypeOK
<1>4. panicked' \in BOOLEAN
    BY <1>2, MatchCases
<1>5. LoopOK'
    BY <1>1, <1>2, MatchCases DEF LoopOK, Auditing
<1>6. RangeOK'
    BY <1>1, <1>2, <1>3, MatchCases DEF RangeOK, Auditing
<1>7. ResultsOK'
    BY <1>1, <1>2, MatchCases DEF ResultsOK
<1> QED BY <1>1, <1>2, <1>4, <1>5, <1>6, <1>7, AuditKeeps DEF TablesOK

\* The verdict of a policy on a resource is a status.
LEMMA VerdictStatus ==
    ASSUME NEW u \in Versions, NEW k \in Parsable, NEW o \in ObjectVersions
    PROVE  Verdict[u][k][o] \in Statuses
BY DEF Statuses

\* The two outcomes of AuditEvaluate
LEMMA EvaluateCases ==
    ASSUME AudInv, AuditEvaluate
    PROVE  \/ /\ templates[record.template] = Absent /\ panicked' = TRUE
              /\ UNCHANGED <<stage, at, record, results>>
           \/ /\ templates[record.template] # Absent /\ panicked' = panicked
              /\ stage' = "range" /\ at' = Absent /\ record' = Absent
              /\ \E res \in Result :
                   /\ res = [constraint |-> at,
                             status |-> Verdict[record.updatedAt][templates[record.template].policy]
                                               [snapshot[target]]]
                   /\ results' = Append(results, res)
<1>1. PolTypeOK /\ LoopOK /\ RangeOK /\ stage = "evaluate"
    BY DEF AudInv, AuditEvaluate
<1>2. PICK t \in TemplateIds, u \in Versions : t = record.template /\ u = record.updatedAt
    BY <1>1 DEF RangeOK, Constraint
<1>3. CASE templates[t] = Absent
    BY <1>2, <1>3 DEF AuditEvaluate
<1>4. CASE templates[t] # Absent
    <2>1. PICK k \in Parsable : k = templates[t].policy
        BY <1>1, <1>4, EntryTypes
    <2>2. PICK o \in ObjectVersions : o = snapshot[target]
        BY <1>1 DEF LoopOK
    <2>3. PICK s \in Statuses : s = Verdict[u][k][o]
        BY VerdictStatus
    <2>4. PICK res \in Result : res = [constraint |-> at, status |-> s]
        BY <1>1 DEF RangeOK, Result
    <2>5. /\ results' = Append(results, res) /\ panicked' = panicked
          /\ stage' = "range" /\ at' = Absent /\ record' = Absent
        BY <1>2, <1>4, <2>1, <2>2, <2>3, <2>4 DEF AuditEvaluate
    <2>6. res = [constraint |-> at,
                 status |-> Verdict[record.updatedAt][templates[record.template].policy]
                                   [snapshot[target]]]
        BY <1>2, <2>1, <2>2, <2>3, <2>4
    <2> QED BY <1>2, <1>4, <2>5, <2>6
<1> QED BY <1>3, <1>4

LEMMA AuditEvaluateKeeps ==
    ASSUME AudInv, AuditEvaluate
    PROVE  AudInv'
<1>1. /\ AuditFrame /\ stage = "evaluate"
      /\ UNCHANGED <<loop, ids, snapshot, target, selected, unreached, reached, kept, cache,
                     told, touched>>
    BY DEF AuditEvaluate
<1>2. PolTypeOK /\ LoopOK /\ RangeOK /\ ResultsOK /\ TablesOK /\ panicked \in BOOLEAN
    BY DEF AudInv, PolTypeOK
<1>3. /\ panicked' \in BOOLEAN
      /\ \/ UNCHANGED <<stage, at, record, results>>
         \/ stage' = "range" /\ at' = Absent /\ record' = Absent
    BY <1>2, EvaluateCases
<1>4. LoopOK'
    BY <1>1, <1>2, <1>3 DEF LoopOK, Auditing
<1>5. RangeOK'
    BY <1>1, <1>2, <1>3 DEF RangeOK, Auditing
<1>6. results' \in Seq(Result)
    <2>1. results' = results \/ \E res \in Result : results' = Append(results, res)
        BY EvaluateCases
    <2> QED BY <1>2, <2>1, Appended DEF ResultsOK
<1>7. ResultsOK'
    BY <1>1, <1>2, <1>3, <1>6 DEF ResultsOK
<1> QED BY <1>1, <1>2, <1>3, <1>4, <1>5, <1>7, AuditKeeps DEF TablesOK

LEMMA AuditReturnKeeps ==
    ASSUME AudInv, AuditReturn
    PROVE  AudInv'
<1>1. /\ AuditFrame /\ stage = "range" /\ stage' \in {"compare", "cache"}
      /\ selected' = NoConstraints /\ reached' = {} /\ touched' = FALSE
      /\ UNCHANGED <<panicked, loop, ids, snapshot, target, unreached, at, record, results, kept,
                     cache, told>>
    BY DEF AuditReturn
<1>2. PolTypeOK /\ LoopOK /\ RangeOK /\ ResultsOK /\ TablesOK /\ panicked' \in BOOLEAN
    BY <1>1 DEF AudInv, PolTypeOK
<1>3. DOMAIN selected' = {}
    BY <1>1 DEF NoConstraints
<1>4. LoopOK'
    BY <1>1, <1>2 DEF LoopOK, Auditing
<1>5. RangeOK'
    BY <1>1, <1>2, <1>3 DEF RangeOK, Auditing
<1>6. ResultsOK'
    BY <1>1, <1>2 DEF ResultsOK
<1> QED BY <1>1, <1>2, <1>4, <1>5, <1>6, AuditKeeps DEF TablesOK

------------------------------------------------------------------------------
(* The results of Audit *)

LEMMA ResultKeeps ==
    ASSUME AudInv, ResultFrame, stage \notin Auditing, stage' \notin Auditing,
           cache' \in Table, told' \in Table, LoopOK', ResultsOK'
    PROVE  AudInv'
<1>1. AuditFrame /\ UNCHANGED <<panicked, rangeVars, touched>>
    BY DEF ResultFrame
<1>2. panicked' \in BOOLEAN /\ touched' \in BOOLEAN
    BY <1>1 DEF AudInv, PolTypeOK, TablesOK
<1>3. RangeOK'
    BY <1>1 DEF AudInv, RangeOK, rangeVars, Auditing
<1> QED BY <1>1, <1>2, <1>3, AuditKeeps

\* One entry of a table
LEMMA WithResultOK ==
    ASSUME NEW f \in Table, NEW r \in Resources, NEW res \in Result
    PROVE  /\ WithResult(f, r, res) \in Table
           /\ \A c \in ConstraintIds, x \in Resources :
                WithResult(f, r, res)[c][x] =
                    IF c = res.constraint /\ x = r THEN res.status ELSE f[c][x]
<1>1. PICK d \in ConstraintIds, s \in Statuses : d = res.constraint /\ s = res.status
    BY DEF Result
<1>2. f \in [ConstraintIds -> [Resources -> Statuses \cup {Absent}]]
    BY DEF Table
<1>3. PICK row \in [Resources -> Statuses \cup {Absent}] : row = [f[d] EXCEPT ![r] = s]
    BY <1>2
<1>4. WithResult(f, r, res) = [f EXCEPT ![d] = row]
    BY <1>1, <1>3 DEF WithResult
<1>5. WithResult(f, r, res) \in Table
    BY <1>2, <1>4 DEF Table
<1>6. \A c \in ConstraintIds : WithResult(f, r, res)[c] = IF c = d THEN row ELSE f[c]
    BY <1>2, <1>4
<1>7. \A x \in Resources : row[x] = IF x = r THEN s ELSE f[d][x]
    BY <1>2, <1>3
<1> QED BY <1>1, <1>5, <1>6, <1>7

LEMMA CompareKeeps ==
    ASSUME AudInv, Compare
    PROVE  AudInv'
<1>1. ResultFrame /\ stage = "compare" /\ results # <<>>
      /\ UNCHANGED <<loop, ids, snapshot, stage, target, cache, told>>
      /\ results' = Tail(results) /\ (kept' = Append(kept, Head(results)) \/ kept' = kept)
    BY DEF Compare
<1>2. LoopOK /\ ResultsOK /\ TablesOK
    BY DEF AudInv
<1>3. Head(results) \in Result /\ Tail(results) \in Seq(Result)
    BY <1>1, <1>2, Taken DEF ResultsOK
<1>4. kept' \in Seq(Result)
    <2>1. kept \in Seq(Result)
        BY <1>2 DEF ResultsOK
    <2>2. Append(kept, Head(results)) \in Seq(Result)
        BY <1>3, <2>1, Appended
    <2> QED BY <1>1, <2>1, <2>2
<1>5. ResultsOK'
    BY <1>1, <1>3, <1>4 DEF ResultsOK
<1>6. LoopOK'
    BY <1>1, <1>2 DEF LoopOK
<1> QED BY <1>1, <1>2, <1>5, <1>6, ResultKeeps DEF TablesOK, Auditing

LEMMA UpdateCacheKeeps ==
    ASSUME AudInv, UpdateCache
    PROVE  AudInv'
<1>1. ResultFrame /\ stage = "cache" /\ results # <<>>
      /\ UNCHANGED <<loop, ids, snapshot, stage, target, told>>
      /\ cache' = WithResult(cache, target, Head(results))
      /\ results' = Tail(results) /\ kept' = Append(kept, Head(results))
    BY DEF UpdateCache
<1>2. LoopOK /\ ResultsOK /\ TablesOK /\ target \in Resources
    BY <1>1 DEF AudInv, LoopOK
<1>3. Head(results) \in Result /\ Tail(results) \in Seq(Result)
    BY <1>1, <1>2, Taken DEF ResultsOK
<1>4. kept' \in Seq(Result)
    BY <1>1, <1>2, <1>3, Appended DEF ResultsOK
<1>5. ResultsOK'
    BY <1>1, <1>3, <1>4 DEF ResultsOK
<1>6. LoopOK'
    BY <1>1, <1>2 DEF LoopOK
<1>7. cache' \in Table
    BY <1>1, <1>2, <1>3, WithResultOK DEF TablesOK
<1> QED BY <1>1, <1>2, <1>5, <1>6, <1>7, ResultKeeps DEF TablesOK, Auditing

LEMMA NextPassKeeps ==
    ASSUME AudInv, NextPass
    PROVE  AudInv'
<1>1. ResultFrame /\ stage \in {"compare", "cache"} /\ stage' \in {"cache", "send"}
      /\ UNCHANGED <<loop, ids, snapshot, target, cache, told>>
      /\ results' = kept /\ kept' = <<>>
    BY DEF NextPass
<1>2. LoopOK /\ ResultsOK /\ TablesOK
    BY DEF AudInv
<1>3. <<>> \in Seq(Result)
    OBVIOUS
<1>4. ResultsOK'
    BY <1>1, <1>2, <1>3 DEF ResultsOK
<1>5. LoopOK'
    BY <1>1, <1>2 DEF LoopOK, Auditing
<1> QED BY <1>1, <1>2, <1>4, <1>5, ResultKeeps DEF TablesOK, Auditing

LEMMA SendResultKeeps ==
    ASSUME AudInv, SendResult
    PROVE  AudInv'
<1>1. ResultFrame /\ stage = "send" /\ results # <<>>
      /\ UNCHANGED <<loop, ids, snapshot, stage, target, kept, cache>>
      /\ told' = WithResult(told, target, Head(results))
      /\ results' = Tail(results)
    BY DEF SendResult
<1>2. LoopOK /\ ResultsOK /\ TablesOK /\ target \in Resources
    BY <1>1 DEF AudInv, LoopOK
<1>3. Head(results) \in Result /\ Tail(results) \in Seq(Result)
    BY <1>1, <1>2, Taken DEF ResultsOK
<1>4. ResultsOK'
    BY <1>1, <1>2, <1>3 DEF ResultsOK
<1>5. LoopOK'
    BY <1>1, <1>2 DEF LoopOK
<1>6. told' \in Table
    BY <1>1, <1>2, <1>3, WithResultOK DEF TablesOK
<1> QED BY <1>1, <1>2, <1>4, <1>5, <1>6, ResultKeeps DEF TablesOK, Auditing

LEMMA SendReturnKeeps ==
    ASSUME AudInv, SendReturn
    PROVE  AudInv'
<1>1. ResultFrame /\ stage = "send" /\ results = <<>> /\ Leave(target)
      /\ stage' = "next" /\ target' = Absent /\ UNCHANGED <<results, kept, cache, told>>
    BY DEF SendReturn
<1>2. LoopOK /\ ResultsOK /\ TablesOK
    BY DEF AudInv
<1>3. ResultsOK'
    BY <1>1, <1>2 DEF ResultsOK
<1>4. LoopOK'
    BY <1>1, <1>2, LeaveOK DEF LoopOK
<1> QED BY <1>1, <1>2, <1>3, <1>4, ResultKeeps DEF TablesOK, Auditing

------------------------------------------------------------------------------
\* The steps, one by one
LEMMA StepCases ==
    ASSUME [AudNext]_audVars
    PROVE  \/ Command \/ UNCHANGED audVars
           \/ Attach \/ \E r \in Resources : Change(r) \/ MissedDelete(r) \/ HandlerCrash(r)
           \/ \E i \in Items : RequestUpdate(i)
           \/ \E c \in ConstraintIds : RequestRemove(c)
           \/ RequestTemplate \/ RequestDelete \/ RequestUncache \/ RequestDone
           \/ \E r \in Resources : TakeResource(r)
           \/ TakePolicies \/ TakeSync \/ TakeCommand
           \/ \E r \in Resources : AuditBegin(r)
           \/ \E c \in ConstraintIds : AuditSelect(c) \/ AuditNext(c)
           \/ AuditMatch \/ AuditEvaluate \/ AuditReturn
           \/ Compare \/ UpdateCache \/ NextPass \/ SendResult \/ SendReturn
BY Zenon DEF AudNext, ListenerStep, RequestStep, LoopStep, AuditStep

LEMMA AudInvStep == AudInv /\ [AudNext]_audVars => AudInv'
<1> SUFFICES ASSUME AudInv, [AudNext]_audVars PROVE AudInv'
    OBVIOUS
<1>1. CASE Command \/ UNCHANGED audVars
    BY <1>1, CommandKeeps
<1>2. CASE Attach \/ \E r \in Resources : Change(r) \/ MissedDelete(r) \/ HandlerCrash(r)
    BY <1>2, ClusterKeeps
<1>3. CASE \E i \in Items : RequestUpdate(i)
    BY <1>3, RequestUpdateKeeps
<1>4. CASE \E c \in ConstraintIds : RequestRemove(c)
    BY <1>4, RequestRemoveKeeps
<1>5. CASE RequestTemplate \/ RequestDelete \/ RequestUncache \/ RequestDone
    BY <1>5, RequestTemplateKeeps, RequestDeleteKeeps, RequestUncacheKeeps, RequestDoneKeeps
<1>6. CASE \E r \in Resources : TakeResource(r)
    BY <1>6, TakeResourceKeeps
<1>7. CASE TakePolicies \/ TakeSync \/ TakeCommand
    BY <1>7, TakeKeeps
<1>8. CASE \E r \in Resources : AuditBegin(r)
    BY <1>8, AuditBeginKeeps
<1>9. CASE \E c \in ConstraintIds : AuditSelect(c) \/ AuditNext(c)
    BY <1>9, AuditSelectKeeps, AuditNextKeeps
<1>10. CASE AuditMatch \/ AuditEvaluate \/ AuditReturn
    BY <1>10, AuditMatchKeeps, AuditEvaluateKeeps, AuditReturnKeeps
<1>11. CASE Compare \/ UpdateCache \/ NextPass \/ SendResult \/ SendReturn
    BY <1>11, CompareKeeps, UpdateCacheKeeps, NextPassKeeps, SendResultKeeps, SendReturnKeeps
<1> QED BY <1>1, <1>2, <1>3, <1>4, <1>5, <1>6, <1>7, <1>8, <1>9, <1>10, <1>11, StepCases, Zenon

LEMMA AudInvAlways == AudSpec => []AudInv
BY AudInvInit, AudInvStep, PTL DEF AudSpec

\* The auditor's variables keep their types, moves and refusals of constraints
\* included.
THEOREM AudTypeCorrect == AudSpec => []AudTypeOK
BY AudInvAlways, AudInvTypes, PTL

------------------------------------------------------------------------------
(* The cache and what was sent.  An entry of the cache is what the gateway was *)
(* told last or, for the resource the loop is at, what it is about to be told. *)

Mentions(seq, c) == \E i \in 1..Len(seq) : seq[i].constraint = c

\* The last result of seq for constraint c has status s.
SaysLast(seq, c, s) ==
    \E i \in 1..Len(seq) :
        /\ seq[i].constraint = c /\ seq[i].status = s
        /\ \A j \in 1..Len(seq) : j > i => seq[j].constraint # c

\* The gateway has s for c once seq is sent, where old is what it has now.
Agrees(seq, c, s, old) == SaysLast(seq, c, s) \/ (~Mentions(seq, c) /\ old = s)

\* What is still to be sent of what has been cached
Unsent == IF stage = "cache" THEN kept ELSE results

CacheRight(c, r) ==
    IF stage \in {"cache", "send"} /\ target = r
    THEN Agrees(Unsent, c, cache[c][r], told[c][r])
    ELSE told[c][r] = cache[c][r]

CacheInv == \A c \in ConstraintIds, r \in Resources : cache[c][r] # Absent => CacheRight(c, r)

LEMMA AgreesEmpty == \A c, s, old : Agrees(<<>>, c, s, old) <=> old = s
BY DEF Agrees, SaysLast, Mentions

\* A result that is cached is sent later than those cached before.
LEMMA AgreesAppend ==
    ASSUME NEW seq \in Seq(Result), NEW res \in Result, NEW c, NEW s, NEW old,
           IF res.constraint = c THEN res.status = s ELSE Agrees(seq, c, s, old)
    PROVE  Agrees(Append(seq, res), c, s, old)
<1> DEFINE new == Append(seq, res)
           n == Len(seq)
<1>1. n \in Nat /\ Len(new) = n + 1 /\ new[n + 1] = res /\ \A i \in 1..n : new[i] = seq[i]
    BY Appended
<1> HIDE DEF new, n
<1>2. CASE res.constraint = c
    <2>1. n + 1 \in 1..Len(new) /\ \A j \in 1..Len(new) : ~(j > n + 1)
        BY <1>1
    <2>2. SaysLast(new, c, s)
        BY <1>1, <1>2, <2>1 DEF SaysLast
    <2> QED BY <2>2 DEF Agrees, new
<1>3. CASE res.constraint # c /\ SaysLast(seq, c, s)
    <2>1. PICK i \in 1..n : /\ seq[i].constraint = c /\ seq[i].status = s
                            /\ \A j \in 1..n : j > i => seq[j].constraint # c
        BY <1>3 DEF SaysLast, n
    <2>2. i \in 1..Len(new) /\ new[i] = seq[i]
        BY <1>1
    <2>3. \A j \in 1..Len(new) : j > i => new[j].constraint # c
        <3> TAKE j \in 1..Len(new)
        <3>1. CASE j = n + 1
            BY <1>1, <1>3, <3>1
        <3>2. CASE j # n + 1
            <4>1. j \in 1..n
                BY <1>1, <3>2
            <4> QED BY <1>1, <2>1, <4>1
        <3> QED BY <3>1, <3>2
    <2>4. SaysLast(new, c, s)
        BY <2>1, <2>2, <2>3 DEF SaysLast
    <2> QED BY <2>4 DEF Agrees, new
<1>4. CASE res.constraint # c /\ ~Mentions(seq, c) /\ old = s
    <2>1. \A i \in 1..Len(new) : new[i].constraint # c
        <3> TAKE i \in 1..Len(new)
        <3>1. CASE i = n + 1
            BY <1>1, <1>4, <3>1
        <3>2. CASE i # n + 1
            <4>1. i \in 1..n
                BY <1>1, <3>2
            <4> QED BY <1>1, <1>4, <4>1 DEF Mentions, n
        <3> QED BY <3>1, <3>2
    <2>2. ~Mentions(new, c)
        BY <2>1 DEF Mentions
    <2> QED BY <1>4, <2>2 DEF Agrees, new
<1> QED BY <1>2, <1>3, <1>4 DEF Agrees

\* Sending the first result brings what the gateway has nearer to the cache.
LEMMA AgreesTail ==
    ASSUME NEW seq \in Seq(Result), seq # <<>>, NEW c, NEW s, NEW old, Agrees(seq, c, s, old),
           NEW new, new = IF Head(seq).constraint = c THEN Head(seq).status ELSE old
    PROVE  Agrees(Tail(seq), c, s, new)
<1> DEFINE rest == Tail(seq)
           n == Len(seq)
<1>1. n \in Nat /\ n >= 1 /\ Len(rest) = n - 1 /\ Head(seq) = seq[1]
      /\ \A i \in 1..Len(rest) : rest[i] = seq[i + 1]
    BY Taken
<1> HIDE DEF rest, n
<1>2. ASSUME NEW i \in 1..Len(rest) PROVE i + 1 \in 1..n /\ i + 1 > 1
    BY <1>1
<1>3. CASE SaysLast(seq, c, s)
    <2>1. PICK i \in 1..n : /\ seq[i].constraint = c /\ seq[i].status = s
                            /\ \A j \in 1..n : j > i => seq[j].constraint # c
        BY <1>3 DEF SaysLast, n
    <2>2. CASE i = 1
        <3>1. \A j \in 1..Len(rest) : rest[j].constraint # c
            BY <1>1, <1>2, <2>1, <2>2
        <3>2. ~Mentions(rest, c)
            BY <3>1 DEF Mentions
        <3>3. new = s
            BY <1>1, <2>1, <2>2
        <3> QED BY <3>2, <3>3 DEF Agrees, rest
    <2>3. CASE i # 1
        <3>1. i - 1 \in 1..Len(rest) /\ (i - 1) + 1 = i
            BY <1>1, <2>3
        <3>2. rest[i - 1] = seq[i]
            BY <1>1, <3>1
        <3>3. \A j \in 1..Len(rest) : j > i - 1 => rest[j].constraint # c
            <4> TAKE j \in 1..Len(rest)
            <4>1. j > i - 1 => j + 1 > i
                BY <1>1
            <4> QED BY <1>1, <1>2, <2>1, <4>1
        <3>4. SaysLast(rest, c, s)
            BY <2>1, <3>1, <3>2, <3>3 DEF SaysLast
        <3> QED BY <3>4 DEF Agrees, rest
    <2> QED BY <2>2, <2>3
<1>4. CASE ~Mentions(seq, c) /\ old = s
    <2>1. \A j \in 1..n : seq[j].constraint # c
        BY <1>4 DEF Mentions, n
    <2>2. 1 \in 1..n
        BY <1>1
    <2>3. \A j \in 1..Len(rest) : rest[j].constraint # c
        BY <1>1, <1>2, <2>1
    <2>4. ~Mentions(rest, c)
        BY <2>3 DEF Mentions
    <2>5. new = s
        BY <1>1, <1>4, <2>1, <2>2
    <2> QED BY <2>4, <2>5 DEF Agrees, rest
<1> QED BY <1>3, <1>4 DEF Agrees

\* Steps that forget entries at most, and leave what is to be sent
LEMMA CacheFrame ==
    ASSUME CacheInv, told' = told,
           \A c \in ConstraintIds, r \in Resources : cache'[c][r] = cache[c][r] \/ cache'[c][r] = Absent,
           \/ UNCHANGED <<stage, target, results, kept>>
           \/ stage \notin {"cache", "send"} /\ stage' \notin {"cache", "send"}
    PROVE  CacheInv'
<1> SUFFICES ASSUME NEW c \in ConstraintIds, NEW r \in Resources, cache'[c][r] # Absent
             PROVE  CacheRight(c, r)'
    BY DEF CacheInv
<1>1. cache'[c][r] = cache[c][r] /\ CacheRight(c, r)
    BY DEF CacheInv
<1>2. CASE UNCHANGED <<stage, target, results, kept>>
    <2>1. Unsent' = Unsent
        BY <1>2 DEF Unsent
    <2>2. Agrees(Unsent, c, cache[c][r], told[c][r]) => Agrees(Unsent', c, cache'[c][r], told'[c][r])
        BY <1>1, <2>1
    <2> QED BY <1>1, <1>2, <2>2 DEF CacheRight
<1>3. CASE stage \notin {"cache", "send"} /\ stage' \notin {"cache", "send"}
    BY <1>1, <1>3 DEF CacheRight
<1> QED BY <1>2, <1>3

\* The steps that leave what is to be sent
LEMMA CacheQuietSteps ==
    ASSUME AudInv, CacheInv,
           \/ Command \/ UNCHANGED audVars
           \/ Attach \/ \E r \in Resources : Change(r) \/ MissedDelete(r) \/ HandlerCrash(r)
           \/ \E i \in Items : RequestUpdate(i)
           \/ \E c \in ConstraintIds : RequestRemove(c)
           \/ RequestTemplate \/ RequestDelete \/ RequestDone
           \/ TakePolicies \/ TakeSync \/ TakeCommand
    PROVE  CacheInv'
<1>1. UNCHANGED <<stage, target, results, kept, cache, told>>
    BY DEF Command, audVars, loopVars, Attach, Change, MissedDelete, HandlerCrash, RequestUpdate,
           RequestRemove, RequestTemplate, RequestDelete, RequestDone, TakePolicies, TakeSync,
           TakeCommand, StartAll
<1> QED BY <1>1, CacheFrame

LEMMA CacheForgets ==
    ASSUME AudInv, CacheInv, RequestUncache \/ \E r \in Resources : TakeResource(r)
    PROVE  CacheInv'
<1>1. UNCHANGED <<stage, target, results, kept, told>>
    BY DEF RequestUncache, TakeResource, loopVars
<1>2. \A c \in ConstraintIds, r \in Resources : cache'[c][r] = cache[c][r] \/ cache'[c][r] = Absent
    <2>1. cache \in [ConstraintIds -> [Resources -> Statuses \cup {Absent}]]
        BY DEF AudInv, TablesOK, Table
    <2>2. CASE RequestUncache
        <3>1. cache' = [cache EXCEPT ![current.id] = NoEntries]
            BY <2>2 DEF RequestUncache
        <3>2. \A c \in ConstraintIds : cache'[c] = cache[c] \/ cache'[c] = NoEntries
            BY <2>1, <3>1
        <3> QED BY <3>2, NoEntriesType
    <2>3. ASSUME NEW r \in Resources, TakeResource(r)
          PROVE  \A c \in ConstraintIds, x \in Resources :
                    cache'[c][x] = cache[c][x] \/ cache'[c][x] = Absent
        <3>1. \/ cache' = cache
              \/ cache' = [c \in ConstraintIds |-> [cache[c] EXCEPT ![r] = Absent]]
            BY <2>3 DEF TakeResource
        <3> QED BY <2>1, <3>1
    <2> QED BY <2>2, <2>3
<1> QED BY <1>1, <1>2, CacheFrame

LEMMA CacheAudit ==
    ASSUME AudInv, CacheInv,
           \/ \E r \in Resources : AuditBegin(r)
           \/ \E c \in ConstraintIds : AuditSelect(c) \/ AuditNext(c)
           \/ AuditMatch \/ AuditEvaluate \/ Compare
    PROVE  CacheInv'
<1>1. cache' = cache /\ told' = told
    BY DEF AuditBegin, AuditSelect, AuditNext, AuditMatch, AuditEvaluate, Compare
<1>2. stage \notin {"cache", "send"} /\ stage' \notin {"cache", "send"}
    BY DEF AuditBegin, AuditSelect, AuditNext, AuditMatch, AuditEvaluate, Compare
<1> QED BY <1>1, <1>2, CacheFrame

\* UpdateCache is about to begin: nothing of its results is cached yet.
LEMMA CacheReturn ==
    ASSUME AudInv, CacheInv, AuditReturn \/ (NextPass /\ stage = "compare")
    PROVE  CacheInv'
<1>1. cache' = cache /\ told' = told /\ target' = target /\ stage \notin {"cache", "send"}
      /\ stage' \in {"compare", "cache"} /\ kept' = <<>>
    BY DEF AuditReturn, NextPass, AudInv, ResultsOK
<1> SUFFICES ASSUME NEW c \in ConstraintIds, NEW r \in Resources, cache'[c][r] # Absent
             PROVE  CacheRight(c, r)'
    BY DEF CacheInv
<1>2. told[c][r] = cache[c][r]
    BY <1>1 DEF CacheInv, CacheRight
<1>3. CASE stage' = "cache"
    <2>1. Unsent' = <<>>
        BY <1>1, <1>3 DEF Unsent
    <2>2. Agrees(Unsent', c, cache'[c][r], told'[c][r])
        BY <1>1, <1>2, <2>1, AgreesEmpty
    <2> QED BY <1>1, <1>2, <2>2 DEF CacheRight
<1>4. CASE stage' = "compare"
    BY <1>1, <1>2, <1>4 DEF CacheRight
<1> QED BY <1>1, <1>3, <1>4

LEMMA CacheUpdate ==
    ASSUME AudInv, CacheInv, UpdateCache
    PROVE  CacheInv'
<1>1. stage = "cache" /\ stage' = "cache" /\ target' = target /\ told' = told /\ results # <<>>
      /\ kept' = Append(kept, Head(results)) /\ cache' = WithResult(cache, target, Head(results))
    BY DEF UpdateCache
<1>2. PICK res \in Result : res = Head(results)
    BY <1>1, Taken DEF AudInv, ResultsOK
<1>3. kept \in Seq(Result) /\ cache \in Table /\ target \in Resources
    BY <1>1 DEF AudInv, ResultsOK, TablesOK, LoopOK
<1> SUFFICES ASSUME NEW c \in ConstraintIds, NEW r \in Resources, cache'[c][r] # Absent
             PROVE  CacheRight(c, r)'
    BY DEF CacheInv
<1>4. cache'[c][r] = IF c = res.constraint /\ r = target THEN res.status ELSE cache[c][r]
    BY <1>1, <1>2, <1>3, WithResultOK
<1>5. Unsent = kept /\ Unsent' = Append(kept, res)
    BY <1>1, <1>2 DEF Unsent
<1>6. CASE r = target
    <2>1. c # res.constraint => Agrees(kept, c, cache'[c][r], told[c][r])
        BY <1>1, <1>4, <1>5, <1>6 DEF CacheInv, CacheRight
    <2>2. Agrees(Append(kept, res), c, cache'[c][r], told[c][r])
        BY <1>3, <1>4, <1>6, <2>1, AgreesAppend
    <2> QED BY <1>1, <1>5, <1>6, <2>2 DEF CacheRight
<1>7. CASE r # target
    BY <1>1, <1>4, <1>7 DEF CacheInv, CacheRight
<1> QED BY <1>6, <1>7

\* What was cached is sent.
LEMMA CacheToSend ==
    ASSUME AudInv, CacheInv, NextPass, stage = "cache"
    PROVE  CacheInv'
<1>1. stage' = "send" /\ target' = target /\ told' = told /\ cache' = cache /\ results' = kept
    BY DEF NextPass
<1> SUFFICES ASSUME NEW c \in ConstraintIds, NEW r \in Resources, cache'[c][r] # Absent
             PROVE  CacheRight(c, r)'
    BY DEF CacheInv
<1>2. Unsent' = Unsent
    BY <1>1 DEF Unsent
<1>3. CacheRight(c, r)
    BY <1>1 DEF CacheInv
<1>4. Agrees(Unsent, c, cache[c][r], told[c][r]) => Agrees(Unsent', c, cache'[c][r], told'[c][r])
    BY <1>1, <1>2
<1> QED BY <1>1, <1>3, <1>4 DEF CacheRight

LEMMA CacheSend ==
    ASSUME AudInv, CacheInv, SendResult
    PROVE  CacheInv'
<1>1. stage = "send" /\ stage' = "send" /\ target' = target /\ cache' = cache /\ results # <<>>
      /\ results' = Tail(results) /\ told' = WithResult(told, target, Head(results))
    BY DEF SendResult
<1>2. PICK res \in Result : res = Head(results)
    BY <1>1, Taken DEF AudInv, ResultsOK
<1>3. results \in Seq(Result) /\ told \in Table /\ target \in Resources
    BY <1>1 DEF AudInv, ResultsOK, TablesOK, LoopOK
<1> SUFFICES ASSUME NEW c \in ConstraintIds, NEW r \in Resources, cache'[c][r] # Absent
             PROVE  CacheRight(c, r)'
    BY DEF CacheInv
<1>4. told'[c][r] = IF c = res.constraint /\ r = target THEN res.status ELSE told[c][r]
    BY <1>1, <1>2, <1>3, WithResultOK
<1>5. Unsent = results /\ Unsent' = Tail(results)
    BY <1>1 DEF Unsent
<1>6. CASE r = target
    <2>1. Agrees(results, c, cache[c][r], told[c][r])
        BY <1>1, <1>5, <1>6 DEF CacheInv, CacheRight
    <2>2. told'[c][r] = IF Head(results).constraint = c THEN Head(results).status ELSE told[c][r]
        BY <1>2, <1>4, <1>6
    <2>3. Agrees(Tail(results), c, cache[c][r], told'[c][r])
        BY <1>1, <1>3, <2>1, <2>2, AgreesTail
    <2> QED BY <1>1, <1>5, <1>6, <2>3 DEF CacheRight
<1>7. CASE r # target
    BY <1>1, <1>4, <1>7 DEF CacheInv, CacheRight
<1> QED BY <1>6, <1>7

LEMMA CacheSent ==
    ASSUME AudInv, CacheInv, SendReturn
    PROVE  CacheInv'
<1>1. stage = "send" /\ stage' = "next" /\ told' = told /\ cache' = cache /\ results = <<>>
    BY DEF SendReturn
<1> SUFFICES ASSUME NEW c \in ConstraintIds, NEW r \in Resources, cache'[c][r] # Absent
             PROVE  CacheRight(c, r)'
    BY DEF CacheInv
<1>2. CacheRight(c, r)
    BY <1>1 DEF CacheInv
<1>3. Unsent = <<>>
    BY <1>1 DEF Unsent
<1>4. told[c][r] = cache[c][r]
    BY <1>1, <1>2, <1>3, AgreesEmpty DEF CacheRight
<1> QED BY <1>1, <1>4 DEF CacheRight

LEMMA CacheInvStep == AudInv /\ CacheInv /\ [AudNext]_audVars => CacheInv'
<1> SUFFICES ASSUME AudInv, CacheInv, [AudNext]_audVars PROVE CacheInv'
    OBVIOUS
<1>1. CASE NextPass
    BY <1>1, CacheReturn, CacheToSend DEF NextPass
<1> QED BY <1>1, StepCases, CacheQuietSteps, CacheForgets, CacheAudit, CacheReturn, CacheUpdate, CacheSend,
           CacheSent, Zenon

LEMMA CacheInvAlways == AudSpec => []CacheInv
<1>1. AudInit => CacheInv
    BY NoEntriesType DEF AudInit, CacheInv
<1> QED BY <1>1, CacheInvStep, AudInvAlways, PTL DEF AudSpec

\* Between the write to the cache and the send the two differ, and the listener
\* clears the cache at any moment.  But for the resource the loop is at,
\* CheckResourceStatusWithConstraint suppresses nothing that was not sent, for
\* any constraints, resources and verdicts.
THEOREM CacheAlwaysTold == AudSpec => []CacheWasTold
<1>1. CacheInv => CacheWasTold
    BY DEF CacheInv, CacheRight, CacheWasTold
<1> QED BY <1>1, CacheInvAlways, PTL


------------------------------------------------------------------------------
(* What Audit may find missing.  The counts hold between the writes of the    *)
(* listener, and what Audit has read is what the tables have until they are   *)
(* written.                                                                   *)

CountInv ==
    /\ UsageExact
    /\ OnlyFoundCounted
    /\ listener = "template" /\ current.added => counted[current.id] = Absent
    /\ listener = "delete" /\ ~panicked => counted[current.id] = Absent

Untouched ==
    /\ \A d \in DOMAIN selected : selected[d] = constraints[d]
    /\ stage = "match" /\ ids = {} => Found(at)
    /\ stage = "evaluate" => record = constraints[at]

TouchInv == stage \in Auditing /\ ~touched => Untouched

MissInv == CountInv /\ TouchInv /\ MissingExplained

\* A step that leaves the tables alone
LEMMA CountFrame ==
    ASSUME CountInv, UNCHANGED <<constraints, templates, countVars>>, panicked => panicked',
           listener' \notin {"template", "delete"} \/ UNCHANGED <<listener, current>>
    PROVE  CountInv'
<1>1. UsageExact' /\ OnlyFoundCounted'
    BY DEF CountInv, UsageExact, OnlyFoundCounted, CountedOn, Found, countVars
<1>2. counted' = counted
    BY DEF countVars
<1> QED BY <1>1, <1>2 DEF CountInv

LEMMA TouchFrame ==
    ASSUME TouchInv, UNCHANGED <<constraints, touched>>,
           stage' \notin Auditing \/ UNCHANGED <<stage, ids, selected, at, record>>
    PROVE  TouchInv'
BY DEF TouchInv, Untouched, Found

\* A write of the tables while Audit reads them is remembered.
LEMMA TouchWrites ==
    ASSUME AudInv, Touch, stage' = stage
    PROVE  TouchInv'
BY DEF Touch, TouchInv, Auditing

LEMMA MissFrame ==
    ASSUME AudInv, MissInv, UNCHANGED <<polVars, touched>>,
           listener' \notin {"template", "delete"} \/ UNCHANGED <<listener, current>>,
           stage' \notin Auditing \/ UNCHANGED <<stage, ids, selected, at, record>>
    PROVE  MissInv'
<1>1. UNCHANGED <<constraints, templates, countVars, panicked>>
    BY DEF polVars
<1>2. CountInv'
    BY <1>1, CountFrame DEF MissInv
<1>3. TouchInv'
    BY <1>1, TouchFrame DEF MissInv
<1>4. MissingExplained'
    BY <1>1 DEF MissInv, MissingExplained, Strayed, Found, countVars
<1> QED BY <1>2, <1>3, <1>4 DEF MissInv

LEMMA MissQuietSteps ==
    ASSUME AudInv, MissInv,
           \/ Command \/ UNCHANGED audVars
           \/ Attach \/ \E r \in Resources : Change(r) \/ MissedDelete(r) \/ HandlerCrash(r)
           \/ RequestUncache \/ RequestDone
    PROVE  MissInv'
<1>1. UNCHANGED <<polVars, touched, stage, ids, selected, at, record>>
    BY DEF Command, audVars, ghostVars, loopVars, rangeVars, Attach, Change, MissedDelete,
           HandlerCrash, RequestUncache, RequestDone
<1>2. listener' \notin {"template", "delete"} \/ UNCHANGED <<listener, current>>
    BY DEF Command, audVars, listenVars, Attach, Change, MissedDelete, HandlerCrash, RequestUncache,
           RequestDone
<1> QED BY <1>1, <1>2, MissFrame

\* The loop takes an event, or handles results: it is not in Audit.
LEMMA MissOutside ==
    ASSUME AudInv, MissInv,
           \/ \E r \in Resources : TakeResource(r)
           \/ TakePolicies \/ TakeSync \/ TakeCommand
           \/ Compare \/ UpdateCache \/ NextPass \/ SendResult \/ SendReturn
    PROVE  MissInv'
<1>1. CASE (\E r \in Resources : TakeResource(r)) \/ TakePolicies \/ TakeSync \/ TakeCommand
    <2>1. loop = "select" /\ UNCHANGED <<polVars, touched, stage>>
        BY <1>1 DEF TakeResource, TakePolicies, TakeSync, TakeCommand, StartAll, ghostVars
    <2>2. stage' \notin Auditing
        BY <2>1 DEF AudInv, LoopOK, Auditing
    <2>3. listener' \notin {"template", "delete"} \/ UNCHANGED <<listener, current>>
        BY <1>1 DEF TakeResource, TakePolicies, TakeSync, TakeCommand, listenVars
    <2> QED BY <2>1, <2>2, <2>3, MissFrame
<1>2. CASE Compare \/ UpdateCache \/ NextPass \/ SendResult \/ SendReturn
    <2>1. ResultFrame /\ stage' \notin Auditing
        BY <1>2 DEF Compare, UpdateCache, NextPass, SendResult, SendReturn, Auditing
    <2>2. UNCHANGED <<polVars, touched, listener, current>>
        BY <2>1 DEF ResultFrame, AuditFrame, polVars, listenVars
    <2> QED BY <2>1, <2>2, MissFrame
<1> QED BY <1>1, <1>2

\* A constraint is stored before its template: a new one is in no count yet.
LEMMA MissUpdate ==
    ASSUME AudInv, MissInv, NEW i \in Items, RequestUpdate(i)
    PROVE  MissInv'
<1>0. PICK c \in ConstraintIds, t \in TemplateIds, v \in Versions, code \in Codes :
          c = i.id /\ t = i.template /\ v = i.updatedAt /\ code = i.code
    BY ItemFields
<1>1. UNCHANGED <<stage, ids, selected, at, record>> /\ ~panicked
    BY DEF RequestUpdate, loopVars, rangeVars, Running
<1>2. \/ /\ KeepConstraint(c, v)
         /\ listener' = "table"
         /\ UNCHANGED <<current, touched>>
      \/ /\ Store(c, t, v)
         /\ current' = [id |-> c, added |-> ~Found(c), code |-> code]
         /\ listener' = "template"
         /\ Touch
         /\ UNCHANGED <<templates, refused, panicked, countVars>>
    BY <1>0 DEF RequestUpdate
<1>3. CASE KeepConstraint(c, v) /\ listener' = "table" /\ UNCHANGED <<current, touched>>
    <2>1. UNCHANGED <<constraints, templates, countVars, panicked>>
        BY <1>3 DEF KeepConstraint
    <2>2. CountInv' /\ TouchInv'
        BY <1>1, <1>3, <2>1, CountFrame, TouchFrame DEF MissInv
    <2>3. MissingExplained'
        BY <1>1, <2>1 DEF MissingExplained
    <2> QED BY <2>2, <2>3 DEF MissInv
<1>4. CASE /\ Store(c, t, v)
           /\ current' = [id |-> c, added |-> ~Found(c), code |-> code]
           /\ listener' = "template"
           /\ Touch
           /\ UNCHANGED <<templates, refused, panicked, countVars>>
    <2>1. /\ constraints'[c] # Absent
          /\ \A d \in ConstraintIds \ {c} : constraints'[d] = constraints[d]
        BY <1>4, StoredType DEF AudInv
    <2>2. UsageExact'
        BY <1>4 DEF MissInv, CountInv, UsageExact, CountedOn, countVars
    <2>3. OnlyFoundCounted' /\ counted' = counted
        BY <1>4, <2>1 DEF MissInv, CountInv, OnlyFoundCounted, Found, countVars
    <2>4. current'.id = c /\ (current'.added => ~Found(c))
        BY <1>4
    <2>5. current'.added => counted'[current'.id] = Absent
        BY <2>3, <2>4 DEF MissInv, CountInv, OnlyFoundCounted
    <2>6. CountInv'
        BY <1>4, <2>2, <2>3, <2>5 DEF CountInv
    <2>7. TouchInv'
        BY <1>1, <1>4, TouchWrites
    <2>8. MissingExplained'
        BY <1>1, <1>4 DEF MissingExplained
    <2> QED BY <2>6, <2>7, <2>8 DEF MissInv
<1> QED BY <1>2, <1>3, <1>4

LEMMA MissTemplate ==
    ASSUME AudInv, MissInv, RequestTemplate
    PROVE  MissInv'
<1>1. PolTypeOK /\ ListenOK /\ UsageExact /\ OnlyFoundCounted /\ ~panicked
    BY DEF AudInv, MissInv, CountInv, RequestTemplate, Running
<1>2. current \in Current /\ Found(current.id) /\ current.id \in ConstraintIds /\ current.code \in Codes
    BY <1>1 DEF RequestTemplate, ListenOK, Current
<1>3. PICK c \in ConstraintIds, t \in TemplateIds, added \in BOOLEAN, code \in Codes :
        c = current.id /\ t = constraints[c].template /\ added = current.added /\ code = current.code
    BY <1>1, <1>2, EntryTypes DEF Current
<1>4. /\ IF added THEN AddTemplate(c, t, code) /\ UNCHANGED panicked
         ELSE ReplaceTemplate(c, t, code)
      /\ listener' \in {"table", "cache"}
      /\ constraints' = constraints
    BY <1>3 DEF RequestTemplate
<1>5. Found(c) /\ (added => counted[c] = Absent)
    BY <1>2, <1>3 DEF MissInv, CountInv, RequestTemplate
<1>6. ASSUME added PROVE UsageExact' /\ OnlyFoundCounted' /\ MissingExplained'
    <2>1. UsageExact' /\ OnlyFoundCounted'
        <3>1. CASE templates[t] # Absent \/ code \in Parsable
            <4>1. UsageExact' /\ \A d \in ConstraintIds \ {c} : counted'[d] = counted[d]
                BY <1>1, <1>4, <1>5, <1>6, <3>1, AddTemplateExact
            <4> QED BY <1>1, <1>4, <1>5, <4>1 DEF OnlyFoundCounted, Found
        <3>2. CASE ~(templates[t] # Absent \/ code \in Parsable)
            <4>1. UNCHANGED <<templates, counted, upset>>
                BY <1>4, <1>6, <3>2 DEF AddTemplate
            <4> QED BY <1>1, <1>4, <4>1 DEF UsageExact, OnlyFoundCounted, CountedOn, Found
        <3> QED BY <3>1, <3>2
    <2> QED BY <1>1, <1>4, <1>6, <2>1 DEF MissingExplained
<1>7. ASSUME ~added PROVE UsageExact' /\ OnlyFoundCounted' /\ MissingExplained'
    <2>1. UsageExact' /\ counted' = counted /\ upset' = upset
        BY <1>1, <1>4, <1>7, ReplaceTemplateExact
    <2>2. OnlyFoundCounted'
        BY <1>1, <1>4, <2>1 DEF OnlyFoundCounted, Found
    <2>3. panicked' => templates[t] = Absent
        BY <1>4, <1>7 DEF ReplaceTemplate
    <2>4. panicked' /\ ~upset => Strayed(c)
        BY <1>1, <1>3, <1>5, <2>3, CountedPresent
    <2>5. Strayed(c)' <=> Strayed(c)
        BY <1>4, <2>1 DEF Strayed, Found
    <2>6. MissingExplained'
        BY <2>1, <2>4, <2>5 DEF MissingExplained
    <2> QED BY <2>1, <2>2, <2>6
<1>8. UsageExact' /\ OnlyFoundCounted' /\ MissingExplained'
    BY <1>6, <1>7
<1>9. CountInv'
    BY <1>4, <1>8 DEF CountInv
<1>10. TouchInv'
    BY TouchWrites DEF RequestTemplate, loopVars
<1> QED BY <1>8, <1>9, <1>10 DEF MissInv

LEMMA MissRemove ==
    ASSUME AudInv, MissInv, NEW c \in ConstraintIds, RequestRemove(c)
    PROVE  MissInv'
<1>1. PolTypeOK /\ UsageExact /\ OnlyFoundCounted /\ ~panicked /\ Found(c) /\ DropTemplate(c)
    BY DEF AudInv, MissInv, CountInv, RequestRemove, Running
<1>2. constraints' = constraints /\ listener' = "delete" /\ current'.id = c
    BY DEF RequestRemove
<1>3. PICK t \in TemplateIds : t = constraints[c].template
    BY <1>1, EntryTypes
<1>4. ASSUME templates[t] = Absent PROVE CountInv' /\ MissingExplained'
    <2>1. panicked' /\ templates' = templates /\ counted' = counted /\ upset' = upset
        BY <1>1, <1>3, <1>4 DEF DropTemplate, countVars
    <2>2. ~upset => Strayed(c)
        BY <1>1, <1>3, <1>4, CountedPresent
    <2>3. Strayed(c)' <=> Strayed(c)
        BY <1>2, <2>1 DEF Strayed, Found
    <2>4. MissingExplained'
        BY <2>1, <2>2, <2>3 DEF MissingExplained
    <2>5. UsageExact' /\ OnlyFoundCounted'
        BY <1>1, <1>2, <2>1 DEF UsageExact, OnlyFoundCounted, CountedOn, Found
    <2> QED BY <1>2, <2>1, <2>4, <2>5 DEF CountInv
<1>5. ASSUME templates[t] # Absent PROVE CountInv' /\ MissingExplained'
    <2>1. /\ UsageExact' /\ ~panicked' /\ counted'[c] = Absent
          /\ \A d \in ConstraintIds \ {c} : counted'[d] = counted[d]
        BY <1>1, <1>3, <1>5, DropTemplateExact
    <2>2. OnlyFoundCounted'
        BY <1>1, <1>2, <2>1 DEF OnlyFoundCounted, Found
    <2>3. CountInv'
        BY <1>2, <2>1, <2>2 DEF CountInv
    <2> QED BY <2>1, <2>3 DEF MissingExplained
<1>6. TouchInv'
    BY TouchWrites DEF RequestRemove, loopVars
<1> QED BY <1>4, <1>5, <1>6 DEF MissInv

\* What leaves the table is in no count.
LEMMA MissDelete ==
    ASSUME AudInv, MissInv, RequestDelete
    PROVE  MissInv'
<1>1. PolTypeOK /\ UsageExact /\ OnlyFoundCounted /\ ~panicked /\ listener' = "cache"
      /\ UNCHANGED <<templates, panicked, counted, upset, stage>>
      /\ constraints' = [constraints EXCEPT ![current.id] = Absent]
    BY DEF AudInv, MissInv, CountInv, RequestDelete, Running, countVars
<1>2. counted[current.id] = Absent
    BY <1>1 DEF RequestDelete, MissInv, CountInv
<1>3. UsageExact'
    BY <1>1 DEF UsageExact, CountedOn
<1>4. OnlyFoundCounted'
    BY <1>1, <1>2 DEF OnlyFoundCounted, Found, PolTypeOK
<1>5. CountInv' /\ MissingExplained'
    BY <1>1, <1>3, <1>4 DEF CountInv, MissingExplained
<1>6. TouchInv'
    BY <1>1, TouchWrites DEF RequestDelete
<1> QED BY <1>5, <1>6 DEF MissInv

\* The steps of Audit leave the tables alone.
LEMMA MissAuditCount ==
    ASSUME AudInv, MissInv, AuditFrame, ~panicked
    PROVE  CountInv'
BY CountFrame DEF AuditFrame, MissInv, listenVars

LEMMA MissAudit ==
    ASSUME AudInv, MissInv,
           \/ \E r \in Resources : AuditBegin(r)
           \/ \E c \in ConstraintIds : AuditSelect(c) \/ AuditNext(c)
           \/ AuditReturn
    PROVE  MissInv'
<1>1. AuditFrame /\ ~panicked /\ panicked' = panicked /\ constraints' = constraints
    BY DEF AuditBegin, AuditSelect, AuditNext, AuditReturn, Running, AuditFrame
<1>2. CountInv' /\ MissingExplained'
    BY <1>1, MissAuditCount DEF MissingExplained
<1>3. ASSUME NEW r \in Resources, AuditBegin(r) PROVE TouchInv'
    <2>1. stage = "next" /\ selected' = selected /\ stage' \in {"next", "range", "select"}
        BY <1>3 DEF AuditBegin
    <2>2. DOMAIN selected = {}
        BY <2>1 DEF AudInv, RangeOK, Auditing
    <2> QED BY <2>1, <2>2 DEF TouchInv, Untouched
<1>4. ASSUME NEW c \in ConstraintIds, AuditSelect(c) PROVE TouchInv'
    <2>1. stage = "select" /\ stage' \in {"select", "range"} /\ touched' = touched
        BY <1>4 DEF AuditSelect
    <2>2. ~touched => \A d \in DOMAIN selected : selected[d] = constraints[d]
        BY <2>1 DEF MissInv, TouchInv, Untouched, Auditing
    <2>3. ~touched => \A d \in DOMAIN selected' : selected'[d] = constraints[d]
        BY <1>4, <2>2, Copied
    <2> QED BY <1>1, <2>1, <2>3 DEF TouchInv, Untouched
<1>5. ASSUME NEW c \in ConstraintIds, AuditNext(c) PROVE TouchInv'
    BY <1>1, <1>5 DEF AuditNext, MissInv, TouchInv, Untouched, Auditing, Found
<1>6. ASSUME AuditReturn PROVE TouchInv'
    BY <1>6 DEF AuditReturn, TouchInv, Auditing
<1>7. TouchInv'
    BY <1>3, <1>4, <1>5, <1>6
<1> QED BY <1>2, <1>7 DEF MissInv

\* What the range produced is still there, and what was copied is there for good.
LEMMA MissMatch ==
    ASSUME AudInv, MissInv, AuditMatch
    PROVE  MissInv'
<1>1. AuditFrame /\ ~panicked /\ constraints' = constraints /\ stage = "match"
      /\ UNCHANGED <<ids, selected, touched>>
    BY DEF AuditMatch, Running, AuditFrame
<1>2. CountInv'
    BY <1>1, MissAuditCount
<1>3. RangeOK /\ at \in ConstraintIds
    BY <1>1 DEF AudInv, RangeOK
<1>4. ~touched => /\ \A d \in DOMAIN selected : selected[d] = constraints[d]
                  /\ ids = {} => Found(at)
    BY <1>1 DEF MissInv, TouchInv, Untouched, Auditing
<1>5. ~touched => Matched = constraints[at] /\ Matched # Absent
    <2>1. CASE ids = {}
        BY <1>4, <2>1 DEF Matched, Found
    <2>2. CASE ids # {}
        <3>1. at \in DOMAIN selected /\ selected[at] \in Constraint
            BY <1>1, <1>3, <2>2 DEF RangeOK
        <3> QED BY <1>4, <2>2, <3>1, AbsentAssumption DEF Matched
    <2> QED BY <2>1, <2>2
<1>6. MissingExplained'
    BY <1>1, <1>5, MatchCases DEF MissingExplained
<1>7. TouchInv'
    <2>1. CASE Matched = Absent /\ UNCHANGED <<stage, at, record>>
        BY <1>1, <1>5, <2>1 DEF TouchInv
    <2>2. CASE stage' = "evaluate" /\ record' = Matched /\ at' = at
        BY <1>1, <1>4, <1>5, <2>2 DEF TouchInv, Untouched
    <2>3. CASE stage' = "range"
        BY <1>1, <1>4, <2>3 DEF TouchInv, Untouched
    <2> QED BY <2>1, <2>2, <2>3, MatchCases
<1> QED BY <1>2, <1>6, <1>7 DEF MissInv

\* A constraint of the table that did not stray has its template.
LEMMA MissEvaluate ==
    ASSUME AudInv, MissInv, AuditEvaluate
    PROVE  MissInv'
<1>1. AuditFrame /\ ~panicked /\ UNCHANGED <<constraints, counted, upset>> /\ stage = "evaluate"
      /\ UNCHANGED <<ids, selected, touched>>
    BY DEF AuditEvaluate, Running, AuditFrame, countVars
<1>2. CountInv'
    BY <1>1, MissAuditCount
<1>3. at \in ConstraintIds /\ record \in Constraint /\ PolTypeOK /\ UsageExact
    BY <1>1 DEF AudInv, RangeOK, MissInv, CountInv
<1>4. ~touched => /\ \A d \in DOMAIN selected : selected[d] = constraints[d]
                  /\ record = constraints[at]
    BY <1>1 DEF MissInv, TouchInv, Untouched, Auditing
<1>5. MissingExplained'
    <2> SUFFICES ASSUME panicked', ~touched, ~upset PROVE \E c \in ConstraintIds : Strayed(c)'
        BY <1>1 DEF MissingExplained
    <2>1. templates[record.template] = Absent
        BY <1>1, EvaluateCases
    <2>2. Found(at) /\ constraints[at].template = record.template
        BY <1>3, <1>4, AbsentAssumption DEF Found
    <2>3. Strayed(at)
        BY <1>3, <2>1, <2>2, CountedPresent
    <2>4. PICK c \in ConstraintIds : c = at
        BY <1>3
    <2>5. Strayed(c)'
        BY <1>1, <2>3, <2>4 DEF Strayed, Found
    <2> QED BY <2>5
<1>6. TouchInv'
    <2>1. CASE UNCHANGED <<stage, at, record>>
        BY <1>1, <2>1, TouchFrame DEF MissInv
    <2>2. CASE stage' = "range"
        BY <1>1, <1>4, <2>2 DEF TouchInv, Untouched
    <2> QED BY <2>1, <2>2, EvaluateCases
<1> QED BY <1>2, <1>5, <1>6 DEF MissInv

LEMMA MissInvStep == AudInv /\ MissInv /\ [AudNext]_audVars => MissInv'
<1> SUFFICES ASSUME AudInv, MissInv, [AudNext]_audVars PROVE MissInv'
    OBVIOUS
<1> QED BY StepCases, MissQuietSteps, MissOutside, MissUpdate, MissTemplate, MissRemove, MissDelete,
           MissAudit, MissMatch, MissEvaluate, Zenon

LEMMA MissInvAlways == AudSpec => []MissInv
<1>1. AudInit => MissInv
    <2> SUFFICES ASSUME AudInit PROVE MissInv
        OBVIOUS
    <2>1. UsageInv /\ ~panicked
        BY UsageStart DEF AudInit, PolInit
    <2>2. listener = "idle" /\ stage = "next"
        BY DEF AudInit
    <2> QED BY <2>1, <2>2 DEF UsageInv, MissInv, CountInv, TouchInv, MissingExplained, Auditing
<1> QED BY <1>1, MissInvStep, AudInvAlways, PTL DEF AudSpec

\* Nothing locks the tables.  For any constraints, templates, code and
\* resources, the loop and the listener dereference nil only if the tables were
\* written during the audit of the resource at hand, or a constraint was
\* refused or moved before.
THEOREM MissingAlwaysExplained == AudSpec => []MissingExplained
<1>1. MissInv => MissingExplained
    BY DEF MissInv
<1> QED BY <1>1, MissInvAlways, PTL

------------------------------------------------------------------------------
(* What the gateway was told.  A constraint is settled when its verdicts are   *)
(* not about to be asked for again: the gateway has them, or a notification is *)
(* to come, or the audit that is underway has still to tell.                   *)

Requested(c) == c \in updated \/ (listener = "template" /\ current.id = c)

Settled(c) ==
    /\ Found(c)
    /\ templates[constraints[c].template] # Absent
    /\ c \notin overlooked
    /\ ~Requested(c)

\* A resource the observer announces, and the two versions of it that are audited
Visible(r) == object[r] # Absent /\ object[r] \notin Unmaskable
Views(r) == {object[r], Masked[object[r]]}

\* The last notification of a resource is of the resource as it is.
QueueRight(r) ==
    /\ informer[r] # <<>> => source = "watching"
    /\ informer[r] # <<>> /\ Visible(r)
       => informer[r][Len(informer[r])] \in {Masked[object[r]], Nil}

\* Another notification of r is to come, or nothing is to be said of it.
Announced(r) == source # "watching" \/ informer[r] # <<>> \/ ~Visible(r)

SnapshotRight(r) == Announced(r) \/ snapshot[r] \in Views(r)

\* What Audit has read of c is what the table has.
RecordRight(c) ==
    /\ c \in DOMAIN selected => selected[c] = constraints[c]
    /\ stage = "evaluate" /\ at = c => record = constraints[c]

\* The results for c are its verdicts on the resource the loop is at.
ResultRight(seq, c) ==
    \A i \in 1..Len(seq) : seq[i].constraint = c => seq[i].status = VerdictOn(c, snapshot[target])

\* The audit of the resource the loop is at has still to tell of c.
Ahead(c) ==
    \/ stage \in Auditing /\ c \in unreached
    \/ stage = "select" /\ c \in DOMAIN selected
    \/ stage \in {"match", "evaluate"} /\ at = c
    \/ Mentions(results, c)
    \/ Mentions(kept, c)

Underway(c, r) ==
    /\ r \in DOMAIN snapshot
    /\ ids = {} \/ c \in ids
    /\ stage # "next" /\ target = r => Ahead(c)

Heard(c, r) == \E o \in Views(r) : told[c][r] = VerdictOn(c, o)

ToldRight(c, r) ==
    \/ r \in Owned \/ Announced(r)
    \/ object[r] \notin Matching[constraints[c].updatedAt]
    \/ Underway(c, r)
    \/ Heard(c, r)

ReadRight(c) == RecordRight(c) /\ ResultRight(results, c) /\ ResultRight(kept, c)

ToldInv ==
    /\ \A r \in Resources : QueueRight(r)
    /\ \A r \in DOMAIN snapshot : SnapshotRight(r)
    /\ \A c \in ConstraintIds : Settled(c) => ReadRight(c) /\ \A r \in Resources : ToldRight(c, r)

\* What a step may change without touching the verdict of c: the tables but for
\* the constraint and the policy of its template.
SameVerdict(c) ==
    /\ constraints'[c] = constraints[c]
    /\ PolicyOf(templates'[constraints[c].template]) = PolicyOf(templates[constraints[c].template])

LEMMA VerdictKept ==
    ASSUME NEW c, SameVerdict(c)
    PROVE  \A o : VerdictOn(c, o)' = VerdictOn(c, o)
BY DEF SameVerdict, VerdictOn

------------------------------------------------------------------------------
(* Steps of the listener: what they do not settle anew stays as it is. *)

LEMMA ToldListener ==
    ASSUME AudInv, ToldInv,
           UNCHANGED <<object, informer, source, ids, snapshot, stage, target, selected, at, record,
                       results, kept, told>>,
           \A c \in ConstraintIds : Settled(c)' =>
               Settled(c) /\ SameVerdict(c) /\ (c \in unreached => c \in unreached')
    PROVE  ToldInv'
<1>1. \A r : (Announced(r)' <=> Announced(r)) /\ (QueueRight(r)' <=> QueueRight(r)) /\ Views(r)' = Views(r)
    BY DEF Announced, QueueRight, Visible, Views
<1>2. \A r \in DOMAIN snapshot' : SnapshotRight(r)'
    BY <1>1 DEF ToldInv, SnapshotRight
<1>3. ASSUME NEW c \in ConstraintIds, Settled(c)'
      PROVE  ReadRight(c)' /\ \A r \in Resources : ToldRight(c, r)'
    <2>1. Settled(c) /\ SameVerdict(c) /\ (c \in unreached => c \in unreached')
        BY <1>3
    <2>2. constraints'[c] = constraints[c] /\ \A o : VerdictOn(c, o)' = VerdictOn(c, o)
        BY <2>1, VerdictKept DEF SameVerdict
    <2>3. ReadRight(c) /\ \A r \in Resources : ToldRight(c, r)
        BY <2>1 DEF ToldInv
    <2>4. RecordRight(c)'
        BY <2>2, <2>3 DEF ReadRight, RecordRight
    <2>5. ResultRight(results, c)' /\ ResultRight(kept, c)'
        BY <2>2, <2>3 DEF ReadRight, ResultRight
    <2>6. Ahead(c) => Ahead(c)'
        BY <2>1 DEF Ahead, Mentions
    <2>7. ASSUME NEW r \in Resources PROVE ToldRight(c, r)'
        <3>1. Underway(c, r) => Underway(c, r)'
            BY <2>6 DEF Underway
        <3>2. Heard(c, r) => Heard(c, r)'
            BY <1>1, <2>2 DEF Heard
        <3> QED BY <1>1, <2>2, <2>3, <3>1, <3>2 DEF ToldRight
    <2> QED BY <2>4, <2>5, <2>7 DEF ReadRight
<1> QED BY <1>1, <1>2, <1>3 DEF ToldInv

LEMMA ToldUpdate ==
    ASSUME AudInv, ToldInv, NEW i \in Items, RequestUpdate(i)
    PROVE  ToldInv'
<1>0. PICK d \in ConstraintIds, t \in TemplateIds, v \in Versions, code \in Codes :
          d = i.id /\ t = i.template /\ v = i.updatedAt /\ code = i.code
    BY ItemFields
<1>1. UNCHANGED <<object, informer, source, ids, snapshot, stage, target, selected, at, record,
                  results, kept, told, unreached, updated, overlooked>>
      /\ listener \in {"idle", "table"}
    BY DEF RequestUpdate, sourceVars, loopVars, rangeVars
<1>2. \/ KeepConstraint(d, v) /\ listener' = "table"
      \/ /\ Store(d, t, v)
         /\ current'.id = d
         /\ listener' = "template"
         /\ templates' = templates
    BY <1>0 DEF RequestUpdate
<1>3. ASSUME NEW c \in ConstraintIds, Settled(c)' PROVE Settled(c) /\ SameVerdict(c)
    <2>1. constraints'[c] = constraints[c] /\ templates' = templates
        <3>1. CASE KeepConstraint(d, v)
            BY <3>1 DEF KeepConstraint
        <3>2. CASE Store(d, t, v) /\ current'.id = d /\ listener' = "template" /\ templates' = templates
            <4>1. c # d
                BY <1>3, <3>2 DEF Settled, Requested
            <4> QED BY <3>2, <4>1, StoredType DEF AudInv
        <3> QED BY <1>2, <3>1, <3>2
    <2> QED BY <1>1, <1>3, <2>1 DEF Settled, Requested, Found, SameVerdict
<1> QED BY <1>1, <1>3, ToldListener

LEMMA ToldTemplate ==
    ASSUME AudInv, ToldInv, RequestTemplate, ~panicked'
    PROVE  ToldInv'
<1>1. PolTypeOK /\ ListenOK
    BY DEF AudInv
<1>2. current \in Current /\ Found(current.id) /\ current.id \in ConstraintIds /\ current.code \in Codes
    BY <1>1 DEF RequestTemplate, ListenOK, Current
<1>3. PICK d \in ConstraintIds, t \in TemplateIds, added \in BOOLEAN, code \in Codes :
        d = current.id /\ t = constraints[d].template /\ added = current.added /\ code = current.code
    BY <1>1, <1>2, EntryTypes DEF Current
<1>4. /\ IF added THEN AddTemplate(d, t, code) /\ UNCHANGED panicked
         ELSE ReplaceTemplate(d, t, code)
      /\ listener' # "template"
      /\ updated' = IF d \in refused' THEN updated ELSE updated \cup {d}
      /\ overlooked' = overlooked \cup Overlooks(d, t)
      /\ constraints' = constraints
    BY <1>3 DEF RequestTemplate
<1>5. UNCHANGED <<object, informer, source, ids, snapshot, stage, target, selected, at, record,
                  results, kept, told, unreached>>
    BY DEF RequestTemplate, sourceVars, loopVars, rangeVars
<1>6. /\ \A u \in TemplateIds \ {t} : templates'[u] = templates[u]
      /\ d \in refused' => templates' = templates
    <2>1. CASE added
        BY <1>1, <1>4, <2>1 DEF AddTemplate, PolTypeOK
    <2>2. CASE ~added
        BY <1>1, <1>4, <2>2 DEF ReplaceTemplate, PolTypeOK
    <2> QED BY <2>1, <2>2
<1>7. templates'[t] # Absent => PolicyOf(templates'[t]) # Absent
    <2>1. templates'[t] \in Template \cup {Absent}
        <3>1. CASE added
            BY <1>1, <1>4, <3>1, AddTemplateType
        <3>2. CASE ~added
            BY <1>1, <1>4, <3>2, ReplaceTemplateType
        <3> QED BY <3>1, <3>2
    <2> QED BY <2>1, ParsableAssumption, AuditorConstants DEF Template, PolicyOf
<1>8. ASSUME NEW c \in ConstraintIds, Settled(c)' PROVE Settled(c) /\ SameVerdict(c)
    <2>1. Found(c) /\ templates'[constraints[c].template] # Absent /\ c \notin overlooked /\ c \notin Overlooks(d, t)
          /\ c \notin updated'
        BY <1>4, <1>8 DEF Settled, Requested, Found
    <2>2. c # d
        BY <1>4, <2>1 DEF Overlooks
    <2>3. c \notin updated /\ ~Requested(c)
        BY <1>3, <1>4, <2>1, <2>2 DEF Requested
    <2>4. PICK u \in TemplateIds : u = constraints[c].template
        BY <1>1, <2>1, EntryTypes
    <2>5. PolicyOf(templates'[u]) = PolicyOf(templates[u])
        <3>1. CASE d \in refused'
            BY <1>6, <3>1
        <3>2. CASE u # t
            BY <1>6, <3>2
        <3>3. CASE d \notin refused' /\ u = t
            BY <2>1, <2>2, <2>4, <3>3 DEF Overlooks
        <3> QED BY <3>1, <3>2, <3>3
    <2>6. templates[u] # Absent
        <3>1. CASE u # t
            BY <1>6, <2>1, <2>4, <3>1
        <3>2. CASE u = t
            BY <1>7, <2>1, <2>4, <2>5, <3>2 DEF PolicyOf
        <3> QED BY <3>1, <3>2
    <2> QED BY <1>4, <2>1, <2>3, <2>4, <2>5, <2>6 DEF Settled, SameVerdict
<1> QED BY <1>5, <1>8, ToldListener

LEMMA ToldRemove ==
    ASSUME AudInv, ToldInv, NEW d \in ConstraintIds, RequestRemove(d), ~panicked'
    PROVE  ToldInv'
<1>1. UNCHANGED <<object, informer, source, ids, snapshot, stage, target, selected, at, record,
                  results, kept, told, unreached, updated, overlooked, constraints>>
      /\ listener \in {"idle", "table"} /\ listener' = "delete"
    BY DEF RequestRemove, sourceVars, loopVars, rangeVars
<1>2. PolTypeOK /\ Found(d) /\ DropTemplate(d)
    BY DEF AudInv, RequestRemove
<1>3. PICK t \in TemplateIds : t = constraints[d].template
    BY <1>2, EntryTypes
<1>4. templates[t] # Absent
    BY <1>2, <1>3 DEF DropTemplate
<1>5. PICK n \in Nat, k \in Parsable : n = templates[t].usage /\ k = templates[t].policy
    BY <1>2, <1>4, EntryTypes
<1>6. templates' = [templates EXCEPT ![t] = IF n > 1 THEN [usage |-> n - 1, policy |-> k] ELSE Absent]
    BY <1>2, <1>3, <1>4, <1>5 DEF DropTemplate
<1>7. ASSUME NEW u \in TemplateIds, templates'[u] # Absent
      PROVE  templates[u] # Absent /\ PolicyOf(templates'[u]) = PolicyOf(templates[u])
    <2>1. CASE u # t
        BY <1>2, <1>6, <1>7, <2>1 DEF PolTypeOK
    <2>2. CASE u = t
        <3>1. templates'[t] = [usage |-> n - 1, policy |-> k]
            BY <1>2, <1>6, <1>7, <2>2 DEF PolTypeOK
        <3>2. templates'[t].policy = k
            BY <3>1
        <3> QED BY <1>4, <1>5, <1>7, <2>2, <3>2 DEF PolicyOf
    <2> QED BY <2>1, <2>2
<1>8. ASSUME NEW c \in ConstraintIds, Settled(c)' PROVE Settled(c) /\ SameVerdict(c)
    <2>1. Found(c) /\ templates'[constraints[c].template] # Absent
        BY <1>1, <1>8 DEF Settled, Found
    <2>2. constraints[c].template \in TemplateIds
        BY <1>2, <2>1, EntryTypes
    <2>3. SameVerdict(c) /\ templates[constraints[c].template] # Absent
        BY <1>1, <1>7, <2>1, <2>2 DEF SameVerdict
    <2> QED BY <1>1, <1>8, <2>1, <2>3 DEF Settled, Requested
<1> QED BY <1>1, <1>8, ToldListener

LEMMA ToldDelete ==
    ASSUME AudInv, ToldInv, RequestDelete
    PROVE  ToldInv'
<1>1. UNCHANGED <<object, informer, source, ids, snapshot, stage, target, selected, at, record,
                  results, kept, told, templates, updated>>
      /\ listener = "delete" /\ listener' = "cache" /\ overlooked' = overlooked \ {current.id}
      /\ (unreached' = unreached \/ unreached' = unreached \ {current.id})
      /\ constraints' = [constraints EXCEPT ![current.id] = Absent]
      /\ constraints \in [ConstraintIds -> Constraint \cup {Absent}]
    BY DEF RequestDelete, sourceVars, AudInv, PolTypeOK
<1>2. ASSUME NEW c \in ConstraintIds, Settled(c)'
      PROVE  Settled(c) /\ SameVerdict(c) /\ (c \in unreached => c \in unreached')
    <2>1. c # current.id
        BY <1>1, <1>2 DEF Settled, Found
    <2>2. constraints'[c] = constraints[c]
        BY <1>1, <2>1
    <2> QED BY <1>1, <1>2, <2>1, <2>2 DEF Settled, Requested, Found, SameVerdict
<1> QED BY <1>1, <1>2, ToldListener

LEMMA ToldOther ==
    ASSUME AudInv, ToldInv, RequestUncache \/ RequestDone
    PROVE  ToldInv'
<1>1. UNCHANGED <<object, informer, source, ids, snapshot, stage, target, selected, at, record,
                  results, kept, told, unreached, updated, overlooked, constraints, templates>>
      /\ listener \in {"cache", "table"} /\ listener' # "template"
    BY DEF RequestUncache, RequestDone, sourceVars, loopVars, rangeVars, polVars, ghostVars
<1>2. \A c \in ConstraintIds : Settled(c)' => Settled(c) /\ SameVerdict(c)
    BY <1>1 DEF Settled, Requested, Found, SameVerdict
<1> QED BY <1>1, <1>2, ToldListener

------------------------------------------------------------------------------
(* The cluster: what changes is announced. *)

LEMMA ToldCluster ==
    ASSUME AudInv, ToldInv,
           UNCHANGED <<constraints, templates, listenVars, loopVars, told, overlooked>>,
           \A r \in Resources :
               /\ QueueRight(r)'
               /\ Announced(r)' \/ (object'[r] = object[r] /\ (Announced(r) => Announced(r)'))
    PROVE  ToldInv'
<1>1. UNCHANGED <<ids, snapshot, stage, target, selected, unreached, at, record, results, kept>>
    BY DEF loopVars, rangeVars
<1>2. \A r \in DOMAIN snapshot' : SnapshotRight(r)'
    <2> SUFFICES ASSUME NEW r \in DOMAIN snapshot PROVE SnapshotRight(r)'
        BY <1>1
    <2>1. r \in Resources /\ SnapshotRight(r)
        BY DEF AudInv, LoopOK, ToldInv
    <2>2. CASE Announced(r)'
        BY <2>2 DEF SnapshotRight
    <2>3. CASE object'[r] = object[r] /\ (Announced(r) => Announced(r)')
        BY <1>1, <2>1, <2>3 DEF SnapshotRight, Views
    <2> QED BY <2>1, <2>2, <2>3
<1>3. ASSUME NEW c \in ConstraintIds, Settled(c)'
      PROVE  ReadRight(c)' /\ \A r \in Resources : ToldRight(c, r)'
    <2>1. Settled(c)
        BY <1>3 DEF Settled, Found, Requested, listenVars
    <2>2. \A o : VerdictOn(c, o)' = VerdictOn(c, o)
        BY VerdictKept DEF SameVerdict
    <2>3. ReadRight(c) /\ \A r \in Resources : ToldRight(c, r)
        BY <2>1 DEF ToldInv
    <2>4. RecordRight(c)'
        BY <1>1, <2>3 DEF ReadRight, RecordRight
    <2>5. ResultRight(results, c)' /\ ResultRight(kept, c)'
        BY <1>1, <2>2, <2>3 DEF ReadRight, ResultRight
    <2>6. ASSUME NEW r \in Resources PROVE ToldRight(c, r)'
        <3>1. CASE Announced(r)'
            BY <3>1 DEF ToldRight
        <3>2. CASE object'[r] = object[r] /\ (Announced(r) => Announced(r)')
            <4>1. Ahead(c) => Ahead(c)'
                BY <1>1 DEF Ahead, Mentions
            <4>2. Underway(c, r) => Underway(c, r)'
                BY <1>1, <4>1 DEF Underway
            <4>3. Heard(c, r) => Heard(c, r)'
                BY <2>2, <3>2 DEF Heard, Views
            <4> QED BY <2>3, <3>2, <4>2, <4>3 DEF ToldRight
        <3> QED BY <3>1, <3>2
    <2> QED BY <2>4, <2>5, <2>6 DEF ReadRight
<1> QED BY <1>2, <1>3 DEF ToldInv

\* The last element of a sequence that grew or lost its head
LEMMA LastAppended ==
    ASSUME NEW S, NEW s \in Seq(S), NEW e \in S
    PROVE  Append(s, e)[Len(Append(s, e))] = e
BY Appended

LEMMA ToldChange ==
    ASSUME AudInv, ToldInv, NEW r \in Resources, Change(r)
    PROVE  ToldInv'
<1> USE AuditorConstants
<1> DEFINE W == ObjectVersions \cup {Absent, Nil}
<1>1. PICK v \in (ObjectVersions \cup {Absent}) \ {object[r]} :
          object' = [object EXCEPT ![r] = v] /\ Notify(r, v)
    BY DEF Change
<1>2. UNCHANGED <<constraints, templates, listenVars, loopVars, told, overlooked, source>>
    BY DEF Change, polVars, ghostVars
<1>3. object \in [Resources -> ObjectVersions \cup {Absent}] /\ informer \in [Resources -> Seq(W)]
    BY DEF AudInv, SourceOK
<1>4. object'[r] = v /\ \A x \in Resources \ {r} : object'[x] = object[x]
    BY <1>1, <1>3
<1>5. \A x \in Resources \ {r} : informer'[x] = informer[x]
    <2> HIDE DEF W
    <2> QED BY <1>1, <1>3 DEF Notify
<1>6. \A x \in Resources \ {r} : QueueRight(x)' /\ (Announced(x) => Announced(x)')
    BY <1>2, <1>4, <1>5 DEF ToldInv, QueueRight, Announced, Visible
<1>7. QueueRight(r)' /\ Announced(r)'
    <2>1. CASE source # "watching"
        <3>1. informer[r] = <<>> /\ informer' = informer
            BY <1>1, <2>1 DEF ToldInv, QueueRight, Notify
        <3> QED BY <1>2, <2>1, <3>1 DEF QueueRight, Announced
    <2>2. CASE source = "watching" /\ Dropped(object[r], v)
        <3>1. informer' = informer
            BY <1>1, <2>2 DEF Notify
        <3>2. v = Absent \/ v \in Unmaskable
            BY <2>2 DEF Dropped
        <3> QED BY <1>2, <1>4, <2>2, <3>1, <3>2 DEF QueueRight, Announced, Visible
    <2>3. CASE source = "watching" /\ ~Dropped(object[r], v)
        <3>1. PICK e \in W : e = Notification(object[r], v)
            BY <1>3 DEF Notification, MaskUnstructured
        <3>2. informer'[r] = Append(informer[r], e)
            <4> HIDE DEF W
            <4> QED BY <1>1, <1>3, <2>3, <3>1 DEF Notify
        <3>3. informer'[r] # <<>> /\ informer'[r][Len(informer'[r])] = e
            <4> HIDE DEF W
            <4>1. informer[r] \in Seq(W)
                BY <1>3
            <4> QED BY <3>2, <4>1, Appended, LastAppended
        <3>4. v # Absent => e \in {Masked[v], Nil}
            BY <3>1 DEF Notification, MaskUnstructured
        <3> QED BY <1>2, <1>4, <2>3, <3>3, <3>4 DEF QueueRight, Announced, Visible
    <2> QED BY <2>1, <2>2, <2>3
<1> QED BY <1>2, <1>4, <1>6, <1>7, ToldCluster

LEMMA ToldMissed ==
    ASSUME AudInv, ToldInv, NEW r \in Resources, MissedDelete(r)
    PROVE  ToldInv'
<1>1. UNCHANGED <<constraints, templates, listenVars, loopVars, told, overlooked, source, informer>>
    BY DEF MissedDelete, polVars, ghostVars
<1>2. object'[r] = Absent /\ \A x \in Resources \ {r} : object'[x] = object[x]
    BY DEF MissedDelete, AudInv, SourceOK
<1>3. \A x \in Resources \ {r} : QueueRight(x)' /\ (Announced(x) => Announced(x)')
    BY <1>1, <1>2 DEF ToldInv, QueueRight, Announced, Visible
<1>4. QueueRight(r)' /\ Announced(r)'
    BY <1>1, <1>2 DEF ToldInv, QueueRight, Announced, Visible
<1> QED BY <1>1, <1>2, <1>3, <1>4, ToldCluster

\* AddEventHandler announces what the informer has.
LEMMA ToldAttach ==
    ASSUME AudInv, ToldInv, Attach
    PROVE  ToldInv'
<1>1. UNCHANGED <<constraints, templates, listenVars, loopVars, told, overlooked, object>>
      /\ source' = "watching"
    BY DEF Attach, polVars, ghostVars
<1>2. ASSUME NEW r \in Resources PROVE QueueRight(r)' /\ Announced(r)'
    <2>1. CASE object[r] \in {Absent} \cup Unmaskable
        BY <1>1, <2>1 DEF QueueRight, Announced, Visible
    <2>2. CASE object[r] \notin {Absent} \cup Unmaskable
        <3>1. informer'[r] = <<Masked[object[r]]>>
            BY <2>2 DEF Attach, MaskUnstructured
        <3>2. Len(informer'[r]) = 1 /\ informer'[r][1] = Masked[object[r]] /\ informer'[r] # <<>>
            BY <3>1
        <3>3. informer'[r][Len(informer'[r])] = Masked[object[r]]
            BY <3>2
        <3> QED BY <1>1, <3>2, <3>3 DEF QueueRight, Announced
    <2> QED BY <2>1, <2>2
<1> QED BY <1>1, <1>2, ToldCluster

LEMMA ToldCommand ==
    ASSUME AudInv, ToldInv, Command \/ UNCHANGED audVars
    PROVE  ToldInv'
<1>1. UNCHANGED <<constraints, templates, listenVars, loopVars, told, overlooked, object, informer, source>>
    BY DEF Command, audVars, polVars, sourceVars, ghostVars
<1>2. \A r \in Resources : QueueRight(r)' /\ (Announced(r) => Announced(r)')
    BY <1>1 DEF ToldInv, QueueRight, Announced, Visible
<1> QED BY <1>1, <1>2, ToldCluster

------------------------------------------------------------------------------
(* The loop takes an event: it has nothing underway, and begins an audit that  *)
(* tells of every constraint whose event it took.                              *)

\* A step between two audits
LEMMA ToldTake ==
    ASSUME AudInv, ToldInv, loop = "select",
           UNCHANGED <<constraints, templates, object, stage, target, rangeVars, results, kept, told>>,
           \A r \in Resources : QueueRight(r)',
           \A r \in DOMAIN snapshot' : SnapshotRight(r)',
           \A c \in ConstraintIds, r \in Resources : Settled(c)' =>
               \/ Announced(r)' \/ Underway(c, r)'
               \/ Settled(c) /\ ~Announced(r)
    PROVE  ToldInv'
<1>1. stage = "next" /\ DOMAIN snapshot = {} /\ DOMAIN selected = {} /\ results = <<>> /\ kept = <<>>
    BY DEF AudInv, LoopOK, RangeOK, ResultsOK, Auditing
<1>2. stage' = "next" /\ DOMAIN selected' = {} /\ results' = <<>> /\ kept' = <<>>
    BY <1>1 DEF rangeVars
<1>3. \A c : ReadRight(c)'
    BY <1>2 DEF ReadRight, RecordRight, ResultRight
<1>4. ASSUME NEW c \in ConstraintIds, NEW r \in Resources, Settled(c)'
      PROVE  ToldRight(c, r)'
    <2>1. CASE Announced(r)' \/ Underway(c, r)'
        BY <2>1 DEF ToldRight
    <2>2. CASE Settled(c) /\ ~Announced(r)
        <3>1. ToldRight(c, r) /\ ~Underway(c, r)
            BY <1>1, <2>2 DEF ToldInv, Underway
        <3>2. \A o : VerdictOn(c, o)' = VerdictOn(c, o)
            BY VerdictKept DEF SameVerdict
        <3>3. Heard(c, r) => Heard(c, r)'
            BY <3>2 DEF Heard, Views
        <3> QED BY <2>2, <3>1, <3>3 DEF ToldRight
    <2> QED BY <1>4, <2>1, <2>2
<1> QED BY <1>3, <1>4 DEF ToldInv

LEMMA ToldTakeResource ==
    ASSUME AudInv, ToldInv, NEW r \in Resources, TakeResource(r)
    PROVE  ToldInv'
<1> USE AuditorConstants
<1> DEFINE W == ObjectVersions \cup {Absent, Nil}
<1>1. UNCHANGED <<constraints, templates, object, stage, target, rangeVars, results, kept, told, source,
                  listenVars, overlooked>>
      /\ loop = "select" /\ informer[r] # <<>> /\ Head(informer[r]) # Nil
      /\ informer' = [informer EXCEPT ![r] = Tail(@)]
    BY DEF TakeResource, polVars, ghostVars
<1>2. stage = "next" /\ DOMAIN snapshot = {} /\ source = "watching" /\ QueueRight(r)
    BY <1>1 DEF AudInv, LoopOK, ToldInv, QueueRight
<1>3. informer \in [Resources -> Seq(W)] /\ object \in [Resources -> ObjectVersions \cup {Absent}]
    BY DEF AudInv, SourceOK
<1>4. PICK q \in Seq(W) : q = informer[r]
    <2> HIDE DEF W
    <2> QED BY <1>3
<1>5. /\ Head(q) = q[1] /\ Len(q) \in Nat /\ Len(q) >= 1 /\ Tail(q) \in Seq(W)
      /\ Len(Tail(q)) = Len(q) - 1
      /\ \A i \in 1..Len(Tail(q)) : Tail(q)[i] = q[i + 1]
    <2> HIDE DEF W
    <2> QED BY <1>1, <1>4, Taken
<1>6. informer'[r] = Tail(q) /\ \A x \in Resources \ {r} : informer'[x] = informer[x]
    <2> HIDE DEF W
    <2> QED BY <1>1, <1>3, <1>4
<1>7. PICK v : v = Head(q)
    OBVIOUS
<1>8. QueueRight(r)' /\ (Announced(r)' \/ v = Masked[object[r]])
    <2>1. CASE Tail(q) # <<>>
        <3>1. Len(Tail(q)) # 0
            <4> HIDE DEF W
            <4> QED BY <1>5, <2>1, EmptySeq
        <3>2. Len(Tail(q)) \in 1..Len(Tail(q)) /\ Len(Tail(q)) + 1 = Len(q)
            BY <1>5, <3>1
        <3>3. Tail(q)[Len(Tail(q))] = q[Len(q)]
            BY <1>5, <3>2
        <3> QED BY <1>1, <1>2, <1>4, <1>6, <2>1, <3>3 DEF QueueRight, Announced, Visible
    <2>2. CASE Tail(q) = <<>>
        <3>0. Len(Tail(q)) = 0
            <4>1. Len(<<>>) = 0
                OBVIOUS
            <4> QED BY <2>2, <4>1, Zenon
        <3>1. Len(q) = 1
            BY <1>5, <3>0
        <3>2. v = q[Len(q)] /\ v # Nil
            BY <1>1, <1>4, <1>5, <1>7, <3>1
        <3>3. Visible(r) => v = Masked[object[r]]
            BY <1>1, <1>2, <1>4, <3>2 DEF QueueRight
        <3>4. QueueRight(r)'
            BY <1>6, <2>2 DEF QueueRight
        <3> QED BY <1>1, <3>3, <3>4 DEF Announced, Visible
    <2> QED BY <2>1, <2>2
<1>9. v = Absent => Announced(r)'
    <2> SUFFICES ASSUME v = Masked[object[r]], ~Announced(r)' PROVE v # Absent
        BY <1>8
    <2>1. object[r] \in ObjectVersions
        BY <1>1, <1>3 DEF Announced, Visible
    <2> QED BY <2>1
<1>10. \A x \in Resources \ {r} : QueueRight(x)' /\ (Announced(x)' <=> Announced(x))
    BY <1>1, <1>6 DEF ToldInv, QueueRight, Announced, Visible
<1>11. \/ v = Absent /\ UNCHANGED <<ids, snapshot>>
       \/ v # Absent /\ ids' = {} /\ snapshot' = [x \in {r} |-> v]
    BY <1>2, <1>4, <1>7 DEF TakeResource
<1>12. \A x \in DOMAIN snapshot' : SnapshotRight(x)'
    <2>1. CASE v = Absent /\ UNCHANGED <<ids, snapshot>>
        BY <1>2, <2>1
    <2>2. CASE v # Absent /\ ids' = {} /\ snapshot' = [x \in {r} |-> v]
        <3>1. DOMAIN snapshot' = {r} /\ snapshot'[r] = v
            BY <2>2
        <3> QED BY <1>1, <1>8, <3>1 DEF SnapshotRight, Views
    <2> QED BY <1>11, <2>1, <2>2
<1>13. \A c : Announced(r)' \/ Underway(c, r)'
    <2>1. CASE v # Absent /\ ids' = {} /\ snapshot' = [x \in {r} |-> v]
        BY <1>1, <1>2, <2>1 DEF Underway
    <2> QED BY <1>9, <1>11, <2>1
<1>14. \A c : Settled(c)' => Settled(c)
    BY <1>1 DEF Settled, Found, Requested, listenVars
<1>15. \A x \in Resources : QueueRight(x)'
    BY <1>8, <1>10
<1>16. \A c \in ConstraintIds, x \in Resources : Settled(c)' =>
           Announced(x)' \/ Underway(c, x)' \/ (Settled(c) /\ ~Announced(x))
    BY <1>10, <1>13, <1>14
<1> QED BY <1>1, <1>12, <1>15, <1>16, ToldTake

LEMMA ToldTakeAll ==
    ASSUME AudInv, ToldInv, TakePolicies \/ TakeSync \/ TakeCommand
    PROVE  ToldInv'
<1>1. UNCHANGED <<constraints, templates, object, informer, told>> /\ loop = "select"
    BY DEF TakePolicies, TakeSync, TakeCommand, polVars, sourceVars
<1>2. PICK wanted \in SUBSET ConstraintIds, L \in SUBSET Existing :
        /\ StartAll(wanted, L)
        /\ source' = "watching" => L = Existing /\ source = "watching"
        /\ \A c : Requested(c) /\ c \notin wanted => Requested(c)'
    <2>1. CASE TakePolicies
        <3>1. PICK L \in Listed : StartAll(updated, L)
            BY <2>1 DEF TakePolicies
        <3>2. updated \in SUBSET ConstraintIds
            BY DEF AudInv, ListenOK
        <3>3. L \in SUBSET Existing /\ (source' = "watching" => L = Existing /\ source = "watching")
            BY <2>1, <3>1 DEF TakePolicies, Listed, sourceVars
        <3>4. \A c : Requested(c) => c \in updated
            BY <2>1 DEF TakePolicies, Requested
        <3> QED BY <3>1, <3>2, <3>3, <3>4
    <2>2. CASE TakeSync
        <3>1. StartAll({}, Existing) /\ source' # "watching" /\ UNCHANGED listenVars
            BY <2>2 DEF TakeSync
        <3>2. \A c : Requested(c) => Requested(c)'
            BY <3>1 DEF Requested, listenVars
        <3> QED BY <3>1, <3>2
    <2>3. CASE TakeCommand
        <3>1. PICK L \in Listed : StartAll({}, L)
            BY <2>3 DEF TakeCommand
        <3>2. L \in SUBSET Existing /\ (source' = "watching" => L = Existing /\ source = "watching")
            BY <2>3, <3>1 DEF TakeCommand, Listed, sourceVars
        <3>3. \A c : Requested(c) => Requested(c)'
            BY <2>3 DEF TakeCommand, Requested, listenVars
        <3> QED BY <3>1, <3>2, <3>3
    <2> QED BY <2>1, <2>2, <2>3
<1>3. UNCHANGED <<stage, target, rangeVars, results, kept>>
      /\ (L # {} => ids' = wanted)
      /\ (wanted # {} => overlooked' = overlooked \ wanted)
    BY <1>2, Zenon DEF StartAll
<1>4. DOMAIN snapshot' = L /\ \A r \in L : snapshot'[r] = object[r]
    BY <1>2, ListingOK DEF AudInv
<1>5. \A r \in DOMAIN snapshot' : SnapshotRight(r)'
    BY <1>1, <1>4 DEF SnapshotRight, Views
<1>6. \A r \in Resources : QueueRight(r)'
    <2> TAKE r \in Resources
    <2>1. source = "watching" => source' = "watching"
        BY DEF TakePolicies, TakeSync, TakeCommand, sourceVars
    <2> QED BY <1>1, <2>1 DEF ToldInv, QueueRight, Visible
<1>7. ASSUME NEW c \in ConstraintIds, NEW r \in Resources, Settled(c)', ~Announced(r)'
      PROVE  Underway(c, r)' \/ (Settled(c) /\ ~Announced(r))
    <2>1. source = "watching" /\ L = Existing /\ ~Announced(r) /\ object[r] # Absent
        BY <1>1, <1>2, <1>7 DEF Announced, Visible
    <2>2. r \in L /\ stage' = "next"
        BY <1>1, <1>3, <2>1 DEF Existing, AudInv, LoopOK
    <2>3. CASE wanted = {} \/ c \in wanted
        <3>1. ids' = wanted
            BY <1>3, <2>2
        <3> QED BY <1>4, <2>2, <2>3, <3>1 DEF Underway
    <2>4. CASE wanted # {} /\ c \notin wanted
        <3>1. c \notin overlooked /\ ~Requested(c)
            <4>1. c \notin overlooked' /\ ~Requested(c)'
                BY <1>7 DEF Settled
            <4> QED BY <1>2, <1>3, <2>4, <4>1
        <3>2. Settled(c)
            BY <1>1, <1>7, <3>1 DEF Settled, Found
        <3> QED BY <2>1, <3>2
    <2> QED BY <2>3, <2>4
<1>8. \A c \in ConstraintIds, r \in Resources : Settled(c)' =>
          Announced(r)' \/ Underway(c, r)' \/ (Settled(c) /\ ~Announced(r))
    BY <1>7
<1> QED BY <1>1, <1>3, <1>5, <1>6, <1>8, ToldTake

------------------------------------------------------------------------------
(* The audit of a resource: whom it has read and whom it has still to tell *)

\* What the steps of the loop leave alone
LEMMA AuditSame ==
    ASSUME AuditFrame
    PROVE  /\ UNCHANGED <<constraints, templates, object, informer, source>>
           /\ \A r : (Announced(r)' <=> Announced(r)) /\ (QueueRight(r)' <=> QueueRight(r))
                     /\ Views(r)' = Views(r)
           /\ \A c : Settled(c)' <=> Settled(c)
           /\ \A c, o : VerdictOn(c, o)' = VerdictOn(c, o)
<1>1. UNCHANGED <<constraints, templates, object, informer, source, listener, current, updated, overlooked>>
    BY DEF AuditFrame, sourceVars, listenVars
<1>2. \A r : (Announced(r)' <=> Announced(r)) /\ (QueueRight(r)' <=> QueueRight(r)) /\ Views(r)' = Views(r)
    BY <1>1 DEF Announced, QueueRight, Visible, Views
<1>3. \A c : Settled(c)' <=> Settled(c)
    BY <1>1 DEF Settled, Found, Requested
<1>4. \A c, o : VerdictOn(c, o)' = VerdictOn(c, o)
    BY <1>1 DEF VerdictOn
<1> QED BY <1>1, <1>2, <1>3, <1>4

LEMMA ToldKept ==
    ASSUME AuditFrame, NEW c, NEW r, ToldRight(c, r), told'[c][r] = told[c][r],
           Underway(c, r) => Underway(c, r)'
    PROVE  ToldRight(c, r)'
<1>1. Heard(c, r) => Heard(c, r)'
    BY AuditSame DEF Heard
<1> QED BY <1>1, AuditSame DEF ToldRight

\* A verdict on the resource as the loop has it is good.
LEMMA ToldNow ==
    ASSUME AuditFrame, NEW c, NEW r, SnapshotRight(r), told'[c][r] = VerdictOn(c, snapshot[r])
    PROVE  ToldRight(c, r)'
<1>1. CASE Announced(r)
    BY <1>1, AuditSame DEF ToldRight
<1>2. CASE snapshot[r] \in Views(r)
    <2>1. PICK o \in Views(r) : o = snapshot[r]
        BY <1>2
    <2>2. told'[c][r] = VerdictOn(c, o)' /\ o \in Views(r)'
        BY <2>1, AuditSame
    <2>3. Heard(c, r)'
        BY <2>2 DEF Heard
    <2> QED BY <2>3 DEF ToldRight
<1> QED BY <1>1, <1>2 DEF SnapshotRight

\* A step with the resource the loop is at
LEMMA ToldAt ==
    ASSUME AudInv, ToldInv, AuditFrame, UNCHANGED <<ids, snapshot, target>>, stage # "next",
           \A c \in ConstraintIds : Settled(c) => ReadRight(c)',
           \A c \in ConstraintIds, r \in Resources : Settled(c) =>
               \/ ToldRight(c, r)'
               \/ told'[c][r] = told[c][r] /\ (r = target /\ Ahead(c) => Ahead(c)')
    PROVE  ToldInv'
<1>1. \A r \in Resources : QueueRight(r)'
    BY AuditSame DEF ToldInv
<1>2. \A r \in DOMAIN snapshot' : SnapshotRight(r)'
    BY AuditSame DEF ToldInv, SnapshotRight
<1>3. ASSUME NEW c \in ConstraintIds, Settled(c)'
      PROVE  ReadRight(c)' /\ \A r \in Resources : ToldRight(c, r)'
    <2>1. Settled(c) /\ ReadRight(c)'
        BY <1>3, AuditSame
    <2>2. ASSUME NEW r \in Resources PROVE ToldRight(c, r)'
        <3>1. CASE told'[c][r] = told[c][r] /\ (r = target /\ Ahead(c) => Ahead(c)')
            <4>1. Underway(c, r) => Underway(c, r)'
                BY <3>1 DEF Underway
            <4>2. ToldRight(c, r)
                BY <2>1 DEF ToldInv
            <4> QED BY <3>1, <4>1, <4>2, ToldKept
        <3> QED BY <2>1, <3>1
    <2> QED BY <2>1, <2>2
<1> QED BY <1>1, <1>2, <1>3 DEF ToldInv

\* The verdicts are the same in the next state, and so are results right in it.
LEMMA ReadMoved ==
    ASSUME AuditFrame, UNCHANGED <<snapshot, target>>, NEW c, RecordRight(c)',
           ResultRight(results', c), ResultRight(kept', c)
    PROVE  ReadRight(c)'
<1>1. VerdictOn(c, snapshot[target])' = VerdictOn(c, snapshot[target])
    BY AuditSame DEF VerdictOn
<1> QED BY <1>1 DEF ReadRight, ResultRight

LEMMA ResultsKept ==
    ASSUME AuditFrame, UNCHANGED <<snapshot, target, results, kept>>, NEW c, ReadRight(c), RecordRight(c)'
    PROVE  ReadRight(c)'
<1>1. ResultRight(results', c) /\ ResultRight(kept', c)
    BY DEF ReadRight
<1> QED BY <1>1, ReadMoved

LEMMA ToldLeave ==
    ASSUME AudInv, ToldInv, AuditFrame, told' = told, NEW r, Leave(r), stage' = "next",
           DOMAIN selected' = {}, results' = <<>>, kept' = <<>>,
           \A c \in ConstraintIds : Settled(c) /\ r \in Resources => ToldRight(c, r)'
    PROVE  ToldInv'
<1>1. /\ DOMAIN snapshot' = DOMAIN snapshot \ {r}
      /\ \A x \in DOMAIN snapshot' : snapshot'[x] = snapshot[x]
      /\ DOMAIN snapshot' # {} => ids' = ids
    BY LeaveOK DEF AudInv
<1>2. \A x \in Resources : QueueRight(x)'
    BY AuditSame DEF ToldInv
<1>3. \A x \in DOMAIN snapshot' : SnapshotRight(x)'
    BY <1>1, AuditSame DEF ToldInv, SnapshotRight
<1>4. \A c : ReadRight(c)'
    BY DEF ReadRight, RecordRight, ResultRight
<1>5. ASSUME NEW c \in ConstraintIds, Settled(c), NEW x \in Resources PROVE ToldRight(c, x)'
    <2>1. CASE x = r
        BY <1>5, <2>1
    <2>2. CASE x # r
        <3>1. Underway(c, x) => Underway(c, x)'
            BY <1>1, <2>2 DEF Underway
        <3>2. ToldRight(c, x)
            BY <1>5 DEF ToldInv
        <3> QED BY <3>1, <3>2, ToldKept
    <2> QED BY <2>1, <2>2
<1> QED BY <1>2, <1>3, <1>4, <1>5, AuditSame DEF ToldInv

LEMMA ToldBegin ==
    ASSUME AudInv, ToldInv, NEW r \in Resources, AuditBegin(r)
    PROVE  ToldInv'
<1>1. AuditFrame /\ stage = "next" /\ r \in DOMAIN snapshot
      /\ UNCHANGED <<selected, at, record, results, kept, told>>
    BY DEF AuditBegin
<1>2. DOMAIN selected' = {} /\ results' = <<>> /\ kept' = <<>>
    BY <1>1 DEF AudInv, RangeOK, ResultsOK, Auditing
<1>3. CASE r \in Owned
    <2>1. Leave(r) /\ stage' = "next"
        BY <1>1, <1>3 DEF AuditBegin
    <2>2. \A c : ToldRight(c, r)'
        BY <1>3 DEF ToldRight
    <2> QED BY <1>1, <1>2, <2>1, <2>2, ToldLeave
<1>4. CASE r \notin Owned
    <2>1. /\ target' = r /\ UNCHANGED <<ids, snapshot>>
          /\ stage' = IF ids = {} THEN "range" ELSE "select"
          /\ unreached' = IF ids = {} THEN {c \in ConstraintIds : Found(c)} ELSE ids
        BY <1>4 DEF AuditBegin
    <2>2. \A x \in Resources : QueueRight(x)'
        BY <1>1, AuditSame DEF ToldInv
    <2>3. \A x \in DOMAIN snapshot' : SnapshotRight(x)'
        BY <1>1, <2>1, AuditSame DEF ToldInv, SnapshotRight
    <2>4. \A c : ReadRight(c)'
        BY <1>2, <2>1 DEF ReadRight, RecordRight, ResultRight
    <2>5. ASSUME NEW c \in ConstraintIds, Settled(c), NEW x \in Resources PROVE ToldRight(c, x)'
        <3>1. ids = {} \/ c \in ids => Ahead(c)'
            BY <2>1, <2>5 DEF Ahead, Settled, Auditing
        <3>2. Underway(c, x) => Underway(c, x)'
            BY <2>1, <3>1 DEF Underway
        <3>3. ToldRight(c, x)
            BY <2>5 DEF ToldInv
        <3> QED BY <1>1, <3>2, <3>3, ToldKept
    <2> QED BY <1>1, <2>2, <2>3, <2>4, <2>5, AuditSame DEF ToldInv
<1> QED BY <1>3, <1>4

LEMMA ToldSelect ==
    ASSUME AudInv, ToldInv, NEW e \in ConstraintIds, AuditSelect(e)
    PROVE  ToldInv'
<1>1. /\ AuditFrame /\ stage = "select" /\ e \in unreached
      /\ UNCHANGED <<ids, snapshot, target, results, kept, told>>
      /\ unreached' = IF unreached = {e} THEN DOMAIN selected' ELSE unreached \ {e}
      /\ stage' = IF unreached = {e} THEN "range" ELSE "select"
    BY DEF AuditSelect
<1>2. ASSUME NEW c \in ConstraintIds, Settled(c) PROVE ReadRight(c)'
    <2>1. ReadRight(c)
        BY <1>2 DEF ToldInv
    <2>2. c \in DOMAIN selected' => selected'[c] = constraints[c]
        <3>1. c \in DOMAIN selected => selected[c] = constraints[c]
            BY <2>1 DEF ReadRight, RecordRight
        <3>2. CASE Found(e) /\ c = e
            BY <3>2, Copied
        <3>3. CASE Found(e) /\ c # e
            BY <3>1, <3>3, Copied
        <3>4. CASE ~Found(e)
            BY <3>1, <3>4, Copied
        <3> QED BY <3>2, <3>3, <3>4
    <2>3. RecordRight(c)'
        BY <1>1, <2>2, AuditSame DEF RecordRight
    <2> QED BY <1>1, <2>1, <2>3, ResultsKept
<1>3. ASSUME NEW c \in ConstraintIds, Settled(c), Ahead(c) PROVE Ahead(c)'
    <2>1. Found(e) /\ c = e => c \in DOMAIN selected'
        BY Copied
    <2>2. c \in DOMAIN selected => c \in DOMAIN selected'
        BY Copied
    <2>3. Found(c)
        BY <1>3 DEF Settled
    <2>4. CASE Mentions(results, c) \/ Mentions(kept, c)
        <3>1. Mentions(results, c)' \/ Mentions(kept, c)'
            BY <1>1, <2>4 DEF Mentions
        <3> QED BY <3>1 DEF Ahead
    <2>5. CASE c \in DOMAIN selected'
        <3>1. CASE unreached = {e}
            BY <1>1, <2>5, <3>1 DEF Ahead, Auditing
        <3>2. CASE unreached # {e}
            BY <1>1, <2>5, <3>2 DEF Ahead
        <3> QED BY <3>1, <3>2
    <2>6. CASE c \in unreached /\ c # e
        <3>1. unreached' = unreached \ {e} /\ stage' = "select"
            BY <1>1, <2>6
        <3> QED BY <2>6, <3>1 DEF Ahead, Auditing
    <2> QED BY <1>1, <1>3, <2>1, <2>2, <2>3, <2>4, <2>5, <2>6 DEF Ahead
<1> QED BY <1>1, <1>2, <1>3, ToldAt

LEMMA ToldNext ==
    ASSUME AudInv, ToldInv, NEW d \in ConstraintIds, AuditNext(d)
    PROVE  ToldInv'
<1>1. AuditFrame /\ stage = "range" /\ stage' = "match" /\ at' = d /\ unreached' = unreached \ {d}
      /\ UNCHANGED <<ids, snapshot, target, results, kept, told, selected>>
    BY DEF AuditNext
<1>2. ASSUME NEW c \in ConstraintIds, Settled(c) PROVE ReadRight(c)'
    <2>1. ReadRight(c)
        BY <1>2 DEF ToldInv
    <2>2. RecordRight(c)'
        BY <1>1, <2>1, AuditSame DEF ReadRight, RecordRight
    <2> QED BY <1>1, <2>1, <2>2, ResultsKept
<1>3. \A c : Ahead(c) => Ahead(c)'
    BY <1>1 DEF Ahead, Auditing, Mentions
<1> QED BY <1>1, <1>2, <1>3, ToldAt

\* Masking does not change what a constraint matches.
LEMMA UnmatchedSnapshot ==
    ASSUME AudInv, NEW r \in Resources, SnapshotRight(r), NEW c \in ConstraintIds, Found(c),
           snapshot[r] \notin Matching[constraints[c].updatedAt]
    PROVE  Announced(r) \/ object[r] \notin Matching[constraints[c].updatedAt]
<1>1. PICK u \in Versions : u = constraints[c].updatedAt
    BY DEF AudInv, PolTypeOK, Found, Constraint
<1> SUFFICES ASSUME ~Announced(r) PROVE object[r] \notin Matching[u]
    BY <1>1
<1>2. object[r] \in ObjectVersions /\ snapshot[r] \in {object[r], Masked[object[r]]}
    BY DEF AudInv, SourceOK, Announced, Visible, SnapshotRight, Views
<1>3. snapshot[r] \notin Matching[u]
    BY <1>1
<1> QED BY <1>2, <1>3, AuditorConstants

LEMMA ToldMatch ==
    ASSUME AudInv, ToldInv, AuditMatch, ~panicked'
    PROVE  ToldInv'
<1>1. AuditFrame /\ stage = "match"
      /\ UNCHANGED <<ids, snapshot, target, results, kept, told, selected, unreached>>
    BY DEF AuditMatch
<1>2. target \in DOMAIN snapshot /\ target \in Resources /\ SnapshotRight(target)
    BY <1>1 DEF AudInv, LoopOK, ToldInv
<1>3. ASSUME NEW c \in ConstraintIds, Settled(c), at = c PROVE Matched = constraints[c]
    <2>1. ReadRight(c)
        BY <1>3 DEF ToldInv
    <2>2. ids # {} => c \in DOMAIN selected
        BY <1>1, <1>3 DEF AudInv, RangeOK
    <2> QED BY <1>3, <2>1, <2>2 DEF Matched, ReadRight, RecordRight
<1>4. CASE stage' = "evaluate" /\ record' = Matched /\ at' = at
    <2>1. ASSUME NEW c \in ConstraintIds, Settled(c) PROVE ReadRight(c)'
        <3>1. ReadRight(c)
            BY <2>1 DEF ToldInv
        <3>2. RecordRight(c)'
            BY <1>1, <1>3, <1>4, <2>1, <3>1, AuditSame DEF ReadRight, RecordRight
        <3> QED BY <1>1, <3>1, <3>2, ResultsKept
    <2>2. \A c : Ahead(c) => Ahead(c)'
        BY <1>1, <1>4 DEF Ahead, Auditing, Mentions
    <2> QED BY <1>1, <2>1, <2>2, ToldAt
<1>5. CASE snapshot[target] \notin Matching[Matched.updatedAt] /\ stage' = "range"
    <2>1. ASSUME NEW c \in ConstraintIds, Settled(c) PROVE ReadRight(c)'
        <3>1. ReadRight(c)
            BY <2>1 DEF ToldInv
        <3>2. RecordRight(c)'
            BY <1>1, <1>5, <3>1, AuditSame DEF ReadRight, RecordRight
        <3> QED BY <1>1, <3>1, <3>2, ResultsKept
    <2>2. ASSUME NEW c \in ConstraintIds, Settled(c), at = c PROVE ToldRight(c, target)'
        <3>1. Announced(target) \/ object[target] \notin Matching[constraints[c].updatedAt]
            BY <1>2, <1>3, <1>5, <2>2, UnmatchedSnapshot DEF Settled
        <3>2. UNCHANGED <<constraints, object, target>> /\ (Announced(target) => Announced(target)')
            BY <1>1, AuditSame DEF Announced, Visible
        <3> QED BY <3>1, <3>2 DEF ToldRight
    <2>3. \A c : at # c /\ Ahead(c) => Ahead(c)'
        BY <1>1, <1>5 DEF Ahead, Auditing, Mentions
    <2>4. ASSUME NEW c \in ConstraintIds, NEW r \in Resources, Settled(c), r = target, at = c
          PROVE  ToldRight(c, r)'
        BY <1>1, <2>2, <2>4
    <2> QED BY <1>1, <2>1, <2>3, <2>4, ToldAt
<1> QED BY <1>4, <1>5, MatchCases

\* One more result, and the results but for the first
LEMMA OneMore ==
    ASSUME NEW seq \in Seq(Result), NEW res \in Result, NEW c, ResultRight(seq, c),
           res.constraint = c => res.status = VerdictOn(c, snapshot[target])
    PROVE  /\ ResultRight(Append(seq, res), c)
           /\ Mentions(seq, c) \/ res.constraint = c => Mentions(Append(seq, res), c)
<1> DEFINE new == Append(seq, res)
           n == Len(seq)
<1>1. n \in Nat /\ Len(new) = n + 1 /\ new[n + 1] = res /\ \A i \in 1..n : new[i] = seq[i]
    BY Appended
<1>2. PICK s : s = VerdictOn(c, snapshot[target])
    OBVIOUS
<1>3. \A i \in 1..n : seq[i].constraint = c => seq[i].status = s
    BY <1>2 DEF ResultRight
<1> HIDE DEF new
<1>4. ASSUME NEW i \in 1..Len(new), new[i].constraint = c PROVE new[i].status = s
    <2>1. CASE i = n + 1
        BY <1>1, <1>2, <1>4, <2>1
    <2>2. CASE i # n + 1
        <3>1. i \in 1..n
            BY <1>1, <2>2
        <3> QED BY <1>1, <1>3, <1>4, <3>1
    <2> QED BY <2>1, <2>2
<1>5. ResultRight(new, c)
    BY <1>2, <1>4 DEF ResultRight
<1>6. ASSUME Mentions(seq, c) PROVE Mentions(new, c)
    <2>1. PICK i \in 1..n : seq[i].constraint = c
        BY <1>6 DEF Mentions
    <2>2. i \in 1..Len(new) /\ new[i].constraint = c
        BY <1>1, <2>1
    <2> QED BY <2>2 DEF Mentions
<1>7. ASSUME res.constraint = c PROVE Mentions(new, c)
    <2>1. n + 1 \in 1..Len(new) /\ new[n + 1].constraint = c
        BY <1>1, <1>7
    <2> QED BY <2>1 DEF Mentions
<1> QED BY <1>5, <1>6, <1>7 DEF new

LEMMA OneLess ==
    ASSUME NEW seq \in Seq(Result), seq # <<>>, NEW c, ResultRight(seq, c)
    PROVE  /\ ResultRight(Tail(seq), c)
           /\ Head(seq).constraint = c => Head(seq).status = VerdictOn(c, snapshot[target])
           /\ Mentions(seq, c) => Head(seq).constraint = c \/ Mentions(Tail(seq), c)
<1> DEFINE rest == Tail(seq)
           n == Len(seq)
<1>1. n \in Nat /\ n >= 1 /\ Len(rest) = n - 1 /\ Head(seq) = seq[1]
      /\ \A i \in 1..Len(rest) : rest[i] = seq[i + 1]
    BY Taken
<1>2. PICK s : s = VerdictOn(c, snapshot[target])
    OBVIOUS
<1>3. \A i \in 1..n : seq[i].constraint = c => seq[i].status = s
    BY <1>2 DEF ResultRight
<1> HIDE DEF rest
<1>4. ASSUME NEW i \in 1..Len(rest) PROVE i + 1 \in 1..n
    BY <1>1
<1>5. \A i \in 1..Len(rest) : rest[i].constraint = c => rest[i].status = s
    BY <1>1, <1>3, <1>4
<1>6. ResultRight(rest, c)
    BY <1>2, <1>5 DEF ResultRight
<1>7. 1 \in 1..n
    BY <1>1
<1>8. Head(seq).constraint = c => Head(seq).status = s
    BY <1>1, <1>3, <1>7
<1>9. ASSUME Mentions(seq, c), Head(seq).constraint # c PROVE Mentions(rest, c)
    <2>1. PICK i \in 1..n : seq[i].constraint = c
        BY <1>9 DEF Mentions
    <2>2. i # 1
        BY <1>1, <1>9, <2>1
    <2>3. i - 1 \in 1..Len(rest) /\ (i - 1) + 1 = i
        BY <1>1, <2>2
    <2>4. rest[i - 1].constraint = c
        BY <1>1, <2>1, <2>3
    <2> QED BY <2>3, <2>4 DEF Mentions
<1> QED BY <1>2, <1>6, <1>8, <1>9 DEF rest

LEMMA EmptyRight == \A c : ResultRight(<<>>, c) /\ ~Mentions(<<>>, c)
BY DEF ResultRight, Mentions

\* Audit has read the constraint as it is, and the policy is read with it.
LEMMA ToldEvaluate ==
    ASSUME AudInv, ToldInv, AuditEvaluate, ~panicked'
    PROVE  ToldInv'
<1>1. AuditFrame /\ stage = "evaluate"
      /\ UNCHANGED <<ids, snapshot, target, kept, told, selected, unreached>>
    BY DEF AuditEvaluate
<1>2. /\ templates[record.template] # Absent /\ stage' = "range"
      /\ \E res \in Result :
           /\ res = [constraint |-> at,
                     status |-> Verdict[record.updatedAt][templates[record.template].policy]
                                       [snapshot[target]]]
           /\ results' = Append(results, res)
    BY EvaluateCases
<1>3. PICK res \in Result :
           /\ res = [constraint |-> at,
                     status |-> Verdict[record.updatedAt][templates[record.template].policy]
                                       [snapshot[target]]]
           /\ results' = Append(results, res)
    BY <1>2
<1>4. results \in Seq(Result)
    BY DEF AudInv, ResultsOK
<1>5. res.constraint = at
      /\ res.status = Verdict[record.updatedAt][templates[record.template].policy][snapshot[target]]
    BY <1>3
<1>6. ASSUME NEW c \in ConstraintIds, Settled(c)
      PROVE  /\ RecordRight(c)' /\ ResultRight(results', c) /\ ResultRight(kept', c)
             /\ Mentions(results, c) \/ at = c => Mentions(results', c)
    <2>1. RecordRight(c) /\ ResultRight(results, c) /\ ResultRight(kept, c)
        BY <1>6 DEF ToldInv, ReadRight
    <2>2. RecordRight(c)'
        BY <1>1, <1>2, <2>1, AuditSame DEF RecordRight
    <2>3. at = c => res.status = VerdictOn(c, snapshot[target])
        <3> SUFFICES ASSUME at = c PROVE res.status = VerdictOn(c, snapshot[target])
            OBVIOUS
        <3>1. record = constraints[c]
            BY <1>1, <2>1 DEF RecordRight
        <3>2. PolicyOf(templates[record.template]) = templates[record.template].policy
            BY <1>2 DEF PolicyOf
        <3> QED BY <1>5, <3>1, <3>2 DEF VerdictOn
    <2>4. ResultRight(Append(results, res), c)
          /\ (Mentions(results, c) \/ res.constraint = c => Mentions(Append(results, res), c))
        BY <1>4, <1>5, <2>1, <2>3, OneMore
    <2> QED BY <1>1, <1>3, <1>5, <2>1, <2>2, <2>4
<1>7. \A c \in ConstraintIds : Settled(c) => ReadRight(c)'
    BY <1>1, <1>6, ReadMoved
<1>8. ASSUME NEW c \in ConstraintIds, Settled(c), Ahead(c) PROVE Ahead(c)'
    <2>1. (c \in unreached) \/ at = c \/ Mentions(results, c) \/ Mentions(kept, c)
        BY <1>1, <1>8 DEF Ahead
    <2>2. CASE c \in unreached
        BY <1>1, <1>2, <2>2 DEF Ahead, Auditing
    <2>3. CASE Mentions(kept, c)
        <3>1. Mentions(kept, c)'
            BY <1>1, <2>3 DEF Mentions
        <3> QED BY <3>1 DEF Ahead
    <2>4. CASE at = c \/ Mentions(results, c)
        <3>1. Mentions(results', c)
            BY <1>6, <1>8, <2>4
        <3>2. Mentions(results, c)'
            BY <3>1 DEF Mentions
        <3> QED BY <3>2 DEF Ahead
    <2> QED BY <2>1, <2>2, <2>3, <2>4
<1> QED BY <1>1, <1>7, <1>8, ToldAt

LEMMA ToldReturn ==
    ASSUME AudInv, ToldInv, AuditReturn
    PROVE  ToldInv'
<1>1. AuditFrame /\ stage = "range" /\ stage' \in {"compare", "cache"} /\ unreached = {}
      /\ UNCHANGED <<ids, snapshot, target, results, kept, told>> /\ selected' = NoConstraints
    BY DEF AuditReturn
<1>2. ASSUME NEW c \in ConstraintIds, Settled(c) PROVE ReadRight(c)'
    <2>1. ReadRight(c)
        BY <1>2 DEF ToldInv
    <2>2. RecordRight(c)'
        BY <1>1 DEF RecordRight, NoConstraints
    <2> QED BY <1>1, <2>1, <2>2, ResultsKept
<1>3. \A c : Ahead(c) => Ahead(c)'
    BY <1>1 DEF Ahead, Mentions
<1> QED BY <1>1, <1>2, <1>3, ToldAt

\* Outside Audit, only the results say what is still to be told.
LEMMA AheadResults ==
    ASSUME stage \notin Auditing
    PROVE  \A c : Ahead(c) <=> Mentions(results, c) \/ Mentions(kept, c)
BY DEF Ahead, Auditing

LEMMA MentionsAhead == \A c : Mentions(results', c) \/ Mentions(kept', c) => Ahead(c)'
BY DEF Ahead, Mentions

LEMMA RecordOutside ==
    ASSUME AudInv, ResultFrame, stage \notin Auditing, stage' \notin Auditing
    PROVE  \A c : RecordRight(c)'
<1>1. DOMAIN selected' = {}
    BY DEF AudInv, RangeOK, ResultFrame, rangeVars
<1> QED BY <1>1 DEF RecordRight, Auditing

\* A result that is not sent again is the one the gateway has.
LEMMA ToldCompare ==
    ASSUME AudInv, CacheInv, ToldInv, Compare
    PROVE  ToldInv'
<1>1. ResultFrame /\ AuditFrame /\ stage = "compare" /\ stage' = "compare" /\ results # <<>>
      /\ UNCHANGED <<ids, snapshot, target, cache, told>> /\ results' = Tail(results)
    BY DEF Compare, ResultFrame
<1>2. results \in Seq(Result) /\ kept \in Seq(Result) /\ target \in Resources /\ SnapshotRight(target)
    BY <1>1 DEF AudInv, ResultsOK, LoopOK, ToldInv
<1>3. PICK res \in Result : res = Head(results)
    BY <1>1, <1>2, Taken
<1>4. \/ kept' = Append(kept, res)
      \/ kept' = kept /\ cache[res.constraint][target] = res.status
    BY <1>3 DEF Compare, StatusChanged
<1>5. res.constraint \in ConstraintIds /\ res.status # Absent
    BY AuditorConstants DEF Result, Statuses
<1>6. ASSUME NEW c \in ConstraintIds, Settled(c)
      PROVE  /\ ReadRight(c)'
             /\ Ahead(c) => Ahead(c)' \/ ToldRight(c, target)'
    <2>1. ResultRight(results, c) /\ ResultRight(kept, c)
        BY <1>6 DEF ToldInv, ReadRight
    <2>2. /\ ResultRight(Tail(results), c)
          /\ res.constraint = c => res.status = VerdictOn(c, snapshot[target])
          /\ Mentions(results, c) => res.constraint = c \/ Mentions(Tail(results), c)
        BY <1>1, <1>2, <1>3, <2>1, OneLess
    <2>3. /\ ResultRight(Append(kept, res), c)
          /\ Mentions(kept, c) \/ res.constraint = c => Mentions(Append(kept, res), c)
        BY <1>2, <2>1, <2>2, OneMore
    <2>4. ReadRight(c)'
        <3>1. RecordRight(c)'
            BY <1>1, RecordOutside DEF Auditing
        <3>2. ResultRight(results', c) /\ ResultRight(kept', c)
            BY <1>1, <1>4, <2>1, <2>2, <2>3
        <3> QED BY <1>1, <3>1, <3>2, ReadMoved
    <2>5. ASSUME Ahead(c), ~(Mentions(results', c) \/ Mentions(kept', c)) PROVE ToldRight(c, target)'
        <3>1. Mentions(results, c) \/ Mentions(kept, c)
            BY <1>1, <2>5, AheadResults DEF Auditing
        <3>2. res.constraint = c /\ cache[c][target] = res.status
            BY <1>1, <1>4, <2>2, <2>3, <2>5, <3>1
        <3>3. CacheRight(c, target)
            BY <1>2, <1>5, <3>2 DEF CacheInv
        <3>4. told[c][target] = cache[c][target]
            BY <1>1, <3>3 DEF CacheRight
        <3>5. told'[c][target] = VerdictOn(c, snapshot[target])
            BY <1>1, <2>2, <3>2, <3>4
        <3>6. PICK r : r = target
            OBVIOUS
        <3>7. ToldRight(c, r)'
            BY <1>1, <1>2, <3>5, <3>6, ToldNow
        <3> QED BY <1>1, <3>6, <3>7
    <2> QED BY <2>4, <2>5, MentionsAhead
<1>7. ASSUME NEW c \in ConstraintIds, NEW r \in Resources, Settled(c)
      PROVE  ToldRight(c, r)' \/ (told'[c][r] = told[c][r] /\ (r = target /\ Ahead(c) => Ahead(c)'))
    <2>1. r = target /\ Ahead(c) => Ahead(c)' \/ ToldRight(c, r)'
        BY <1>1, <1>6, <1>7
    <2> QED BY <1>1, <2>1
<1> QED BY <1>1, <1>6, <1>7, ToldAt

LEMMA ToldCached ==
    ASSUME AudInv, ToldInv, UpdateCache
    PROVE  ToldInv'
<1>1. ResultFrame /\ AuditFrame /\ stage = "cache" /\ stage' = "cache" /\ results # <<>>
      /\ UNCHANGED <<ids, snapshot, target, told>> /\ results' = Tail(results)
    BY DEF UpdateCache, ResultFrame
<1>2. results \in Seq(Result) /\ kept \in Seq(Result)
    BY DEF AudInv, ResultsOK
<1>3. PICK res \in Result : res = Head(results)
    BY <1>1, <1>2, Taken
<1>4. kept' = Append(kept, res)
    BY <1>3 DEF UpdateCache
<1>5. ASSUME NEW c \in ConstraintIds, Settled(c)
      PROVE  ReadRight(c)' /\ (Ahead(c) => Ahead(c)')
    <2>1. ResultRight(results, c) /\ ResultRight(kept, c)
        BY <1>5 DEF ToldInv, ReadRight
    <2>2. /\ ResultRight(Tail(results), c)
          /\ res.constraint = c => res.status = VerdictOn(c, snapshot[target])
          /\ Mentions(results, c) => res.constraint = c \/ Mentions(Tail(results), c)
        BY <1>1, <1>2, <1>3, <2>1, OneLess
    <2>3. /\ ResultRight(Append(kept, res), c)
          /\ Mentions(kept, c) \/ res.constraint = c => Mentions(Append(kept, res), c)
        BY <1>2, <2>1, <2>2, OneMore
    <2>4. RecordRight(c)'
        BY <1>1, RecordOutside DEF Auditing
    <2>5. ResultRight(results', c) /\ ResultRight(kept', c)
        BY <1>1, <1>4, <2>2, <2>3
    <2>6. ReadRight(c)'
        BY <1>1, <2>4, <2>5, ReadMoved
    <2>7. ASSUME Ahead(c) PROVE Mentions(results', c) \/ Mentions(kept', c)
        <3>1. Mentions(results, c) \/ Mentions(kept, c)
            BY <1>1, <2>7, AheadResults DEF Auditing
        <3> QED BY <1>1, <1>4, <2>2, <2>3, <3>1
    <2> QED BY <2>6, <2>7, MentionsAhead
<1> QED BY <1>1, <1>5, ToldAt

LEMMA ToldPass ==
    ASSUME AudInv, ToldInv, NextPass
    PROVE  ToldInv'
<1>1. ResultFrame /\ AuditFrame /\ stage \in {"compare", "cache"} /\ stage' \in {"cache", "send"}
      /\ UNCHANGED <<ids, snapshot, target, told>> /\ results = <<>> /\ results' = kept /\ kept' = <<>>
    BY DEF NextPass, ResultFrame
<1>2. ASSUME NEW c \in ConstraintIds, Settled(c)
      PROVE  ReadRight(c)' /\ (Ahead(c) => Ahead(c)')
    <2>1. ResultRight(kept, c)
        BY <1>2 DEF ToldInv, ReadRight
    <2>2. RecordRight(c)'
        BY <1>1, RecordOutside DEF Auditing
    <2>3. ResultRight(results', c) /\ ResultRight(kept', c)
        BY <1>1, <2>1, EmptyRight
    <2>4. ReadRight(c)'
        BY <1>1, <2>2, <2>3, ReadMoved
    <2>5. ASSUME Ahead(c) PROVE Mentions(results', c)
        <3>1. Mentions(results, c) \/ Mentions(kept, c)
            BY <1>1, <2>5, AheadResults DEF Auditing
        <3> QED BY <1>1, <3>1, EmptyRight
    <2> QED BY <2>4, <2>5, MentionsAhead
<1> QED BY <1>1, <1>2, ToldAt

LEMMA ToldSend ==
    ASSUME AudInv, ToldInv, SendResult
    PROVE  ToldInv'
<1>1. ResultFrame /\ AuditFrame /\ stage = "send" /\ stage' = "send" /\ results # <<>>
      /\ UNCHANGED <<ids, snapshot, target, kept>> /\ results' = Tail(results)
      /\ told' = WithResult(told, target, Head(results))
    BY DEF SendResult, ResultFrame
<1>2. results \in Seq(Result) /\ target \in Resources /\ SnapshotRight(target) /\ told \in Table
      /\ kept = <<>>
    BY <1>1 DEF AudInv, ResultsOK, LoopOK, TablesOK, ToldInv
<1>3. PICK res \in Result : res = Head(results)
    BY <1>1, <1>2, Taken
<1>4. \A c \in ConstraintIds, r \in Resources :
          told'[c][r] = IF c = res.constraint /\ r = target THEN res.status ELSE told[c][r]
    BY <1>1, <1>2, <1>3, WithResultOK
<1>5. ASSUME NEW c \in ConstraintIds, Settled(c)
      PROVE  /\ ReadRight(c)'
             /\ res.constraint = c => res.status = VerdictOn(c, snapshot[target])
             /\ Ahead(c) /\ res.constraint # c => Ahead(c)'
    <2>1. ResultRight(results, c) /\ ResultRight(kept, c)
        BY <1>5 DEF ToldInv, ReadRight
    <2>2. /\ ResultRight(Tail(results), c)
          /\ res.constraint = c => res.status = VerdictOn(c, snapshot[target])
          /\ Mentions(results, c) => res.constraint = c \/ Mentions(Tail(results), c)
        BY <1>1, <1>2, <1>3, <2>1, OneLess
    <2>3. RecordRight(c)'
        BY <1>1, RecordOutside DEF Auditing
    <2>4. ResultRight(results', c) /\ ResultRight(kept', c)
        BY <1>1, <2>1, <2>2
    <2>5. ReadRight(c)'
        BY <1>1, <2>3, <2>4, ReadMoved
    <2>6. ASSUME Ahead(c), res.constraint # c PROVE Mentions(results', c)
        <3>1. Mentions(results, c) \/ Mentions(kept, c)
            BY <1>1, <2>6, AheadResults DEF Auditing
        <3> QED BY <1>1, <1>2, <2>2, <2>6, <3>1, EmptyRight
    <2> QED BY <2>2, <2>5, <2>6, MentionsAhead
<1>6. ASSUME NEW c \in ConstraintIds, NEW r \in Resources, Settled(c)
      PROVE  ToldRight(c, r)' \/ (told'[c][r] = told[c][r] /\ (r = target /\ Ahead(c) => Ahead(c)'))
    <2>1. CASE res.constraint = c /\ r = target
        <3>1. told'[c][r] = VerdictOn(c, snapshot[r])
            BY <1>4, <1>5, <1>6, <2>1
        <3>2. SnapshotRight(r)
            BY <1>2, <2>1
        <3>3. ToldRight(c, r)'
            BY <1>1, <3>1, <3>2, ToldNow
        <3> QED BY <3>3
    <2>2. CASE ~(res.constraint = c /\ r = target)
        BY <1>4, <1>5, <1>6, <2>2
    <2> QED BY <2>1, <2>2
<1> QED BY <1>1, <1>5, <1>6, ToldAt

LEMMA ToldSent ==
    ASSUME AudInv, ToldInv, SendReturn
    PROVE  ToldInv'
<1>1. ResultFrame /\ AuditFrame /\ stage = "send" /\ stage' = "next" /\ results = <<>> /\ Leave(target)
      /\ UNCHANGED <<results, kept, told>>
    BY DEF SendReturn, ResultFrame
<1>2. DOMAIN selected' = {} /\ kept = <<>>
    BY <1>1 DEF AudInv, RangeOK, ResultsOK, ResultFrame, rangeVars, Auditing
<1>3. PICK r : r = target
    OBVIOUS
<1>4. ASSUME NEW c \in ConstraintIds, Settled(c), r \in Resources PROVE ToldRight(c, r)'
    <2>1. ToldRight(c, r)
        BY <1>4 DEF ToldInv
    <2>2. ~Ahead(c)
        BY <1>1, <1>2, AheadResults, EmptyRight DEF Auditing
    <2>3. ~Underway(c, r)
        BY <1>1, <1>3, <2>2 DEF Underway
    <2> QED BY <1>1, <2>1, <2>3, ToldKept
<1> QED BY <1>1, <1>2, <1>3, <1>4, ToldLeave

------------------------------------------------------------------------------
ToldAll == Running => ToldInv

LEMMA ToldAllStep == AudInv /\ CacheInv /\ ToldAll /\ [AudNext]_audVars => ToldAll'
<1> SUFFICES ASSUME AudInv, CacheInv, ToldAll, [AudNext]_audVars, Running' PROVE ToldInv'
    BY DEF ToldAll
<1>1. ~panicked' /\ ~crashed'
    BY DEF Running
<1>2. ToldInv
    <2>1. CASE UNCHANGED audVars
        BY <1>1, <2>1 DEF audVars, polVars, sourceVars, ToldAll, Running
    <2>2. CASE AudNext
        <3>1. Running
            BY <2>2, Zenon DEF AudNext, ListenerStep, RequestStep, LoopStep, AuditStep, Change, MissedDelete,
                HandlerCrash, Attach, RequestUpdate, RequestRemove, RequestTemplate, RequestDelete,
                RequestUncache, RequestDone, Command, TakeResource, TakePolicies, TakeSync,
                TakeCommand, AuditBegin, AuditSelect, AuditNext, AuditMatch, AuditEvaluate,
                AuditReturn, Compare, UpdateCache, NextPass, SendResult, SendReturn
        <3> QED BY <3>1 DEF ToldAll
    <2> QED BY <2>1, <2>2
<1>3. \A r \in Resources : ~HandlerCrash(r)
    BY <1>1 DEF HandlerCrash
<1> QED BY <1>1, <1>2, <1>3, StepCases, ToldCommand, ToldAttach, ToldChange, ToldMissed, ToldUpdate,
           ToldRemove, ToldTemplate, ToldDelete, ToldOther, ToldTakeResource, ToldTakeAll, ToldBegin,
           ToldSelect, ToldNext, ToldMatch, ToldEvaluate, ToldReturn, ToldCompare, ToldCached, ToldPass,
           ToldSend, ToldSent, Zenon

LEMMA ToldAllInit == AudInit => ToldAll
<1> SUFFICES ASSUME AudInit PROVE ToldInv
    BY DEF ToldAll
<1>1. \A r \in Resources : QueueRight(r)
    BY DEF AudInit, QueueRight
<1>2. DOMAIN snapshot = {}
    BY DEF AudInit, NoSnapshot
<1>3. \A c \in ConstraintIds : ~Settled(c)
    BY DEF AudInit, PolInit, Settled, Found
<1> QED BY <1>1, <1>2, <1>3 DEF ToldInv

LEMMA ToldAllAlways == AudSpec => []ToldAll
BY ToldAllInit, ToldAllStep, AudInvAlways, CacheInvAlways, PTL DEF AudSpec

\* Nothing is underway and nothing announced: the gateway has heard it all.
LEMMA QuietKnows ==
    ASSUME AudInv, ToldAll
    PROVE  ToldIsCurrent
<1> SUFFICES ASSUME Quiet, NEW c \in ConstraintIds \ overlooked, NEW r \in Resources, Due(c, r) # {}
             PROVE  told[c][r] \in Due(c, r)
    BY DEF ToldIsCurrent, GatewayKnows
<1>1. /\ Found(c) /\ templates[constraints[c].template] # Absent
      /\ object[r] \in Matching[constraints[c].updatedAt] \ Unmaskable
      /\ r \notin Owned
      /\ Due(c, r) = {VerdictOn(c, o) : o \in {object[r], Masked[object[r]]}}
    BY DEF Due
<1>2. Settled(c)
    BY <1>1 DEF Quiet, AudInv, ListenOK, Settled, Requested
<1>3. ToldRight(c, r)
    BY <1>2 DEF Quiet, ToldAll, ToldInv
<1>4. constraints[c].updatedAt \in Versions
    BY <1>1 DEF AudInv, PolTypeOK, Found, Constraint
<1>5. object[r] # Absent
    BY <1>1, <1>4, AuditorConstants
<1>6. ~Announced(r)
    BY <1>1, <1>5 DEF Quiet, Announced, Visible
<1>7. ~Underway(c, r)
    BY DEF Quiet, AudInv, LoopOK, Underway
<1>8. Heard(c, r)
    BY <1>1, <1>3, <1>6, <1>7 DEF ToldRight
<1> QED BY <1>1, <1>8 DEF Heard, Views

\* The purpose of the auditor, for any constraints, templates, code, resources and
\* verdicts: when the loop, the listener and the informers are idle, the gateway was
\* told the present verdict of every constraint on every resource, unless the
\* policy of its template was replaced by another constraint's, or its code was
\* refused, since its last full audit.
THEOREM ToldAlwaysCurrent == AudSpec => []ToldIsCurrent
<1>1. AudInv /\ ToldAll => ToldIsCurrent
    BY QuietKnows
<1> QED BY <1>1, AudInvAlways, ToldAllAlways, PTL
=============================================================================
