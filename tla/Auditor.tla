------------------------------- MODULE Auditor -------------------------------
(***************************************************************************)
(* auditor/auditor.go over auditor/opa-auditor: the loop that audits       *)
(* resources when the cluster, the policies or the clock ask for it, the   *)
(* cache of the last status of each constraint on each resource, and the   *)
(* goroutines that send it events over an unbuffered channel: one informer *)
(* per resource, the gateway's listener that changes the policies under    *)
(* the loop's feet (nothing locks the tables), audit commands.  The        *)
(* listener handles one request at a time.                                 *)
(*                                                                         *)
(* Audit reads the tables constraint by constraint, UpdateCache and the    *)
(* send go over its results one by one, and the listener may take any      *)
(* number of steps in between.                                             *)
(*                                                                         *)
(* A resource is a version number; Matching tells which of them a version  *)
(* of a constraint matches, Verdict what a policy says of one with the     *)
(* parameters of that version.                                             *)
(***************************************************************************)
EXTENDS Policies, Sequences

CONSTANTS
    Resources,
    Owned,        \* the resources that belong to another and are not audited
    ObjectVersions,
    Matching,     \* [Versions -> SUBSET ObjectVersions]
    Verdict,      \* [Versions -> [Parsable -> [ObjectVersions -> statuses]]]
    Masked,       \* [ObjectVersions -> ObjectVersions]: without the values of env and args
    Unmaskable,   \* the versions without a pod spec where their kind has one
    Nil,          \* a notification whose handler dereferences nil
    MaxInputs     \* bound: changes of resources, constraints received, audit commands and ticks

ASSUME AuditorConstants ==
    /\ Owned \subseteq Resources
    /\ IsFiniteSet(Resources)
    /\ Unmaskable \subseteq ObjectVersions
    /\ Absent \notin ObjectVersions \cup Codes /\ Nil \notin ObjectVersions \cup {Absent}
    /\ Masked \in [ObjectVersions -> ObjectVersions]
    /\ Matching \in [Versions -> SUBSET ObjectVersions]
    /\ \A v \in Versions, o \in ObjectVersions : Masked[o] \in Matching[v] <=> o \in Matching[v]
    /\ \A v \in Versions, k \in Parsable, o \in ObjectVersions : Verdict[v][k][o] # Absent
    /\ MaxInputs \in Nat

VARIABLES
    object,     \* the version of each resource in the informer's store, or Absent
    informer,   \* for each resource, the notifications its informer has not delivered
    source,     \* Start of EntitiesWatcher: "syncing", "synced", "watching"
    crashed,    \* the handler of a notification dereferenced nil
    listener,   \* where HandleConstraints stands
    current,    \* the constraint it is at, or Absent
    updated,    \* the constraints it has updated so far
    commands,   \* audit commands and ticks not taken yet
    inputs,     \* changes, constraints, commands and ticks so far
    loop,       \* what the loop does: "select", "all" or "one"
    ids,        \* the constraints it audits, {} for all of them
    snapshot,   \* the resources it has still to audit, each with its version
    stage,      \* where it stands with the resource it is at
    target,     \* that resource, or Absent
    selected,   \* the constraints getConstraints has copied, when it copies
    unreached,  \* the constraints the range over the map has still to produce
    reached,    \* the ones it has produced
    at,         \* the constraint Audit is at, or Absent
    record,     \* what Audit has read of it, or Absent
    results,    \* results still to be compared, cached or sent
    kept,       \* results that have been
    cache,      \* AuditResultsCache, Absent where there is no entry
    told,       \* the last result sent for each constraint and resource
    overlooked, \* constraints whose verdicts may have changed with no audit to follow
    touched     \* the tables were written since Audit was called

sourceVars == <<object, informer, source, crashed>>
listenVars == <<listener, current, updated>>
rangeVars  == <<selected, unreached, reached, at, record>>
loopVars   == <<loop, ids, snapshot, stage, target, rangeVars, results, kept>>
ghostVars  == <<overlooked, touched>>
audVars == <<polVars, sourceVars, listenVars, commands, inputs, loopVars, cache, told, ghostVars>>

NoEntries == [r \in Resources |-> Absent]
NoSnapshot == [r \in {} |-> Absent]
NoConstraints == [c \in {} |-> Absent]

AudInit ==
    /\ PolInit
    /\ object \in [Resources -> ObjectVersions \cup {Absent}]
    /\ informer = [r \in Resources |-> <<>>]
    /\ listener = "idle"
    /\ current = Absent
    /\ updated = {}
    /\ commands = 0
    /\ inputs = 0
    /\ source = "syncing"
    /\ crashed = FALSE
    /\ loop = "select"
    /\ ids = {}
    /\ snapshot = NoSnapshot
    /\ stage = "next"
    /\ target = Absent
    /\ selected = NoConstraints
    /\ unreached = {}
    /\ reached = {}
    /\ at = Absent
    /\ record = Absent
    /\ results = <<>>
    /\ kept = <<>>
    /\ cache = [c \in ConstraintIds |-> NoEntries]
    /\ told = [c \in ConstraintIds |-> NoEntries]
    /\ overlooked = {}
    /\ touched = FALSE

Running == ~panicked /\ ~crashed

Input == inputs < MaxInputs /\ inputs' = inputs + 1

------------------------------------------------------------------------------
(* The cluster, through the informers of EntitiesWatcher *)

\* maskUnstructured: what a notification carries of version v of a resource.  The
\* lister keeps the resource as it is, and a full audit sees that.
MaskUnstructured(v) == IF v = Absent THEN Absent ELSE Masked[v]

\* wrapHandler drops a notification of something it cannot mask; a deletion carries
\* the resource as it was.
Dropped(old, v) == (IF v = Absent THEN old ELSE v) \in Unmaskable

\* What the handler of the change of a resource from old to v sends: UpdateFunc
\* goes on when the old version cannot be masked, and dereferences nil.
Notification(old, v) ==
    IF old \in Unmaskable /\ v # Absent THEN Nil ELSE MaskUnstructured(v)

\* OnAdd, OnUpdate and OnDelete become events once AddEventHandler has run.
Notify(r, v) ==
    informer' = IF source = "watching" /\ ~Dropped(object[r], v)
                THEN [informer EXCEPT ![r] = Append(@, Notification(object[r], v))]
                ELSE informer

Change(r) ==
    /\ Running
    /\ Input
    /\ \E v \in (ObjectVersions \cup {Absent}) \ {object[r]} :
         /\ object' = [object EXCEPT ![r] = v]
         /\ Notify(r, v)
    /\ UNCHANGED <<polVars, source, crashed, listenVars, commands, loopVars, cache, told, ghostVars>>

\* A deletion the informer learns of when it lists again comes as a tombstone,
\* which the observer's handler ignores.
MissedDelete(r) ==
    /\ Running
    /\ source = "watching"
    /\ object[r] # Absent
    /\ Input
    /\ object' = [object EXCEPT ![r] = Absent]
    /\ UNCHANGED <<polVars, informer, source, crashed, listenVars, commands, loopVars,
                   cache, told, ghostVars>>

\* Start of EntitiesWatcher goes on when OnCacheSync returns: AddEventHandler,
\* which calls OnAdd for the resources the informer has by then.
Attach ==
    /\ Running
    /\ source = "synced"
    /\ source' = "watching"
    /\ informer' = [r \in Resources |->
                      IF object[r] \in {Absent} \cup Unmaskable THEN <<>>
                      ELSE <<MaskUnstructured(object[r])>>]
    /\ UNCHANGED <<polVars, object, crashed, listenVars, commands, inputs, loopVars,
                   cache, told, ghostVars>>

HandlerCrash(r) ==
    /\ Running
    /\ informer[r] # <<>>
    /\ Head(informer[r]) = Nil
    /\ crashed' = TRUE
    /\ UNCHANGED <<polVars, object, informer, source, listenVars, commands, inputs,
                   loopVars, cache, told, ghostVars>>

------------------------------------------------------------------------------
(* HandleConstraints, on the goroutine of the gateway's listener *)

\* A write of the tables: Audit may be reading them.
Touch == touched' = (touched \/ stage \in {"select", "range", "match", "evaluate"})

\* UpdateConstraint for the next constraint of a request, or the first, up to where it
\* stores the constraint; opa.Parse and the template come a step later, and
\* the loop may audit in between.
RequestUpdate(i) ==
    /\ Running
    /\ listener \in {"idle", "table"}
    /\ Input
    /\ \/ /\ KeepConstraint(i.id, i.updatedAt)
          /\ listener' = "table"
          /\ UNCHANGED <<current, touched>>
       \/ /\ ~Found(i.id) \/ Newer(i.id, i.updatedAt)
          /\ Store(i.id, i.template, i.updatedAt)
          /\ current' = [id |-> i.id, added |-> ~Found(i.id), code |-> i.code]
          /\ listener' = "template"
          /\ Touch
          /\ UNCHANGED <<templates, refused, panicked, countVars>>
    /\ UNCHANGED <<sourceVars, updated, commands, loopVars, cache, told, overlooked>>

\* The policy of an entry of templates, if there is one
PolicyOf(template) == IF template = Absent THEN Absent ELSE template.policy

\* Whose verdicts the update of constraint c changes with no audit to follow: its own
\* when its version was stored and its code refused, else those of the others whose
\* policy it replaced.
Overlooks(c, t) ==
    IF c \in refused' THEN {c}
    ELSE {d \in ConstraintIds \ {c} :
             /\ Found(d) /\ constraints[d].template = t
             /\ PolicyOf(templates'[t]) # PolicyOf(templates[t])}

\* The rest of UpdateConstraint; when it returns true the entries of the
\* constraint leave the cache, a step later.
RequestTemplate ==
    /\ Running
    /\ listener = "template"
    /\ LET c == current.id  t == constraints[c].template
       IN  /\ IF current.added
              THEN AddTemplate(c, t, current.code) /\ UNCHANGED panicked
              ELSE ReplaceTemplate(c, t, current.code)
           /\ listener' = IF c \in refused' THEN "table" ELSE "cache"
           /\ current' = IF c \in refused' THEN Absent ELSE current
           /\ updated' = IF c \in refused' THEN updated ELSE updated \cup {c}
           /\ overlooked' = overlooked \cup Overlooks(c, t)
    /\ Touch
    /\ UNCHANGED <<constraints, sourceVars, commands, inputs, loopVars, cache, told>>

\* RemoveConstraint, for a constraint with a DeletedAt: the template goes first.
RequestRemove(c) ==
    /\ Running
    /\ listener \in {"idle", "table"}
    /\ Input
    /\ Found(c)
    /\ DropTemplate(c)
    /\ refused' = refused \ {c}
    /\ current' = [id |-> c, added |-> FALSE, code |-> Absent]
    /\ listener' = "delete"
    /\ Touch
    /\ UNCHANGED <<constraints, sourceVars, updated, commands, loopVars, cache, told,
                   overlooked>>

\* delete(a.constraints, id): a range over the map forgets the key.
RequestDelete ==
    /\ Running
    /\ listener = "delete"
    /\ constraints' = [constraints EXCEPT ![current.id] = Absent]
    /\ unreached' = IF ids = {} THEN unreached \ {current.id} ELSE unreached
    /\ reached' = IF ids = {} THEN reached \ {current.id} ELSE reached
    /\ listener' = "cache"
    /\ overlooked' = overlooked \ {current.id}
    /\ Touch
    /\ UNCHANGED <<templates, refused, panicked, countVars, sourceVars, current, updated,
                   commands, inputs, loop, ids, snapshot, stage, target, selected, at, record,
                   results, kept, cache, told>>

\* cache.RemoveConstraint
RequestUncache ==
    /\ Running
    /\ listener = "cache"
    /\ cache' = [cache EXCEPT ![current.id] = NoEntries]
    /\ current' = Absent
    /\ listener' = "table"
    /\ UNCHANGED <<polVars, sourceVars, updated, commands, inputs, loopVars, told, ghostVars>>

\* Mutant: the loop is not told of the update.
RequestDoneSilent ==
    /\ Running
    /\ listener = "table"
    /\ listener' = "idle"
    /\ UNCHANGED <<polVars, sourceVars, current, updated, commands, inputs,
                   loopVars, cache, told, ghostVars>>

\* After the last constraint: a.auditEvents <- event if something was updated.
RequestDone ==
    /\ Running
    /\ listener = "table"
    /\ listener' = IF updated = {} THEN "idle" ELSE "event"
    /\ UNCHANGED <<polVars, sourceVars, current, updated, commands, inputs,
                   loopVars, cache, told, ghostVars>>

\* HandleAuditCommand starts a goroutine that sends the event; the ticker of
\* the periodic audit asks for the same.
Command ==
    /\ Running
    /\ Input
    /\ commands' = commands + 1
    /\ UNCHANGED <<polVars, sourceVars, listenVars, loopVars, cache, told, ghostVars>>

------------------------------------------------------------------------------
(* The loop of Start *)

Existing == {r \in Resources : object[r] # Absent}

\* What GetAllEntitiesByGvrk may list: before the sync event, as much as the
\* informers have fetched by then.
Listed == IF source = "syncing" THEN SUBSET Existing ELSE {Existing}

\* auditAllResourcesAndSendData: the resources listed are audited one by one.
StartAll(wanted, listed) ==
    /\ loop' = IF listed = {} THEN "select" ELSE "all"
    /\ ids' = IF listed = {} THEN {} ELSE wanted
    /\ snapshot' = [r \in listed |-> object[r]]
    /\ overlooked' = IF wanted = {} THEN {} ELSE overlooked \ wanted
    /\ UNCHANGED <<stage, target, rangeVars, results, kept, touched>>

\* case AuditEventTypeEntityChange, AuditEventTypeEntityDelete: RemoveResource.
\* A change before the caches are synced is ignored.
TakeResource(r) ==
    /\ Running
    /\ loop = "select"
    /\ informer[r] # <<>>
    /\ Head(informer[r]) # Nil
    /\ informer' = [informer EXCEPT ![r] = Tail(@)]
    /\ LET v == Head(informer[r])
       IN  IF v = Absent
           THEN /\ cache' = [c \in ConstraintIds |-> [cache[c] EXCEPT ![r] = Absent]]
                /\ UNCHANGED <<loop, ids, snapshot>>
           ELSE /\ IF source # "syncing"
                   THEN /\ loop' = "one"
                        /\ ids' = {}
                        /\ snapshot' = [x \in {r} |-> v]
                   ELSE UNCHANGED <<loop, ids, snapshot>>
                /\ UNCHANGED cache
    /\ UNCHANGED <<polVars, object, source, crashed, listenVars, commands, inputs,
                   stage, target, rangeVars, results, kept, told, ghostVars>>

\* case AuditEventTypePolicyChange, AuditEventTypeInitial
TakePolicies ==
    /\ Running
    /\ loop = "select"
    /\ listener = "event"
    /\ listener' = "idle"
    /\ updated' = {}
    /\ \E L \in Listed : StartAll(updated, L)
    /\ UNCHANGED <<polVars, sourceVars, current, commands, inputs, cache, told>>

\* case AuditEventTypeEntitiesSync: entitiesSynced is source # "syncing".
TakeSync ==
    /\ Running
    /\ loop = "select"
    /\ source = "syncing"
    /\ source' = "synced"
    /\ StartAll({}, Existing)
    /\ UNCHANGED <<polVars, object, informer, crashed, listenVars, commands, inputs, cache, told>>

\* case AuditEventTypeCommand, case <-auditTicker.C
TakeCommand ==
    /\ Running
    /\ loop = "select"
    /\ commands > 0
    /\ commands' = commands - 1
    /\ \E L \in Listed : StartAll({}, L)
    /\ UNCHANGED <<polVars, sourceVars, listenVars, inputs, cache, told>>

------------------------------------------------------------------------------
(* Audit of one resource, on the goroutine of the loop *)

\* What Audit leaves alone
AuditFrame ==
    UNCHANGED <<constraints, templates, refused, countVars, sourceVars, listenVars, commands,
                inputs, overlooked>>

\* Done with resource r: the next one, or back to the select
Leave(r) ==
    /\ snapshot' = [x \in DOMAIN snapshot \ {r} |-> snapshot[x]]
    /\ loop' = IF DOMAIN snapshot = {r} THEN "select" ELSE loop
    /\ ids' = IF DOMAIN snapshot = {r} THEN {} ELSE ids

\* Audit of the next resource: nothing for one that another owns, else
\* getConstraints, which returns the map itself when no ids are given.
AuditBegin(r) ==
    /\ Running
    /\ loop # "select"
    /\ stage = "next"
    /\ r \in DOMAIN snapshot
    /\ IF r \in Owned
       THEN /\ Leave(r)
            /\ UNCHANGED <<stage, target, unreached, touched>>
       ELSE /\ target' = r
            /\ stage' = IF ids = {} THEN "range" ELSE "select"
            /\ unreached' = IF ids = {} THEN {c \in ConstraintIds : Found(c)} ELSE ids
            /\ touched' = (listener \in {"template", "delete"})
            /\ UNCHANGED <<loop, ids, snapshot>>
    /\ AuditFrame
    /\ UNCHANGED <<panicked, selected, reached, at, record, results, kept, cache, told>>

\* getConstraints with ids: copies the constraints it finds, one by one, and the
\* range goes over the copy.
AuditSelect(c) ==
    /\ Running
    /\ stage = "select"
    /\ c \in unreached
    /\ selected' = IF Found(c) THEN [d \in DOMAIN selected \cup {c} |->
                                        IF d = c THEN constraints[c] ELSE selected[d]]
                   ELSE selected
    /\ unreached' = IF unreached = {c} THEN DOMAIN selected' ELSE unreached \ {c}
    /\ stage' = IF unreached = {c} THEN "range" ELSE "select"
    /\ AuditFrame
    /\ UNCHANGED <<panicked, loop, ids, snapshot, target, reached, at, record, results, kept, cache,
                   told, touched>>

\* The next key of the range.  Over the live map it may be one that was added
\* since the range began.
AuditNext(c) ==
    /\ Running
    /\ stage = "range"
    /\ IF ids = {} THEN Found(c) /\ c \notin reached ELSE c \in unreached
    /\ unreached' = unreached \ {c}
    /\ reached' = reached \cup {c}
    /\ at' = c
    /\ stage' = "match"
    /\ AuditFrame
    /\ UNCHANGED <<panicked, loop, ids, snapshot, target, selected, record, results, kept, cache, told,
                   touched>>

\* c := constraints[idx], which is nil when the key has left the live map since;
\* then matchEntity.
AuditMatch ==
    /\ Running
    /\ stage = "match"
    /\ LET c == IF ids = {} THEN constraints[at] ELSE selected[at]
       IN  IF c = Absent
           THEN /\ panicked' = TRUE
                /\ UNCHANGED <<stage, at, record>>
           ELSE /\ IF snapshot[target] \in Matching[c.updatedAt]
                   THEN stage' = "evaluate" /\ record' = c /\ UNCHANGED at
                   ELSE stage' = "range" /\ at' = Absent /\ UNCHANGED record
                /\ UNCHANGED panicked
    /\ AuditFrame
    /\ UNCHANGED <<loop, ids, snapshot, target, selected, unreached, reached, results, kept, cache, told,
                   touched>>

\* The template, which is nil when it is not in the table, evaluates the
\* resource; the status is empty when it cannot.
AuditEvaluate ==
    /\ Running
    /\ stage = "evaluate"
    /\ LET t == record.template
       IN  IF templates[t] = Absent
           THEN /\ panicked' = TRUE
                /\ UNCHANGED <<stage, at, record, results>>
           ELSE /\ results' = Append(results,
                     [constraint |-> at,
                      status |-> Verdict[record.updatedAt][templates[t].policy][snapshot[target]]])
                /\ stage' = "range"
                /\ at' = Absent
                /\ record' = Absent
                /\ UNCHANGED panicked
    /\ AuditFrame
    /\ UNCHANGED <<loop, ids, snapshot, target, selected, unreached, reached, kept, cache, told, touched>>

\* The range ends when it has produced what was there when it began, and is
\* there still.
AuditReturn ==
    /\ Running
    /\ stage = "range"
    /\ unreached = {}
    /\ stage' = IF loop = "one" THEN "compare" ELSE "cache"
    /\ reached' = {}
    /\ selected' = NoConstraints
    /\ touched' = FALSE
    /\ AuditFrame
    /\ UNCHANGED <<panicked, loop, ids, snapshot, target, unreached, at, record, results, kept, cache, told>>

\* What handling the results leaves alone
ResultFrame == AuditFrame /\ UNCHANGED <<panicked, rangeVars, touched>>

\* CheckResourceStatusWithConstraint
StatusChanged(res, r) == cache[res.constraint][r] # res.status

\* f with the status of result res for resource r
WithResult(f, r, res) == [f EXCEPT ![res.constraint][r] = res.status]

\* After the change of a resource, the results whose status is new are kept.
Compare ==
    /\ Running
    /\ stage = "compare"
    /\ results # <<>>
    /\ kept' = IF StatusChanged(Head(results), target) THEN Append(kept, Head(results)) ELSE kept
    /\ results' = Tail(results)
    /\ ResultFrame
    /\ UNCHANGED <<loop, ids, snapshot, stage, target, cache, told>>

\* UpdateCache, result by result
UpdateCache ==
    /\ Running
    /\ stage = "cache"
    /\ results # <<>>
    /\ cache' = WithResult(cache, target, Head(results))
    /\ kept' = Append(kept, Head(results))
    /\ results' = Tail(results)
    /\ ResultFrame
    /\ UNCHANGED <<loop, ids, snapshot, stage, target, told>>

\* The results that were compared are cached, the ones that were cached are sent.
NextPass ==
    /\ Running
    /\ stage \in {"compare", "cache"}
    /\ results = <<>>
    /\ results' = kept
    /\ kept' = <<>>
    /\ stage' = IF stage = "compare" THEN "cache" ELSE "send"
    /\ ResultFrame
    /\ UNCHANGED <<loop, ids, snapshot, target, cache, told>>

\* Mutant: a full audit fills the cache and sends nothing.
SendResultOfOne ==
    /\ Running
    /\ stage = "send"
    /\ results # <<>>
    /\ told' = IF loop = "one" THEN WithResult(told, target, Head(results)) ELSE told
    /\ results' = Tail(results)
    /\ ResultFrame
    /\ UNCHANGED <<loop, ids, snapshot, stage, target, kept, cache>>

\* sendAuditResult: each result goes into the channel, when there is room.
SendResult ==
    /\ Running
    /\ stage = "send"
    /\ results # <<>>
    /\ told' = WithResult(told, target, Head(results))
    /\ results' = Tail(results)
    /\ ResultFrame
    /\ UNCHANGED <<loop, ids, snapshot, stage, target, kept, cache>>

\* Done with the resource.
SendReturn ==
    /\ Running
    /\ stage = "send"
    /\ results = <<>>
    /\ Leave(target)
    /\ stage' = "next"
    /\ target' = Absent
    /\ ResultFrame
    /\ UNCHANGED <<results, kept, cache, told>>

------------------------------------------------------------------------------
AuditStep ==
    \/ \E r \in Resources : AuditBegin(r)
    \/ \E c \in ConstraintIds : AuditSelect(c) \/ AuditNext(c)
    \/ AuditMatch \/ AuditEvaluate \/ AuditReturn
    \/ Compare \/ UpdateCache \/ NextPass \/ SendResult \/ SendReturn

LoopStep ==
    \/ \E r \in Resources : TakeResource(r)
    \/ TakePolicies \/ TakeSync \/ TakeCommand
    \/ AuditStep

\* What the listener does before it can take the next constraint or return.
RequestStep == RequestTemplate \/ RequestDelete \/ RequestUncache \/ RequestDone

ListenerStep ==
    \/ \E i \in Items : RequestUpdate(i)
    \/ \E c \in ConstraintIds : RequestRemove(c)
    \/ RequestStep

AudNext ==
    \/ \E r \in Resources : Change(r) \/ MissedDelete(r) \/ HandlerCrash(r)
    \/ Attach
    \/ ListenerStep
    \/ Command
    \/ LoopStep

AudSpec == AudInit /\ [][AudNext]_audVars

\* The goroutines run: the loop, a request to its end, the watcher, the handlers.
\* With finitely many inputs the loop takes them all, in whatever order the
\* select chooses.
AudFairSpec ==
    /\ AudSpec
    /\ WF_audVars(LoopStep)
    /\ WF_audVars(RequestStep)
    /\ WF_audVars(Attach)
    /\ \A r \in Resources : WF_audVars(HandlerCrash(r))

------------------------------------------------------------------------------
(* Properties *)

Statuses == {Verdict[v][k][o] : v \in Versions, k \in Parsable, o \in ObjectVersions}
Result == [constraint : ConstraintIds, status : Statuses]
Table == [ConstraintIds -> [Resources -> Statuses \cup {Absent}]]

\* The values of the variables.
AudTypeOK ==
    /\ PolTypeOK
    /\ object \in [Resources -> ObjectVersions \cup {Absent}]
    /\ informer \in [Resources -> Seq(ObjectVersions \cup {Absent, Nil})]
    /\ source \in {"syncing", "synced", "watching"}
    /\ crashed \in BOOLEAN
    /\ listener \in {"idle", "table", "template", "delete", "cache", "event"}
    /\ current \in [id : ConstraintIds, added : BOOLEAN, code : Codes \cup {Absent}] \cup {Absent}
    /\ updated \subseteq ConstraintIds
    /\ loop \in {"select", "all", "one"}
    /\ ids \subseteq ConstraintIds
    /\ DOMAIN snapshot \subseteq Resources
    /\ stage \in {"next", "select", "range", "match", "evaluate", "compare", "cache", "send"}
    /\ target \in Resources \cup {Absent}
    /\ DOMAIN selected \subseteq ConstraintIds
    /\ unreached \subseteq ConstraintIds
    /\ reached \subseteq ConstraintIds
    /\ at \in ConstraintIds \cup {Absent}
    /\ record \in Constraint \cup {Absent}
    /\ results \in Seq(Result)
    /\ kept \in Seq(Result)
    /\ cache \in Table
    /\ told \in Table
    /\ overlooked \subseteq ConstraintIds
    /\ touched \in BOOLEAN

\* CheckResourceStatusWithConstraint suppresses a result that the cache already
\* has.  Except for the resource whose results are being cached and sent, the
\* cache never has a status that the gateway was not sent last, however often the
\* listener clears it between Audit, UpdateCache and the sends.
CacheWasTold ==
    \A c \in ConstraintIds, r \in Resources :
        cache[c][r] # Absent /\ ~(stage \in {"cache", "send"} /\ target = r)
        => told[c][r] = cache[c][r]

\* Nothing locks the tables, and Audit dereferences the constraints it finds and
\* their templates without a check.  It meets nil only if the listener wrote to
\* the tables during the audit of this very resource, or a constraint was
\* refused or moved before.
MissingExplained == panicked => touched \/ upset \/ \E c \in ConstraintIds : Strayed(c)

\* Nothing is on its way to the loop and the loop is idle.
Quiet ==
    /\ Running
    /\ loop = "select"
    /\ source = "watching"
    /\ listener = "idle"
    /\ \A r \in Resources : informer[r] = <<>>

\* The verdict of the tables as they are on version o of a resource
VerdictOn(c, o) ==
    Verdict[constraints[c].updatedAt][PolicyOf(templates[constraints[c].template])][o]

\* The verdicts of a constraint of the table on a resource of the cluster: on the
\* resource as the lister has it and as the notifications carry it.  None is due
\* on a resource that the observer cannot announce.
Due(c, r) ==
    IF /\ Found(c) /\ templates[constraints[c].template] # Absent
       /\ object[r] \in Matching[constraints[c].updatedAt] \ Unmaskable
       /\ r \notin Owned
    THEN {VerdictOn(c, o) : o \in {object[r], Masked[object[r]]}}
    ELSE {}

GatewayKnows ==
    \A c \in ConstraintIds \ overlooked, r \in Resources :
        Due(c, r) # {} => told[c][r] \in Due(c, r)

\* The purpose of the auditor: when everything has been processed, the gateway
\* was told the present verdict of every constraint on every resource, whatever
\* the order in which requests, commands and the sync came and however
\* they overlapped with an audit.  The exceptions are the constraints whose
\* policy another constraint of the same template has replaced, or whose code
\* was refused, since they were last audited on everything.  Which of two
\* verdicts it is, when masking the resource changes it, depends on what audited
\* the resource last.
ToldIsCurrent == Quiet => GatewayKnows

\* Every verdict is sent in the end: once changes, requests and commands stop, the
\* gateway comes to know the present verdicts and goes on knowing them, unless the
\* process has ended.
EventuallyTold == <>[](Running => GatewayKnows)
=============================================================================
