# magalix-agent in TLA+

A verification project for the Magalix agent, a Go program that runs in a
Kubernetes cluster, keeps a connection to a remote gateway, receives policies
from it, audits the cluster's resources against them and sends the results
back. The modules are translated from the Go source under `src/`;
`PROJECT.json` maps each definition to the lines it stands for.

## 1. The system

```
 Kubernetes API                                              agent gateway
      |                                                           ^
  observer ---> entities watcher ---> auditor loop                |
 (informers)      (sync, events)        |   ^  ^                  |
                                        |   |  +-- audit commands |
                  policy tables <-------+   |                     |
                  result cache              +-- HandleConstraints-+ (listener)
                                        |                         |
                                 result batches --> pipe ---> client ----+
                                 log batches   -->  (store)  (connection)
```

| Component | State it keeps | Operations | Talks to |
|---|---|---|---|
| pipe store (`client/pipe_store.go`) | heap of packages by (Priority, time), a slice per kind, count of removed packages | Add with its expiry sweep, Peek, Ack, Pop | the pipe calls it, under its own mutex |
| pipe (`client/pipe.go`) | condition variable, one loop per worker | Send, the worker loop | callers of Send, the client's Send |
| client connection (`client/connect.go`, `sender.go`, `client.go`) | `connected`, `authorized`, `blocked` (map of waiters), mutex `blockedM` | onConnect with hello, authorize and backoff, onDisconnect, WaitForConnection, Send | channel library (hooks), pipe workers, WaitAuthorization |
| wait for authorization (`gateway/magalix-gateway.go`) | none; receives once from an unbuffered channel | WaitAuthorization | onConnect, agent start |
| policy tables (`auditor/opa-auditor/opa-auditor.go`) | `constraints`, `templates` with `UsageCount`; no lock | UpdateConstraint, RemoveConstraint, UpdateConstraints | gateway listener writes, auditor loop reads |
| auditor (`auditor/auditor.go`, `audit-results-cache.go`) | unbuffered `auditEvents`, result cache | HandleConstraints, HandleAuditCommand, event loop, audit of one or all resources, UpdateCache | entities watcher, gateway, policy tables |
| entities watcher, observer (`entities/entities.go`, `kuber/observer.go`) | informers, the deltas queue | Start, OnAdd, OnUpdate, OnDelete, listing | client-go, auditor |
| result batches (`gateway/governance.go`) | `auditResultChan`, `auditResultsBuffer`, a ticker | SendAuditResults, SendAuditResultsWorker | auditor, pipe |
| log batches (`client/logging.go`) | `logBuffer`, mutex `logM` | Write, Sync | pipe |
| agent lifecycle (`agent/*.go`, `gateway/restart.go`) | cancel functions of sources and sinks | Start, Stop, restart handler | all of the above |
| start-up and probes (`main.go`, `probes.go`) | `err`, shared with a goroutine; `IsReady` | main's calls in their order, the probes server | Kubernetes access, agent lifecycle |
| masking (`kuber/mask.go`) | none | a function from objects to objects | observer: notifications are masked, listings are not |
| Kubernetes access (`kuber/kube.go`) | none | version, permissions, provider | main |

The rest (types, codec, signing, panic recovery, log level, parents) keeps no
state the other parts depend on; `PROJECT.json` lists each part with the reason
it is left out.

What is hard in this code: `Broadcast` without the condition's lock; packages
that are out of the store while a send fails; a sweep that shrinks the slice it
walks; index fields that are read after other packages moved; flags written by
two hooks that overlap; an unbuffered channel with one receiver, once; a mutex
held over channel sends; channels closed by the receiver; policy tables read by
the loop while the listener writes them; audits over a listing that has changed
meanwhile; a cache that suppresses what it believes was sent; a slice that Sync
empties without the lock under which Write appends; log lines about the sending
of log lines; an `err` that two goroutines assign; two restarts in the same
function. `PROJECT.json`
lists these as hazards, each at its line, with the properties that watch them.

## 2. Modules

| Module | What it is |
|---|---|
| `PipeStore` | The store as it can be observed: the set of queued packages, the packages of each kind and who stands ahead of whom. One action per method. It is both the abstract specification of `PipeStoreHeap` and the store `Pipe` works on. |
| `PipeStoreHeap` | The same file with the code's data structures: the array and container/heap's up, down, Fix and Remove, `Package.index`, slices as sequences, the loop of Add pass by pass. Implements `PipeStore`. |
| `Pipe` | Send and the worker loop around the condition variable, over `PipeStore`. |
| `Connection` | Both hooks, the handshake with its retries, WaitForConnection and Send, WaitAuthorization. |
| `Policies` | The two policy tables with usage counts; one action per branch of UpdateConstraint, and RemoveConstraint. |
| `Auditor` | The event loop, the informers, the listener and the cache, over `Policies`. |
| `ResultBatch` | The results of audits on their way through channel and buffer to the pipe. |
| `Lifecycle` | Start of the agent, restart, and all goroutines that wait for one another through the auditor's loop, the deltas queue and the result channel; over `ResultBatch`. |
| `Logs` | Write, flushLogs and Sync at the granularity of memory accesses, the callers that log and the pipe workers that log what they send. |
| `Process` | main with every outcome of its calls, the probes server, and two restarts at a time: the ways the process can end. |
| `PipeProofs`, `PipeStoreHeapProofs`, `ConnectionProofs`, `PoliciesProofs`, `AuditorProofs`, `ResultBatchProofs`, `LogsProofs`, `ProcessProofs` | Theorems and proofs. `PipeProofs` is about `PipeStore` and `Pipe`; `ResultBatchProofs` is about `Lifecycle` too; `AuditorProofs` uses the lemmas of `PoliciesProofs`. |
| `MC*` | Instances for TLC: the functions that a `.cfg` cannot write. |

How state and actions correspond to the code:

* **PipeStore.** `pq` is the content of the heap, `kinds` and `ahead` the slices
  (`ahead[p]` are the packages before `p` in the slice of its kind). The keys of
  the heap are `prio` (Priority, raised by retries) and `time` (set once, by Send
  or by the first Add). `ShouldExpire` compares with the length the slice has at
  that moment of the loop; `SweepRemoves` states what the whole loop removes in
  terms of what each package sees when the loop comes to it. `Peek` and `Pop`
  return the first package by `Less`, whatever its expiry, after counting an
  attempt and possibly lowering its priority. The methods take the store's mutex,
  so each is one action. `Expire` is the clock passing a package's ExpiryTime.
* **PipeStoreHeap.** `queue` has the array and the index fields. A caller adds a
  package it has just made or one the store has handed out, as Send and the
  worker do. A loop of the code (up, down, the sweep of Add) is a function on the
  states between its passes, `UpPass`, `DownPass` and `SweepPass`, that leaves the
  state alone where the loop ends; `Passes` repeats it. The loops are run for as
  many passes as they can need: the place of `up` halves, that of `down` doubles,
  and each pass of the sweep brings `at` and the end of the slice one closer.
* **Pipe.** One action per step another goroutine can tell apart: the stamp, the
  Add and the Broadcast of Send; Lock, Pop, Wait, wake-up, Unlock, the outcome of
  the send and the Add after an error for a worker. `sent` and `dropped` are
  history; `reported` is what Send has returned.
* **Connection.** One session per time the channel goes up; each starts an
  onConnect in a goroutine of its own, which may still run when the next one
  starts. The channel library is external and modelled from how the hooks use
  it. A request is two steps: its answer arrives while the connection is up, and
  send then waits for `blockedM` to note `lastSent`, by which time the connection
  may be gone. `Range` visits the channels one at a time and may meet one that was
  deleted since. Timeouts fire at any time. `accepted` is history: the connections on
  which the gateway accepted an answer.
* **Policies.** A constraint is its template and its UpdatedAt, a template its
  UsageCount and its Policy, which is code that opa.Parse has accepted. `Items`
  are the constraints the gateway may send, each with its template, version and
  code; a newer version may name another template, and code may be refused. The
  policy belongs to the template: a newcomer's code is not looked at when the
  template is there, and a newer version replaces the policy for every constraint
  that shares it. `panicked` records the nil dereferences. Two variables are
  history: `counted` says in which UsageCount a constraint was counted, `upset`
  that a constraint was taken from a count it was not in.
* **Auditor.** `object` is what the informer's store has, `informer` the
  notifications on their way, `snapshot` the listing an audit of everything works
  on. Nothing locks the tables or the cache, so that the listener's writes to the
  constraints, to the templates and to the cache are separate actions, and so are
  the loop's reads. `stage` follows the loop through one resource: getConstraints
  copies the constraints with the ids it was given ("select") or returns the map
  itself; the range takes a key ("range"), looks the constraint up and matches it
  ("match"), reads the template and evaluates ("evaluate"). A range over the live
  map follows Go's rules: what is deleted before it is reached is not produced,
  what is added may or may not be, and the lookup after the key may find nothing.
  The three reads of the template (lines 251, 252 and 263) are one: a template
  that is gone ends the process at whichever of them meets it, and the last one
  decides the verdict. The results then pass the comparison with the cache
  (after a change of the resource), UpdateCache and the sends one by one
  ("compare", "cache", "send"). Notifications carry `Masked[v]` of a version,
  listings the version itself, as wrapHandler masks and the lister does not. What
  cannot be masked (`Unmaskable`) is not announced, except that an update from
  such a version to one that can be masked goes on with a nil pointer
  (observer.go:202-211): that is `Nil` in the queue and `HandlerCrash`.
  Three variables are history: `told`, the last result sent; `touched`, whether
  the listener wrote to the tables since Audit was called; `overlooked`, the
  constraints whose verdicts may have changed with no audit to follow, as another
  constraint replaced the policy they share or their own code was refused, until
  an audit of everything includes them.
* **ResultBatch.** Results are numbered in the order the audits return them;
  `inHand` are those SendAuditResults has still to send, `piped` what the batches
  handed to the pipe hold. The ticker's channel holds one tick, which
  `timer.Reset` does not take out.
* **Lifecycle.** `restart[r]` follows the goroutine of a restart packet through
  the check, the call and the reset of each cancel function. The loop is "select"
  when it can receive and "busy" while it audits and sends its results, of which
  there may be none. The senders to the loop are the sync event, one informer per
  kind (first a delta into the queue, then the event), the listener, and the
  goroutines of audit commands. Only the loop and the deltas worker look at the
  context that stopSources cancels: the worker of the batches ignores its
  context, and informers and the listener have none. What Audit decides is module
  `Auditor`; here an audit is the number of its results.
* **Logs.** A slice is an array and a length, and each read or write of one of
  them is an action. append first stores the length, then the line, in the array
  it read (compiled in-place append; a build may store the array pointer again,
  which `AppendLength` leaves open). The buffer's capacity is `logBatchSize` from
  the first flush on; the larger array it is made with (10) makes no difference,
  as no slice gets that long. The logger is external: nothing in its use
  serialises Sync with Write. The workers of the pipe write `LinesPerSend` lines
  about a package they send, which is how the log level enters. `written`,
  `shipped`, `inOrder` and `raced` are history.
* **Process.** A goroutine is the sequence of the operations it has still to do.
  main's calls fail or succeed; `failures` remembers those whose result main goes
  on to use, `err` who assigned last. An assignment of `err` is one step: an
  interface torn by two writers is not modelled. Restarts are the steps of
  `Lifecycle` without what surrounds them, so that two fit into one instance.

Definitions whose comment begins with "Mutant:" are faulty variants of the
definition after them (a dropped reset, a missing lock, an off-by-one). No
specification uses them; replacing the definition by its variant makes the
property named in `PROJECT.json` fail, which shows that the property depends on
that code.

## 3. Runs

From this directory: `tlc -config X.cfg M`. Every passing run explores its whole
state space. Type invariants are theorems (section 4); runs check one where it
carries a bound of its own (`LifeTypeOK`: queue, channel and buffer) or says
more than types (`ProcTypeOK`: a cancel function that is nil was called).

| Run | Shows | Instance |
|---|---|---|
| `pipe_store` | Heap and slices agree after any mix of calls (`StoreAgrees`); no queued package shares the store with more of its kind than its ExpiryCount (`CountBound`); the count takes from the front (`DropsFromFront`); the priority follows the attempts (`PriorityTracksRetries`); a failing package is overtaken after a bounded number of attempts (`OvertakingBounded`) | 3 log batches with limit 2, 1 audit result, expiry, 3 attempts each |
| `pipe_store_heap` | `PipeStoreHeap` implements `PipeStore` (`RefinesPipeStore`), its index fields are right (`IndexAgrees`), its array is a heap (`HeapOrdered`) | 6 packages, 2 kinds, 2 priorities, limit 4, one that expires, 2 peeks or pops |
| `pipe` | A package is in exactly one place (`PackageInOnePlace`), is not stranded (`NoLostWakeup`), does not come back to the store once it has expired and left (`ExpiredStaysOut`), and is sent or dropped in the end (`EventuallySettled`) | 2 callers, 2 workers, limit 1, both packages may expire, up to 3 attempts each |
| `connection` | Nobody is let through before an answer was accepted (`LetThroughWhenAccepted`); replacing the waiter map forgets nobody (`NoneForgotten`); `blockedM` is released (`LockReleased`); Send returns (`SendReturns`) | 2 sessions, 1 waiter that calls Send again and again, 2 tries |
| `policies` | Usage counts are those of the constraints counted there (`UsageExact`) until a constraint is removed that points elsewhere; a nil template is met only after a refusal or a move (`PanicExplained`) | 3 constraints, 2 templates, 3 versions, code of two kinds and code that does not parse |
| `auditor` | But for the resource that is being cached and sent, the cache never has what was not sent last (`CacheWasTold`); once all is processed the gateway knows the present verdict of every constraint that is not `overlooked` (`ToldIsCurrent`), and it gets to know them (`EventuallyTold`); Audit meets nil only if the tables were written during it, or after a refusal or a move (`MissingExplained`) | 2 constraints of one template, two policies, 2 versions; 1 resource in any of 3 versions or absent, one of which is masked into another and one that cannot be masked; 3 inputs (changes, constraints received or removed, commands) |
| `lifecycle` | No result is lost, repeated or overtaken on the way to the pipe (`ResultsInOrder`), and each gets there while the agent lives, the last of a partial batch too (`ResultsReachPipe`); until the sources are stopped every sender is served (`SendersServed`); a restart ends the process although others are blocked by then (`RestartEnds`) | channel of 1, buffer of 2, 3 results, queue of 1, 1 informer, 1 command, 1 restart |
| `logs` | However Syncs race with Writes, the buffer never grows past its batch (`RoomForNextLine`); lines are lost, repeated or blanked only by such a race (`LinesKept`); each package sent has taken a whole batch of lines, but for one of each Sync, so that lines about sent packages fill fewer packages than they are about (`SendsPaidFor`), so the pipe runs out of log packages (`LogsSettle`); Writes return (`WritesReturn`) | batch of 2, 1 writer, 2 Syncs, 1 pipe worker with 1 line per send, 1 failure |
| `process` | main never takes its failed call for a success although the probes goroutine assigns the same `err` (`FailureNotMissed`); a panic takes two restarts at a time or an unchecked error (`LoneRestartNoPanic`); sinks are cancelled after sources (`SinksStopLast`); a restart, a Fatal and a failed probes server end the process (`EndingEnds`, `ProbesFailureEnds`) | all calls of main, the probes server, 2 restarts |

Bounds, and why they are enough:

* `MaxRetries` bounds the attempts on a package. Two attempts per priority level
  and one level are needed for a retry to change the order; the runs of the store
  have both a package with Retries 1 and one with Retries 2.
* In an array heap the item that replaces a removed one has to move up only when
  it comes from another branch, which needs six items; `pipe_store_heap` has six,
  and with that move left out `HeapOrdered` fails there. `FewPeeks` bounds the
  calls of peek and pop in that run, `MCSymmetry` swaps packages that differ in
  nothing.
* Two workers are the smallest pool for which `NoLostWakeup` holds; the theorem
  covers all larger ones, and any number of callers and packages.
* Two sessions make two overlapping hooks. `Limit` stands for 100 tries: the
  loop behaves alike at every try but the last. A second waiter would add no
  new kind of step: waiters meet each other only through `blockedM`, and Range
  treats the channels one after the other.
* A version of a constraint can be added, repeated, replaced and come late with
  three versions. With two templates and three constraints a template can lose
  its last counted constraint while others still point to it.
* In `auditor`, `MaxInputs` bounds the changes of the resource, the constraints
  received and the commands together. Three are enough for a constraint to be
  added, and replaced or removed at each stage of the audit the first one asked
  for while the resource changes; for one constraint to replace the policy of the
  other; and for the full audit that makes up for it. The sync event and the first
  notifications come on top. The verdict depends on the version, the policy and
  the object, so that every stale verdict differs from the right one; version 3
  of the object is one the first version of a constraint does not match. The
  theorems of section 4 have no such bound.
* In `lifecycle`, a channel of one and a buffer of two are full, partly full and
  empty in turn, and three results make a full batch and a rest; the order itself
  is proved for every capacity. One restart can come at every point of the
  others' steps; two are too many for TLC's liveness check here, so the race of
  two goroutines in stopSources (a nil cancel function called) is left to
  `process`.
* In `logs`, the code has a batch of 5 lines and, at debug level, 4 lines about a
  package sent: the lines about one package do not fill the next. A batch of 2
  and 1 line are the smallest numbers in this relation. A second Sync makes Syncs
  race with each other as well as with Write. Types, room, order and the balance
  of lines and packages are proved for all sizes.

Deadlock is not checked where the bounds let the system run out of steps.

Fairness:

* `PipeFairSpec`: a caller inside Send and each worker keep running (weak
  fairness of goroutines). Failures are bounded by `MaxRetries`, so
  `EventuallySettled` says: a package whose sends do not fail for ever is settled.
* `FairSpec` of `Connection`: goroutines that can run do run, timers fire. Weak
  fairness is enough for `blockedM`: only a Range holds it over more than a step,
  once in a session. Nothing makes the gateway answer or the channel come up.
* `AudFairSpec`: weak fairness of the loop, of a request that has begun, of the
  watcher's start and of the handlers. With finitely many inputs the loop comes to
  all of them, in whatever order its select chooses; nothing is assumed of that
  order.
* `LifeFairSpec`: WaitAuthorization returns, a restart's goroutine, the loop and
  the deltas worker keep running, timers fire; strong fairness for each sender to
  the loop and to the deltas queue, as a channel serves its senders in the order
  they came, and for the two branches of the batch worker's select. Nothing makes
  a restart or a request come, and the loop may prefer events to a cancelled
  context for as long as there are any.
* `LogsFairSpec`: each goroutine inside Write, Sync or the worker's loop keeps
  running; strong fairness for taking `logM` (Go's mutex, as above). Nothing makes
  anybody call Sync. Failures are bounded.
* `ProcFairSpec`: main, a restart, the probes goroutine after ListenAndServe
  returned, and whoever is about to exit keep running; main's calls return, but
  for Agent.Start. Nothing makes the server fail or a restart come.

### Runs that end in a violation

Each states a line of the repository's own documentation and shows that the code
does something else; `PROJECT.json` quotes the lines.

| Run | What happens |
|---|---|
| `connection_weak_token` | After a question with a short token authorize wraps a nil error: the client counts as authorized without an answer. |
| `connection_waiters_stuck` | An onConnect after the first, or the first when WaitAuthorization has found `authorized` set, blocks for ever on the unbuffered `connected` channel and never wakes the waiters. |
| `connection_timeout_panics` | A wait that times out closes its channel while Range is sending on it. |

Met while modelling, and without a run of their own:

* peek removes an expired package from the store and returns it all the same, so
  it is sent once more, although `client/pipe_store.go:15` says it will not be;
  `ExpiredStaysOut` is what remains true. It is counted as removed although it
  is sent.
* A constraint whose code does not parse stays in the table without a template,
  although `gateway/governance.go:65` logs that it could not be added; the same
  version sent again gets no error.
* A retried package counts against younger ones of its kind. With a single worker
  (`pipeStatus`, which nothing calls at present) `NoLostWakeup` fails.
* `authorized` can be set on a client that has been disconnected; Send goes on
  after its wait timed out; a disconnect during the handshake makes the backoff
  function return nil, so that onConnect exits the process after a single try.
* A second restart can call a cancel function the first has just set to nil.
* main overwrites the errors of getKRestConfig and dynamic.NewForConfig before it
  looks at them. GetClusterProvider indexes the first node of the cluster, and
  GetServerMinorVersion slices off the last character of the minor version,
  without a check that there is one.
* A newer version of a constraint replaces the policy of every constraint of its
  template, and only its own id is audited again.
* A whole RemoveConstraint fits between the lookup of a constraint in Audit and
  that of its template, which is then nil.
* An update from an object that cannot be masked to one that can dereferences nil
  (`kuber/observer.go:202-211`).
* An old version of a constraint that arrives after its deletion is stored as new.
* The same object can get one verdict from a notification (masked) and another
  from a full audit (unmasked).
* Sync puts a package in the pipe even when there is no line; it can push out one
  that has lines.

## 4. Proofs

`tlapm M.tla` for each proofs module. The theorems hold for all values of the
constants under the named assumptions of the modules: finitely many packages,
fields of the right types, a nonempty finite set of workers, finitely many
goroutines that log and finitely many restarts, capacities and batch sizes above
zero, `None` and `Absent` different from everything else (a verdict among them).
Further hypotheses are in the theorem.

**The store** (`PSInvariant`, from which `PSTypeCorrect`, `StoreAlwaysAgrees`,
`CountAlwaysBounded`). `CountBound` is not inductive: the sweep decides about a
package by how many are left when it comes to it. The invariant `PSInv` adds
that heap and slices agree and that each slice is a line (`SliceOrdered`:
`ahead` is transitive, irreflexive and total on a kind). The main lemma,
`SweepBound`, says that a package the sweep leaves is within its limit at the end
of the sweep, since the slice only gets shorter after its turn.
`DropsAlwaysFromFront` is an action property from the same invariant: the package
in front sees the longer slice. `PriorityAlwaysTracks` says that n attempts lower
a package n \div Retries places; its step is a lemma on how the quotient changes
when n grows by one. `OvertakingAlwaysBounded` follows from it: a package taken
ahead of a waiting one has no worse priority, which bounds its attempts.

**The store's data structures** (`IndexAlwaysAgrees`, `HeapAlwaysOrdered`,
`HeapIsPipeStore`). These hold for heaps and slices of every size. The provers
have no induction over data, so it is done by the least counterexample
(`NatMin`, from the well-foundedness of `<` on the naturals). From it come the
three facts about loops: `Passes` obeys its recursive definition (`PassesDef`),
a set of states closed under the pass is never left (`PassesKeep`), and a loop
whose variant starts at n or below has ended after n passes (`PassesEnd`). Each
loop then has its invariant. For `up`, `UpReady`: the heap is in order but for
the item and its parent, and the parent of the item may stand above its children.
For `down`, `DownReady`: the same for the item and its children, and as long as
the item has not moved for its parent as well, which is what `up` is then tried
for (`SettleRight`).
From these `FixRight`, `PushRight` and `RemoveRight` say what container/heap
does: the same items, in order, each with its place in its index field, and -1
for the removed one. For the sweep, `SliceWithout` says that what is left stands
in its old order, that the removed packages were ahead of those the loop has yet
to see, and that each package it has seen went or stayed by the length the slice
had at its turn; at the end that is `SweepRemoves`. The invariant `HeapInv` of
the store is then: order and places in the array, -1 in the index of every
stamped package outside it, and each slice is the packages of its kind in the
array, once each. The first of a heap is a least one (`RootLeast`), so every step
is a step of `PipeStore`, and what is proved of `PipeStore` holds for the code's
structures.

**The pipe** (`PipeInvariant`, from which `PipeTypeCorrect`, `PackagesConserved`,
`PipeCountBounded`, `WakeupNeverLost`, `ExpiredAlwaysOut`). `PipeInv` is `PSInv`,
the types, that a worker has a package exactly between Pop and the end of its
iteration (`WorkerHasPack`), that the holder of the lock is the one worker inside
(`HolderInside`), and `PackageInOnePlace`. `WakeupNeverLost` needs two workers: a
broadcast that misses a worker between Pop and Wait finds that worker holding the
lock, so another worker is elsewhere in its loop or is woken.

**The connection** (`ConnTypeCorrect`, `NoneEverForgotten`,
`LetThroughOnlyWhenAccepted`). `NoneForgotten` is about the step in which
onConnect, done with Range, replaces the map: nobody sleeps then. The invariant
`ConnInv` adds that a waiter that sleeps is in the map and, during a Range, still
to be visited or being sent to (`SleepersFound`), that whoever is in Range holds
`blockedM` (`RangeHolds`), and a bound on the tries. `LetThroughOnlyWhenAccepted` assumes that
every token is strong; with a weak one the property fails, which is the run
`connection_weak_token`. Its invariant says that an onConnect to which the answer
was accepted, and any further one, finds `accepted` nonempty.

**The policy tables** (`PolTypeCorrect`, `UsageAlwaysExact`, `PanicsExplained`).
All hold for whatever the gateway sends, moves and refusals included. The
invariant `UsageInv` joins the properties with the types and with the fact that
only constraints of the table are counted: a count is the cardinality of the
constraints `counted` there, so it reaches zero exactly with the last of them.

**The auditor** (`AudTypeCorrect`, `CacheAlwaysTold`, `MissingAlwaysExplained`,
`ToldAlwaysCurrent`), for any constraints, templates, objects and inputs, moves
and refusals included. All rest on `AudInv`, the types of every stage a resource
and its results pass.

`CacheWasTold` leaves out the resource that is being cached and sent, so that its
invariant `CacheInv` has to say what holds of that one: the gateway will have what
the cache has once the results that are cached and not yet sent have been sent,
the last of them for a constraint deciding (`Agrees`, `Unsent`). The listener may
clear entries at any stage, which makes the claim about them empty.

`MissingAlwaysExplained` needs the counts between the listener's writes
(`CountInv`: `UsageExact`, and the constraint that is in one table only is not
counted) and, as long as nothing was written, that what Audit has read is what
the tables have (`TouchInv`). A constraint that Audit has read, that is still in
the table and counted where it points, then has its template.

`ToldAlwaysCurrent` is what the auditor is for: once everything is processed the
gateway knows the present verdicts. It speaks of a quiet state only, so its
invariant `ToldInv` has to say what holds at every other moment in which the
process runs. A constraint is `Settled` when it has a template, no audit is about
to be asked for it, and its verdicts were not changed behind its back
(`overlooked`). For a settled constraint and a resource the gateway has heard the
verdict (`Heard`), or a notification of the resource waits or the handlers are not
attached yet (`Announced`), or the loop has the resource in its listing and has
yet to reach, evaluate or send that constraint (`Underway`). What is under way
must be worth waiting for: the last notification that waits is about the resource
as it is (`QueueRight`), the listing has the resource as it is or it is announced
(`SnapshotRight`), what Audit has read of a settled constraint, and the results it
has made of it, follow from the tables as they are (`ReadRight`). The result the
cache suppresses is one `CacheInv` vouches for.

**The result batches and the lifecycle.** `ResultsAlwaysInOrder` follows from
`ResultsInOrder` with the types: what the pipe, the buffer, the channel and the
sender hold, put together in this order, is 1, 2, ..., `audited`. Each step moves
a head to the end of the sequence before it (`PassHead`), empties one sequence
into the one before it, or adds at the end (`UptoMore`); concatenation is
associative (`JoinedTwice`). `LifeRefinesBatch` shows that every step of the agent
is a step of the batches or leaves them alone, an audit without results being the
case that needs the invariant; `ResultsInOrderInLife` is the order inside the
whole agent, and `LifeTypeCorrect` its types, the bound of the deltas queue among
them, for any number of restarts, informers and commands.

**The logs** (`LogTypeCorrect`, `AlwaysRoomForNextLine`, `LinesAlwaysKept`,
`SendsAlwaysPaidFor`), for any number of writers, Syncs and workers and any batch size. `RoomForNextLine`
needs what the append has read (`Appending`: the slice it saw has room for one
more line while it is inside), since the length it stores comes from there and
not from the buffer. `LinesAlwaysKept` needs to know, while nobody has raced, who
is alone in the buffer and how far the line or the flush has come (`Inside`,
`Settled`, `Phase`, `Alone`). `SendsAlwaysPaidFor` is a balance, races included
(`PaidInv`): a package sent, queued, in a worker's hand or being made by a Write
has cost a batch of lines, or a Sync that has returned. The difficulty is what
the lines in the buffer are worth at the moment a Sync empties it under an
append: the append goes on from the length it has read, so `Level` counts that
length, and not the buffer's, while a Write is inside. Syncs pay for their one
package when they return; the lines they throw away are lost and those they
send twice are covered by that same payment.

**The process** (`ProcTypeCorrect`, `FailureNeverMissed`,
`LoneRestartNeverPanics`, `SinksAlwaysStopLast`), for any number of restarts.
`ProcInv` says how far each goroutine is in its program, as what it has still to
do is the rest of that program (`InPrograms`, `MainRight`), and what must have
happened for it to be there. For restarts (`Contexts`): whoever is beyond the call
of a cancel function finds its context cancelled, by itself or by another, and a
function is nil only if some restart is beyond clearing it; a restart that calls
nil has therefore met another one. For main (`MainAt`): after a failure it must
not miss, its very next operation ends it, as that operation is a check with an
error in `err` or a dereference of what is nil. The probes goroutine only ever
assigns an error to `err`, so it can make the check succeed in ending main but
not hide a failure from it.

Model-checked only: all liveness (`EventuallySettled`, `LockReleased`,
`SendReturns`, `EventuallyTold`, `SendersServed`, `ResultsReachPipe`,
`RestartEnds`, `WritesReturn`, `LogsSettle`, `EndingEnds`, `ProbesFailureEnds`),
which is out of the prover's reach.

## 5. Limits of the model

* Go's runtime ends the process when it notices a concurrent map access. The
  auditor's tables and cache are exposed to that; the model shows what happens
  when it goes unnoticed, and `panicked` covers only nil constraints and templates.
  An entry of a map is read and written in one step.
* A violation whose details carry a `msg` that is not a string makes Audit panic
  (opa-auditor.go:279); what a policy returns besides its verdict is left out.
* The gateway's listener handles one request at a time.
* Time is abstract: timers may fire at any moment, stamps are a counter.
* The watchdog and the SIGHUP ping call Send like any other waiter.
* The deltas that the entities watcher collects are used by nobody; `Lifecycle`
  counts them, as the queue they wait in can be full.
* Gateway.Start does not return in the model: the signal handler of Connect asks
  for the next signal every time, and its loop is outside the repository. The
  other ways in which the client ends the process are in `Connection`, not in
  `Lifecycle` or `Process`.
* From a verdict to the gateway a result passes `Auditor`, `ResultBatch` and
  `Pipe`. Each hands over to the next what its properties speak of; their product
  is beyond TLC. That the pipe may drop a batch whose verdicts the cache has
  recorded as told is therefore a hazard without a property.

Not modelled, and why: the parents of a resource (nothing fills the ParentsStore:
the one caller of GetParents, `EntitiesWatcher.getParents`, has no caller), the
log level handler (to `Logs` a level is a number of lines), the panic recovery
and the token signing (no state; authorize has the outcomes they lead to), the
packets and their codec, and the domain types. What the Kubernetes calls ask of
the API server is left out; their outcomes are in `Process`.

## 6. Plan

Done, in this order: store, heap refinement, pipe, connection, policy tables,
auditor, result batches, lifecycle, logs, process; masking in the auditor, moves
and refusals in the policy tables; proofs of every safety property the runs
check, and of the refinement of the store.

Next: what `Pipe` proves with `PipeStore` inside, with `PipeStoreHeap` in its
place; the hazards of `PROJECT.json` that have no property.
