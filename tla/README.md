# A TLA+ model of the kubeaware-cloudpool-proxy

The kubeaware-cloudpool-proxy stands between the clients of a *cloudpool* (a REST
service that keeps a group of cloud machines at a desired size) and the cloudpool
itself. Most requests are forwarded. Two are not: *set desired size* and *terminate
machine*, because they may take a Kubernetes node down. For these the proxy vets the
nodes, drains a victim, deletes it from the cluster and only then has its machine
terminated.

This directory models that behaviour, checks it with TLC on small clusters and, with
TLAPS, proves most of its safety properties for all of them.

## The system

| part | source | state | operations |
|---|---|---|---|
| HTTP server | `pkg/proxy/server.go`, messages in `pkg/cloudpool/types.go` | `updateLock` | `HandleSetDesiredSize`, `HandleTerminateMachine`, `ForwardToBackend` |
| proxy operations | `pkg/proxy/proxy.go` | local variables of a call | `SetDesiredSize`, `TerminateMachine`, `evictAndTerminate` |
| node scaler | `pkg/kube/nodescaler.go` | none of its own, changes the cluster | `ListWorkerNodes`, `IsScaleDownCandidate`, `DrainNode`, `DeleteNode`, `NodeLoad` |
| quasi scheduler | `pkg/kube/quasi_scheduler.go`, `nodeinfo.go` | pods added to its copies of nodes | `VerifySchedulingViable`, `Schedule`, `NodeLoad` |
| Kubernetes client | `pkg/kube/client.go` | the cluster (external) | get, list, update and delete nodes, list and evict pods |
| cloudpool client | `pkg/cloudpool/client.go`, `functions.go` | the pool (external) | `GetMachinePool`, `GetMachine`, `SetDesiredSize`, `TerminateMachine`, `Forward` |
| configuration, command line | `pkg/config/proxy_config.go`, `cmd/.../main.go` | none after start-up | `NewFromJSON`, `Validate`, `main` |
| samples, mocks | `samples`, `mocks` | none | not modelled |

How they interact: every HTTP request runs in a goroutine. An update takes
`updateLock`, calls the API server and the backend a number of times and unlocks.
Meanwhile the scheduler binds pods, pods exit, nodes join, machines boot and
terminate, and clients change the membership status of machines through the
forwarding path, which takes no lock.

What is hard about it:

- an operation decides from a snapshot and acts on it many calls later;
- every call can fail, or take effect while its answer is lost; a call that timed out
  at the proxy may be carried out by the backend later;
- the process can die between two calls, and nothing is persisted;
- several victims are vetted first and removed afterwards;
- a panic in a handler is recovered by `net/http`, but `updateLock` is not unlocked
  by a `defer`;
- the cluster is read in many calls, and nodes are updated from a copy while the
  kubelet, operators and controllers write to them too;
- an answer is passed on while it is still arriving, to a client that may stop reading
  and for which the server has no timeout.

## Modules

| module | models |
|---|---|
| `QuasiScheduler` | the quasi scheduler and the arithmetic of `NodeInfo`, as operators |
| `NodeScaler` | the predicates and decisions of `DefaultNodeScaler`, as operators |
| `Kubernetes` | the cluster: `nodeState`, `tainted`, `host`, `leaving`; the effects of the client's calls and what the cluster does by itself |
| `CloudPool` | the pool: `machineState`, `active`, `evictable`, `desiredSize`, `delayed`; likewise |
| `Proxy` | the handlers, composed with the cluster and the pool: `updateLock`, and for each handler `pc`, `req`, `result`, `local` |
| `GracefulRemoval` | the promise about taking nodes down, without handlers, calls or faults |
| `ProxyProperties` | the properties, and the refinement mapping to `GracefulRemoval` |
| `NodeDrain` | `DrainNode` and `evictAndTerminate`, one call to the API server at a time, with resource versions, the taints of others and a disruption allowance that is used up; also shown to implement `GracefulRemoval` |
| `Vetting` | `IsScaleDownCandidate` reading the cluster node by node while it changes |
| `Evacuation` | `verifyEvacuationFeasibility` pod by pod, compared with the placements Kubernetes would accept |
| `Gateway` | a request on its way to the backend and the answer on its way back: routes, `Forward`, `ForwardToBackend`, `doRequest` |
| `Startup` | `main` from the configuration file to the serving process: parsing, validation, defaults, credentials |
| `Service` | `Startup` and `Gateway` together: exchanges with the backend under the timeout that was configured |
| `MCProxy`, `MCNodeDrain`, `MCVetting`, `MCEvacuation`, `MCService` | the small instances that the `.cfg` files choose from |

The proofs have modules of their own:

| module | proves |
|---|---|
| `ProxyProofs` | types and mutual exclusion of `Proxy`; lemmas on what each step does to its handler, to the others, to the cluster and to the pool |
| `CandidateProofs` | what vetting guarantees |
| `RemovalProofs` | what a removal guarantees |
| `GracefulProofs` | `Proxy` implements `GracefulRemoval`, and a fault leaves at most one node half removed |
| `NodeDrainProofs` | the safety properties of `NodeDrain`, and that it implements `GracefulRemoval` |
| `ServiceProofs` | the safety properties of `Startup`, `Gateway` and `Service` |
| `EvacuationProofs` | the properties of `Evacuation` |
| `VettingProofs` | the properties of `Vetting` |

`Proxy` EXTENDS `Kubernetes` (which EXTENDS `NodeScaler` and `QuasiScheduler`) and
`CloudPool`. `Vetting` EXTENDS `Kubernetes`, and `Evacuation` EXTENDS `NodeScaler`: they
use the operators of `Proxy` for the decisions and look closer at the steps around
them. `NodeDrain` stands alone. `Service` EXTENDS `Startup` and `Gateway`. Each of
`CandidateProofs`, `RemovalProofs` and `GracefulProofs` EXTENDS the proof module before it,
beginning with `ProxyProofs`.

### State and actions

`pc[h]` names the call that handler `h` makes next, and there is one action for each:

| action | code |
|---|---|
| `Receive` | read, decode and validate the body |
| `Lock`, `Unlock`, `Respond` | `updateLock` and the answer |
| `ForwardToBackend` | `ForwardToBackend` and what the backend may do with the request |
| `ListWorkerNodes` | `ListWorkerNodes`; for a termination also `getNodeWithExternalID` |
| `GetMachinePool` | `GetMachinePool`, `pairNodesWithMachines` and the comparison of sizes |
| `GetMachine` | `GetMachine` of a termination |
| `CheckCandidate` | one turn of `partitionScaleDownCandidates` |
| `SelectVictims` | `sortByLoad`, `nodesToRemove`, entering the loop |
| `SetDesiredSize` | the pass-through |
| `MarkUnschedulable`, `EvictOnePod`, `MarkSchedulable` | `DrainNode` |
| `DeleteNode`, `TerminateMachine` | the rest of `evictAndTerminate`, and the loop's next turn |
| `Crash` | the process dies and is restarted |
| `Environment` | scheduler, kubelets, cloud and backend |

A call that changes something ends in one of three ways: done; refused without effect;
or done with the answer lost, which the proxy sees as an error. The last two count
against `MaxFaults`, unless the refusal has a cause in the model (the node is gone, a
disruption budget covers the pod, the backend does not accept the call).

The other modules have a `pc` (`phase` in `Startup`) that names the next step of the one call
they follow:

| module | steps |
|---|---|
| `NodeDrain` | `GetToMark`, `UpdateMarked` (`markUnschedulable`); `EvictPod`; `GetToUnmark`, `UpdateUnmarked` (`markSchedulable`); `DeleteNode`; `TerminateMachine`. Around them `NodeWritten`, `NodeLost`, `PodDeleted`, `BudgetChanges`, `PodStops`, `PodReturns` and a client's `Retry` |
| `Vetting` | `RejectProtected`, `ListNodes`, `GetNode`, `ListPods`, `Decide`; around them `ClusterChanges` |
| `Evacuation` | `QuickCheck`, then `SchedulePod` for every pod, in any order and with any choice between equally loaded nodes |
| `Gateway` | `Redirect`, `Dispatch`, `Forward` or `ForwardFails`, `ReadPiece`, `BodyBreaks` or `BodyEnds`; towards a client also `WritePiece`, `WriteError` and the client's `HangUp` |
| `Startup` | `ReadConfig`, `Unmarshal`, `Validate`, `Defaults`, `NewClient`, `NewKubeClient`, `FindCluster`, `FindContext`, `FindUser`, `NewForConfig`, `NewServer` |
| `Service` | `Start` (a step of `Startup`), `Serve` (a step of `Gateway`, once the process serves) |

Two of them keep history: `Vetting` the verdicts that a look at the whole cluster would
have given at each instant (`instantVerdicts`) and the pods that moved; `Gateway` what
the backend was asked (`asked`).

### Abstractions

In `Proxy`:

- Listing all nodes with their pods is one step; the code makes two calls per node.
  `Vetting` takes this step apart. A verdict from a torn listing is more than `Proxy`
  can do: `Proxy` is about what follows from a sound verdict.
- A read of a node and the update that follows it are one step. `NodeDrain` takes it
  apart; an update that is refused because of a write in between is a fault in `Proxy`.
- Readiness, labels, annotations and the allowance of a disruption budget do not
  change. The API server may refuse any eviction that a budget covers. `Vetting` has
  changing readiness and annotations, `NodeDrain` a changing allowance.
- A deleted node does not register again.
- A Kubernetes call with a lost answer takes effect at once; one to the backend may
  take effect at any later time.
- A pod stands for one replica: once it has gone it is unbound, and the scheduler
  may bind it again if it has a controller. Pods of the API server are static and are
  not bound by the scheduler.
- The scheduler accepts a node by the predicates of the quasi scheduler.
- `verifyEvacuationFeasibility` tries the pods in one fixed order; `Evacuation` in all.
- A forwarded request either changes nothing or sets a membership status. `Gateway`
  examines what is forwarded.

Elsewhere:

- Quantities are small integers; a load is compared exactly instead of as a float,
  with the special values a division by zero gives.
- `NodeDrain` starts from victims that the budget check has passed; its other
  conditions do not depend on what happens during a drain. Pods of a stateful set come
  back under their name, other replacements have new names and are left out.
- `Vetting` reads the disruption budgets together with the decision, and they do not
  change.
- `Evacuation`'s reference (`KubernetesAccepts`, `Placeable`) is the part of the
  Kubernetes scheduler that the quasi scheduler imitates: requests against allocatable
  resources without ended pods, taints, node selector and required node affinity.
  `InstanceAssumption` says which arguments a call can have.
- In `Gateway` a path is a resource and a form (plain, with a doubled slash, with a
  trailing slash), a body a number of pieces. A piece for a client is read in one step
  and written in another, which waits for the client to take it: buffers between the two
  are of no size, so a client that stalls is met at every piece. A redirection of the
  backend is followed inside `Forward`.
- In `Startup` certificates and URLs are names; two of these stand for a URL that does
  not parse and for one, like `master:6443/x`, that parses but has a path without a
  scheme and a host, which `Validate` accepts and client-go refuses. A timeout is absent, a quoted duration,
  an illegal one, or a bare digit, on which `UnmarshalJSON` panics (the slice bounds are
  out of range).
- Request and response texts are left out.

## Runs

The composed system (`MCProxy`: a master and up to three workers):

| run | instance | checks |
|---|---|---|
| `scaledown` | 2 handlers, 3 workers, 2 pods, 1 fault | `TypeOK`, `NoConcurrentUpdates`, `NoOvershoot`, `DestinationRemains`, `FaultsLeaveOneNodeEach`, `SuccessMeansGone`, `OnlyUnseenPodsAreStranded`, `RemovalIsGraceful`: `Proxy` implements `GracefulRemoval` |
| `churn` | 2 handlers, 2 workers and a third joining, forwarded requests, no faults | `FaultsLeaveOneNodeEach`, `NoOvershoot` |
| `mixed_pods` | 2 handlers, every placement of 5 kinds of pods on 2 workers, 1 fault | `EvictedPodsAreMovable`, `ProtectedNodesAreKept` |
| `repeated_faults` | 1 handler, 3 workers, 1 pod, 3 faults | `FaultsLeaveOneNodeEach`, `SuccessMeansGone`, `RemovalIsGraceful` |
| `answers` | 2 handlers, 2 workers, 1 fault, fairness | `EveryUpdateIsAnswered` |

Single calls and components:

| run | instance | checks |
|---|---|---|
| `drain` | 2 victims, every placement of 2 pods on 3 nodes, every allowance, 3 acts of others, 1 fault, fairness | `TypeOK`, `UnschedulableWhileDraining`, `FirstVictimIsWithinBudget`, `LeftoverTaintHasACause`, `ForeignTaintsSurvive`, `EvictionsFollowTheListing`, `DrainReturns`, `DrainIsGraceful`: `NodeDrain` implements `GracefulRemoval` |
| `vetting` | the vetted node, two others, the master, 2 changes | `OneChangeIsSeenWhole`, `StillPodsAreCountedOnce` |
| `evacuation` | up to 3 pods of 3 sizes, tolerations, selectors and affinities on 2 nodes, which may be overcommitted, without allocatable memory or with ended pods | `PodsAreConserved`, `FeasibleMeansPlaceable`, `QuickCheckIsNecessary`, `LonePodIsDecidedExactly`, `PanicMeansNoAllocatable` |
| `service` | every combination of credentials, of timeouts and of URLs, twelve kubeconfigs, one mistake at a time; every method, resource and form of a path; bodies of 0 to 4 pieces, with and without a declared length; fairness | `CredentialsBelongTogether`, `ExitHasAReason`, `TimeoutsAreSet`, `SizeUpdatesAreNotForwarded`, `AnswerFollowsTheBackend`, `BrokenBodyIsNoticed`, `ResultIsWhole`, `ExchangesEnd` |

What the second group adds to `Proxy`: `drain` shows that reading and updating a node in
two steps does no harm as long as the API server compares versions, and
`DrainIsGraceful` that both levels of detail keep the same promise: the machine of a node
is not even asked for (`asking` of `GracefulRemoval`) before the node is deleted. `vetting` shows that
the torn listing is harmless as long as the cluster changes once during it.
`evacuation` shows that the quasi scheduler errs on the safe side for every kind of node
(`FeasibleMeansPlaceable`) and that on ordinary nodes it errs no more than a greedy
placement must: a group of pods may be turned away although some placement exists, a
single pod may not. `service` shows what `Proxy` takes for granted of its calls to the
backend: each ends, and with a whole answer or an error. An exchange on behalf of a client
ends too, unless that client neither reads its answer nor closes the connection
(`ClientStalls`): the server sets a timeout for reading only, and while `io.Copy` waits in
a write it does not notice that the backend's timeout has run out. Such a handler holds no
lock.

### Bounds

Two handlers are what it takes to contend for the lock. Three workers allow two victims
and a node that remains. One fault reaches every failure of a single call and a crash at
every point, and the follow-up requests of both clients run after it; three faults
(`repeated_faults`) reach a failure, a roll-back that fails and a retry that fails too.
In `drain` three acts of others are a write that makes an update fail, a retry, and one
more. Two changes are the least that tear a listing. Three pods on two nodes are the
least for which the order of placement matters. Four pieces are more than an error text
has (two), so that bodies shorter, as long and longer than it are met. Timeouts,
credentials, URLs and kubeconfigs are varied one group at a time, since start-up looks at
them one after the other.

Deadlock is checked where the system must not stop. `NodeDrain`, `Vetting`,
`Evacuation` and `Service` follow one call to its end, and `mixed_pods` allows for a
panic that leaves the lock held for ever, which is what the run `panic` is about.
Symmetry between handlers is used where no liveness is checked. The refinement mapping
does not depend on their names: at most one of them removes a node.

### Fairness

`FairSpec` of `Proxy`: a handler that has a request keeps going (weak fairness of
`Serve`): goroutines are scheduled, and every call has an end. `Lock` is strongly fair,
because `sync.Mutex` hands itself over to a waiter that has waited for more than a
millisecond (since Go 1.9; `.travis.yml` builds with 1.10). `NodeDrain` assumes weak
fairness of its calls for the same reason.

That calls to the backend have an end is shown in `Service`, which assumes less: that
`main` goes on, that a client timeout runs out if it is positive (`TimesOut`;
`net/http` takes others for none), and that the end of a body of declared length is
noticed (`ReadsTheEnd`). Both wait in a read from the backend. The backend may fall silent
at any point, and a client may stop reading: `WritePiece`, `WriteError` and `HangUp` are
not fair. For the API server, `TimeoutsAreSet` shows in which case there is a timeout.
Nothing is assumed of the cluster, the pool or the clients. (The fairness of `Serve` in
`Proxy` is also that of a forwarding handler, whose client may stall; no property depends
on it, since such a handler has no lock.)

### Where the code and what is written about it differ

Three runs end with a counterexample:

| run | property | what happens |
|---|---|---|
| `all_workers` | `EveryVictimLeavesAWorker` | victims are vetted independently, so size 0 removes every worker, the last ready one included. |
| `pass_through` | `NoMachineGoesBeforeItsNode` | the desired size is compared with the number of registered nodes, not with the pool size. While a machine boots, a real scale-down is passed on and the backend chooses the victim. |
| `panic` | `EveryUpdateIsAnswered` | an owner reference without `controller` is dereferenced; the panic leaves `updateLock` held. |

Other differences are the exceptions that a property has to make, in order to hold. The
property shows that there is no further one.

| property | its exception | source |
|---|---|---|
| `OnlyUnseenPodsAreStranded` | `DrainNode` evicts the pods of a snapshot. A pod evicted from the first victim may be bound to the second before that is tainted, and is on it when it is deleted. Nor does `DrainNode` wait for evicted pods to stop. | `nodescaler.go:282`, `:296` |
| `FaultsLeaveOneNodeEach` | an error after the node is deleted leaves its machine running, out of reach of a retry, which no longer finds the node. | `proxy.go:258` |
| `LeftoverTaintHasACause` | the update of `markSchedulable` is refused because the kubelet wrote to the node; the error is logged and the node stays tainted. | `nodescaler.go:302` |
| `FirstVictimIsWithinBudget` | two victims pass the check of a budget that allows for one of them, and the drain of the second is refused. | `nodescaler.go:389` |
| `EvictionsFollowTheListing` | an eviction goes by name; a pod of a stateful set that came back on another node is evicted there. | `nodescaler.go:287` |
| `OneChangeIsSeenWhole` | with two changes, a pod appears on a node already read and one leaves a node not yet read, and the room that seems free never was; or the node is annotated after the caller listed it. | `nodescaler.go:406`, `:169` |
| `QuickCheckIsNecessary` | the negative free capacity of an overcommitted node is subtracted from that of the others; pods that have ended count as taking up room. | `quasi_scheduler.go:192`, `nodeinfo.go:51` |
| `LonePodIsDecidedExactly` | affinity terms are combined with *and*, Kubernetes combines them with *or*; pods that have ended count as taking up room. | `quasi_scheduler.go:359`, `nodeinfo.go:51` |
| `PanicMeansNoAllocatable` | a load of 0/0 is not less than any other; `leastLoadedNode` returns nil, which is dereferenced. | `quasi_scheduler.go:143` |
| `SizeUpdatesAreNotForwarded` | `POST /pool/size/` matches no route, is forwarded and loses its slash on the way; so does the `POST /pool/terminate/` that the comments at `server_test.go:43` and `:110` name as one that is not forwarded (the tests send it without the slash). | `server.go:49`, `cloudpool/client.go:250` |
| `BrokenBodyIsNoticed` | a body that breaks off is continued with an error text, under the backend's status; without a declared length, or if the text just fills it, the answer looks complete. | `server.go:173` |
| `TimeoutsAreSet` | a negative timeout for the API server means none. | `kube/client.go:61` |
| `ExchangesEnd` | writing to a client has no timeout. | `server.go:59` |
| `DestinationRemains` | it is about what the proxy removes: the node that remains may die, or vanish from the cluster, meanwhile. | `nodescaler.go:189` |
| `ExitHasAReason` | whether credentials are found depends on the iteration order of a map, if an entry with the same URL leads nowhere. | `kube/client.go:81`, `:97` |
| `CredentialsBelongTogether` | a user with neither certificate nor key (but a token, say) is taken for credentials. | `kube/client.go:110` |

Noticed on the way, without a run: the comment on `MembershipStatus.Evictable`
(`types.go:155`) and the reason text at `proxy.go:350` say the opposite of what the
code does; a scale-down never sets the backend's desired size but relies on each
termination to decrement it; `Forward` drops the query of a request (`client.go:197`).

## Proofs

TLC looks at small instances; the theorems hold for every value of the constants that
satisfies the assumptions of the modules. All of these assumptions are evaluated by TLC
on the instances of the runs.

| assumption | what it asks, and why that is so |
|---|---|
| `ProxyAssumption` | requests and initial states are of their type; there are finitely many nodes; a node's external ID is a machine identifier |
| `NoNodeAssumption` | the value for "not bound" is not a node |
| `MachineIdentifiesNode` | no two nodes are on the same machine. `getNodeWithExternalID` relies on it: it stops at the first node found |
| `DrainAssumption` | the victims are a non-empty sequence of nodes; finitely many pods are covered by the budget; the drain taint is nobody else's |
| `ConfigurationAssumption` | a timeout in the file has one of the forms that `UnmarshalJSON` tells apart |
| `GatewayAssumption` | requests and responses are of their type; a status is not 0 |
| `VettingAssumption` | pods have different names (namespace and name); the cluster's pods are bound to nodes it has; the number of changes is a natural number |
| `InstanceAssumption` | finitely many pods and nodes; names identify nodes; requests and allocatable resources are not negative; the pods to be moved are not on the nodes they may move to |

There is no assumption on the number of handlers, pods or machines, on the kinds of
pods and nodes, or on the number of faults and events.

### The proxy

| theorem | property | module |
|---|---|---|
| `TypeCorrect` | `TypeOK` | `ProxyProofs` |
| `MutualExclusion` | `NoConcurrentUpdates` | `ProxyProofs` |
| `OnlyMovablePodsAreEvicted` | `EvictedPodsAreMovable` | `CandidateProofs` |
| `ProtectionIsRespected` | `ProtectedNodesAreKept` | `CandidateProofs` |
| `FirstVictimLeavesAWorker` | `DestinationRemains` | `CandidateProofs` |
| `NeverOvershoots` | `NoOvershoot` | `RemovalProofs` |
| `SuccessIsTrue` | `SuccessMeansGone` | `RemovalProofs` |
| `DrainMissesNoKnownPod` | `OnlyUnseenPodsAreStranded` | `RemovalProofs` |
| `EachFaultLeavesOneNode` | `FaultsLeaveOneNodeEach` | `GracefulProofs` |
| `ProxyImplementsGracefulRemoval` | `RemovalIsGraceful` | `GracefulProofs` |

The invariants build on each other.

1. `TypeInv` is `TypeOK` with three more conjuncts. `RequestsAreValid`: an operation runs
   only for a validated request; without it the desired size that is passed on need not
   be a natural number. `UpdaterHoldsLock`: whoever is between `Lock` and `Unlock` holds
   the lock, which is stronger than mutual exclusion and, unlike it, inductive.
   `LocalsAreSound`: the local variables fit the place in the operation; above all, the
   index of the loop is within the queue whenever a victim is used, so `victim(h)` is a
   node. This needs that a scale-down is entered only with more nodes than desired (lemma
   `NodesToRemove`).
2. `CandidateInv` carries what `IsScaleDownCandidate` found from the vetting to the last
   call of the removal: candidates are workers without the annotation, every pod seen on
   them that has to move is movable, the queue is made of candidates, and the first victim
   has a destination. The world goes on meanwhile, so each of these must be a fact that
   others cannot undo. That a worker stays one is such a fact (`WorkersStayWorkers`: pods
   of the API server are not bound by the scheduler). That the *second* victim has a
   destination is not, since the first may have been it; the run `all_workers` shows that.
3. `RemovalInv` follows the loop of `evictAndTerminate`: the queue holds each victim once
   and is no longer than the excess, the operation deletes no other node, victims before
   the current one are gone and those after it are untouched, and the pods that were seen
   on the current one are leaving, still to be evicted, or tolerate the taint. `NoOvershoot`
   then counts: the deleted pairs are in the queue, which is short enough.
4. `LeftoverInv` says that the half-removed nodes *that nobody is removing* are no more
   than the faults. `FaultsLeaveOneNodeEach` alone is not inductive: a handler that fails
   stops removing, so that its victim moves from one side of the sum to the other, and the
   fault must be shown to have been counted in that very step.

The lemmas of `ProxyProofs` split a step into a step of one operation under the lock, a step outside
it, a step of the cluster or of the pool, and a restart; the invariants are shown to be
kept by each. The refinement proof shows, action by action, that only the victim's stage
changes and changes by one, or that nothing of `removalStage`, `currentVictim` and
`askedVictim` does. `askedVictim`, the victim of a handler that is about to call the
backend, makes the order of the two calls visible in the promise: without it, a machine
terminated while its node is still registered would look like one that died.
That `currentVictim` picks a handler with CHOOSE is harmless: at most one removes.

### DrainNode

| theorem | property |
|---|---|
| `DrainTypeCorrect` | `TypeOK` |
| `DrainingIsUnschedulable` | `UnschedulableWhileDraining` |
| `ForeignTaintsAreKept` | `ForeignTaintsSurvive` |
| `LeftoverTaintsAreExplained` | `LeftoverTaintHasACause` |
| `EvictionsAreOfListedPods` | `EvictionsFollowTheListing` |
| `FirstVictimIsNotRefused` | `FirstVictimIsWithinBudget` |
| `DrainImplementsGracefulRemoval` | `DrainIsGraceful` |

`DrainInv` has the reason why updating a node from a copy does no harm (`CopyIsHonest`):
versions only grow, and a node that still has the version of the copy has its taints
too. It also says what became of the listed pods (`ListedPodsStay`). `FirstVictimInv`
holds while nobody else acts: the covered pods still to be evicted are no more than the
allowance, and each eviction lowers both by one.

### Vetting

| theorem | property |
|---|---|
| `StillPodsCounted` | `StillPodsAreCountedOnce` |
| `OneChangeSeenWhole` | `OneChangeIsSeenWhole` |

`CountInv` holds however often the cluster changes. No node is read twice; a pod that has
not moved is on a node that was read if and only if it was seen there; and a registered
node with such a pod is still to be read or has been. The last part is why pods must be on
nodes of the cluster to begin with: a pod on a node that registers only after the listing
would be missed.

`WholeInv` is about the first change. A look `W` at the whole cluster maps its nodes to
what they are like. Before any change, what was read agrees with the look at the cluster as
it is (`Agrees(Now)`). After one change there are two cases. If the changed node had not
been read yet, the call still agrees with the cluster as it is. If it had been read, or is
not in the list, or is gone, the call agrees with the cluster as it was, and what it will
still read is as it was, too (`SawWhole`). A node whose attributes were fetched and whose
pods were not is in between: a change of its pods belongs to the first case, a change of
its attributes to the second. Either way the nodes that `Decide` sees are those of one look, so its
verdict is one that `instantVerdicts` has. With a second change both can happen in one
call, and the property does not hold.

### The service

| theorem | property |
|---|---|
| `ServesWithMatchingCredentials` | `CredentialsBelongTogether` |
| `NoExitWithoutReason` | `ExitHasAReason` |
| `ServesWithTimeouts` | `TimeoutsAreSet` |
| `UpdatesAreHandledByTheProxy` | `SizeUpdatesAreNotForwarded` |
| `AnswersFollow` | `AnswerFollowsTheBackend` |
| `BreaksAreNoticed` | `BrokenBodyIsNoticed` |
| `ResultsAreWhole` | `ResultIsWhole` |

`ServiceInv` is the conjunction of `TimeoutsFit` (how far each timeout has been
defaulted), `CredentialsFit` (what the search through the kubeconfig has found so far
belongs together, for any iteration order of its maps) and `ExchangeFits` (the answer so
far is what has arrived; an error comes before the response or before the end of its
body). The configurations, kubeconfigs, lengths of bodies and the
length of the error text are arbitrary.

### The quasi scheduler

| theorem | property |
|---|---|
| `ConservesPods` | `PodsAreConserved` |
| `FeasibleIsPlaceable` | `FeasibleMeansPlaceable` |
| `QuickCheckNeverErrs` | `QuickCheckIsNecessary` |
| `LonePodDecidedExactly` | `LonePodIsDecidedExactly` |
| `PanicIsExplained` | `PanicMeansNoAllocatable` |

The invariant `EvacuationInv` says that there is a function from the pods that are done to
nodes which Kubernetes would accept, and that the scheduler's copies of the nodes reflect
it (`IsProgress`). When all pods are done, that function is the placement. The copies are
records that no longer are the nodes of the input, so the function from a node to its copy
is part of the statement.

Requests are sums over sets of pods. What is needed of them (a sum grows by what is added,
and may be taken apart in any order) is an induction over finite sets. It is done without
an induction theorem: lemma `SmallestSubset` gives a smallest subset for which a claim
fails, because strict inclusion is well-founded on the subsets of a finite set, and
removing one element contradicts that it is the smallest. `SomeNodeIsLeastLoaded` uses the
same lemma to show that `leastLoadedNode` finds a node as soon as one has allocatable
resources.

### Only model-checked

- Liveness: `EveryUpdateIsAnswered`, `DrainReturns`, `ExchangesEnd`. The prover does not
  handle fairness.
- The counterexamples of `all_workers`, `pass_through` and `panic` are about particular
  instances and need no proof.

## Not modelled

The samples and the generated mocks; the command-line flags; the contents of
certificates; the composition of error texts (`ErrorWithCause`), `String` methods and
logging.

What remains in the sources of the modelled parts is of this kind: error types with
their texts, interfaces, imports, and the generic filters over slices, which appear here
as set comprehensions.
