# Verification of aws-admission-controller

TLA+ models, TLC runs and TLAPS proofs for the admission controller in `src/`.
The controller is a set of mutating and validating webhooks that the Kubernetes
API server calls when somebody creates or updates one of the custom resources
(CRs) of a tenant cluster. It keeps no state of its own, apart from one list of
zones. What makes it hard is that its rules relate *several* CRs, that every
webhook decides from what it reads of the other CRs at some moment, and that
the API server writes the object later, or calls no webhook at all while none
answers.

## 1. Inventory

### The parts and how they interact

```
client --request--> API server --1. mutating webhook--> mutator  --reads--> other CRs
                        |       <----- patch / error --     |
                        |                                   +--writes--> AWSControlPlane (scale-up only,
                        |                                                through the API server and
                        |                                                its webhooks again)
                        +--2. validating webhook--> validator --reads--> other CRs
                        |       <--- allowed / denied ---
                        +--3. write (if the object is still the one the request was made from)
```

| Component | Source | State | Operations | What is hard about it |
|---|---|---|---|---|
| G8sControlPlane webhooks | `pkg/aws/v1alpha3/g8scontrolplane` | none; one goroutine for each request, with the copy of the AWSControlPlane it read | default replicas, labels, infrastructure reference; scale-up from 1 to 3 masters, which updates the AWSControlPlane with retries; check replicas against zones | nested request from inside a handler, lost answers, retries with an old copy, exit of the process |
| AWSControlPlane webhooks | `.../awscontrolplane` | the list of zones | default zones and labels; check number, names, distinctness and order of zones | zones and replicas are in two CRs; checks on create and update differ |
| Zone pool | `.../common_handler.go`, `getHAavailabilityZones` | `validAvailabilityZones` of each mutator, shared by all goroutines | shuffle, sort, repeat | in-place shuffle and sort without a lock |
| NetworkPool webhook | `.../networkpool` | none | check that blocks do not overlap | check of a list, then a write; failing Lists |
| Cluster webhooks | `.../cluster` | none | default release and operator; change of CNI; uniqueness, upgrade rules, schedule, IPAM mode | long sequences of updates by several clients; status of other CRs that lags |
| AWSCluster webhooks | `.../awscluster` | none | default labels, master zone, credentials, DNS, CIDR; move the annotation for unhealthy nodes; check organization and annotations | labels copied from a CR that may not be there yet; fields filled in once and read by other webhooks later; updates, finalizers included, that depend on what may be gone |
| MachineDeployment, AWSMachineDeployment webhooks | `.../machinedeployment`, `.../awsmachinedeployment` | none | copy labels, default zones; node pools of deleted clusters; match of the pair; scaling limits | order of creation, deletion meanwhile; CRs stored without labels |
| Fetchers and label helpers | `.../common*.go` | none | List and pick one CR; copy a label | an error of a List is reported as "not found" |
| HTTP handlers | `pkg/mutator`, `pkg/validator` | none | decode, call, answer | panics, timeouts |
| Server | `main.go` | none | routes, TLS, exit on SIGTERM | handlers are not waited for |
| Webhook configuration | `helm/.../webhook.yaml` | - | failurePolicy Ignore, sideEffects NoneOnDryRun, create and update only | every check may be skipped |
| Configuration, metrics, keys, labels | `config`, `pkg/metrics`, `pkg/key`, `pkg/label` | - | pure | nothing |

What makes each part correct:

* **Control plane.** The two CRs agree once a request is over; only admissible
  numbers and zones are stored; a master that stays is never moved to another
  zone; a scale-up never overwrites zones it has not read, and leaves at worst
  more zones than masters; a dry run writes nothing; every handler and every
  request ends.
* **Zone pool.** Drawn zones are what the callers assume; the list keeps its
  zones.
* **NetworkPool.** Blocks do not overlap each other or the networks of the
  installation; a pool never blocks its own update.
* **Cluster.** One name in one namespace; releases go up major by major; the
  operator follows the release; Cilium starts with a usable pod network and
  beside kube-proxy; the IPAM mode stays; schedules lie ahead; a stored Cluster
  can be rewritten as it is.
* **Creation.** No order of creation blocks itself; copied labels agree and never
  run ahead of the Cluster; no node pool is created for a Cluster that was already being deleted.
* **The life of a cluster.** What a mutator filled in once stays as other
  things change; what a client chose last wins; the two CRs of a control plane
  do not block each other; and since the API server also asks the webhooks when
  an operator removes a finalizer, a cluster that was deleted can go away.

The hazards behind these properties are listed, each at its line, in
`PROJECT.json`.

## 2. Modules

| Module | Models | Variables and their counterpart |
|---|---|---|
| `ControlPlane` | G8sControlPlane and AWSControlPlane of one cluster | `store`: the two CRs in the API server; `req`: requests of clients and of handlers; `hdl`: the goroutine that serves a scale-up (copy read, retries) |
| `AvailabilityZonePool` | `GetNavailabilityZones`, `getHAavailabilityZones` at the level of loads and stores | `pool`: `validAvailabilityZones`; `call`: locals and program counter of each goroutine |
| `NetworkPool` | the NetworkPool validator | `pools`: stored blocks; `req`: requests |
| `Cluster` | Cluster mutator and validator, create and update | `cluster`, `aws`, `releases`: stored CRs; `req`: requests; `now`: the clock the schedule is compared with |
| `Creation` | creation of all six kinds of a cluster in any order | `plan`: what clients apply and what happens meanwhile; `store`, `deleting`: stored CRs; `req`: requests |
| `Lifecycle` | updates and deletion of all six kinds, with the AWSCluster and node pool webhooks | `plan`: what there is, what clients do, what may fail; `store`, `marked`: stored CRs and their deletionTimestamps; `org`, `secret`: the Organization and its credential secret; `req`: requests |
| `ZoneChoice` | the zones a mutator may choose | - |
| `ZoneDraws` | abstract: what callers of the zone pool are promised | `asked`, `answer`: the calls; `calm`: no overlap yet |
| `AddressPlan` | abstract: what the NetworkPool webhook promises | `pools`: stored blocks; `trust`: the degree of the promise |
| `ControlPlaneProofs`, `ControlPlaneSafety`, `NetworkPoolProofs`, `CreationProofs`, `LifecycleProofs`, `ClusterProofs`, `ZonePoolProofs`, `ZoneDrawsProofs` | theorems about the modules | - |
| `MC...` | values for TLC | - |

`ControlPlane` composes the webhooks of two kinds with the API server that
calls them, including the call from inside a handler. `Creation` composes all
mutators that copy labels from each other, `Lifecycle` all webhooks that look at
another CR when one is changed or deleted. One module per interaction rather
than per Go package: a webhook alone is a function of what it reads.

### Abstract specifications

* `AvailabilityZonePool` implements `ZoneDraws` (property `AnswersAsPromised`,
  an INSTANCE of `ZoneDraws`; theorem `DrawsAsPromised`). In `ZoneDraws` there is no shared list: a call is
  asked, answered in one step with any element of `GetNavailabilityZones` or
  `GetHAavailabilityZones`, and returns. `asked` and `answer` are read off the
  program counter and locals of the goroutine, `calm` is `~disturbed`. These two
  operators live in `ZoneChoice`, which `ControlPlane` and `ZoneDraws` share: the
  draws `ControlPlane` assumes are the very ones the pool is shown to answer
  with, as long as no two calls that work on the list overlap. What remains
  after an overlap (`Possible`) is stated there too.
* `NetworkPool` implements `AddressPlan` (property `KeepsAddressPlan`, theorem
  `ImplementsAddressPlan`). `AddressPlan` has no requests, Lists or webhooks:
  one pool at a time is written or removed, and what is written fits at the
  moment it is written, to a degree that never gets stronger. `trust` is read
  off `lapses`: all, until a List fails or a write overtakes another; none once
  a validating call was skipped.

### One request

All request modules share a shape. A request goes through `mutating`,
`validating` and `writing` and then ends; `Submit` (or `Apply`) is the client,
`Mutate` and `Validate` are the handlers, `Write` and `Refuse` the API server,
which compares the resourceVersion (`fresh`: no write since the request read
the object). A mutator or validator that reads one other CR is one step, from
the read to the answer: the answer depends on nothing else that others can
change. It is more than one step where it reads or writes more than once:

* the scale-up (`MutateG8sUpdate`, `CallUpdate`, `RetryUpdate`,
  `AnswerUpdate`): the read of the AWSControlPlane, each attempt of
  `CtrlClient().Update`, the admission of this nested request by the webhooks
  of AWSControlPlanes, and the answer are steps between which everybody else
  runs;
* `Creation`, where the AWS kinds read the Cluster and then the AWSCluster;
* `AvailabilityZonePool`, where each load and each store is a step.

In `Lifecycle` the removal of finalizers is a request like any other (`Finalize`):
it is an UPDATE and passes through both webhooks. A mark on a deleted CR
(`Delete`) is not, since no webhook is registered for DELETE. There is one
request at a time for each kind, because of two for the same CR the API server
refuses the later one; what interleaves are requests for different CRs. An
update that was admitted before its CR was marked is refused by `Write`.

### Failures

* `SkipMutator`, `SkipValidator`: failurePolicy Ignore. A handler that timed
  out goes on without anyone waiting.
* `listError`: a failing List, which the fetchers report as `notFoundError` and
  their callers take for "there is none". It is a second outcome of the read
  (`Fetched`, `Listed`); `readError` and `Fetch` in `Lifecycle`. That a List of
  secrets fails or finds several is the secret `None`, with the same answer.
* In `Lifecycle` the Organization and the secret may disappear at any time, and
  a client may write an AWSCluster without the fields that were filled in
  (`Replace`).
* `lostReply`: the nested update is written but its answer is an error.
* `Crash`: the process exits while a handler runs, also on SIGTERM, since
  `ListenAndServeTLS` returns at once.
* `Panic` (`Cluster`): net/http closes the connection and the API server skips
  the call.

### History variables

Some properties only hold while the validator is asked, and the code is
deployed so that it may not be. Instead of leaving these failures out, the
models record them, and the properties name the condition:

* `unvalidated` (`ControlPlane`): a validating call was skipped;
* `lapses` (`Cluster`): a call was skipped (`skipMutator`, `skipValidator`), or a
  Cluster was created in one namespace while a create in another one was between
  its validation and its write (`overtaken`). A mutator that panics is not a
  lapse: nothing but the code is to blame;
* `lapses` (`NetworkPool`): a List failed (`listError`), a call was skipped
  (`skipValidator`), or a pool was written while another one was between its
  validation and its write (`overtaken`);
* `lapses` (`Lifecycle`): a fetch failed, a call was skipped, a CR of a control
  plane was written between the validation and the write of the other one
  (`overtaken`), or a client left out fields that were filled in (`leftOut`);
  `choice` is the value a client last chose for unhealthy nodes;
* `disturbed` (`AvailabilityZonePool`): two calls overlapped, at least one of
  which works on the shared list (two calls that repeat the list work on their
  own copies and may overlap).

What holds without such a condition is therefore known to survive:
`HandlerOnlyScalesUp`, `OperatorMatchesRelease`, `KubeProxyKept`, `FilledInOnce`
and `ChoiceKept` with skipped validators, `Possible` answers with any overlap,
`ReservedUntouched` with failing Lists and overtaking writes,
`CiliumHasPodNetwork`, `ReleaseKnown`, `NoLateNodePools`, `NeverAheadOfCluster`,
`NeverBothApart`,
`MasterZonesAgree` and `WorkersGo` with skipped mutators, `WorkersGo` with
failing Lists and without the Organization.

### What is abstracted

Zones are numbers in their sort order. A release is ten times its major version
plus the minor one, and stands for the operator versions it names; `19.0.0-alpha1`,
`25.0.0-alpha1` are thresholds. CIDR blocks are a masked address with the set
of addresses. Pod networks of a Cluster are names with a relation `Clash`.
Selecting CRs by label and `IsOrgNamespace` are left out (one cluster, one
organization for each namespace; in `Lifecycle` one organization). A batch size
is a count or a percentage, an annotation for unhealthy nodes is "true", "false"
or absent, and control plane zones are, in `Lifecycle`, a number and the first
zone.

## 3. Runs

12 runs; the passing ones take from seconds to a little over two and a half minutes with
two workers.

| Run | Question | Checks | Bounds |
|---|---|---|---|
| `cp_lifecycle` | Do the two CRs agree once a request is over, whatever a client creates, scales, deletes, in releases before and after HA masters? | `TypeOK`, `PairConsistent`, `DryRunHasNoSideEffects` | 1 client, 3 zones, 4 replica values, 8 zone lists, 3 labels |
| `cp_zones` | What can concurrent changes of zones and scale-ups leave in the API server when anything fails? | `StoredAdmissible`, `ScaleUpAdmissible`, `MastersStay`, `HandlerOnlyScalesUp` | 2 clients, 3 zones, 1 retry |
| `cp_scale` | Does a scale-up end, and never with more masters than zones? | `MastersNeverExceedZones`, `HandlersEnd`, `RequestsEnd` | 2 clients, 2 zones, 3 retries as in the code |
| `pool_concurrent` | When are drawn zones as assumed? | `AnswersAsPromised`, `PoolKeepsZones` | 2 goroutines, 2 zones, 1 to 3 zones asked for, scale-ups |
| `pool_race` | Does the list keep its zones? (it does not) | `PoolHasZones` | 2 goroutines, 3 zones |
| `np_pools` | What can make two pools, or a pool and a reserved network, overlap? | `ReservedUntouched`, `PoolsDisjoint`, `OwnRangeAllowed`, `KeepsAddressPlan` | 2 clients, 3 pools, 5 blocks of 4 bits and a malformed one |
| `cl_create` | One name, one namespace, one organization? | `NameUnique`, `OrganizationKept` | 2 clients, 2 namespaces, 4 releases |
| `cl_upgrade` | Which rules of an upgrade hold for interleaved requests, and which survive a skipped validator? | `OperatorMatchesRelease`, `MajorByMajor`, `ModeFixed`, `KubeProxyKept` | 2 clients, 3 releases, 2 modes |
| `cl_cni` | Does Cilium ever start without a pod network, and does a stored Cluster stay acceptable as time passes? | `CiliumHasPodNetwork`, `ScheduleAhead`, `NoOpAdmitted` | 1 client, 5 kinds of AWSCluster, 7 pod networks, clock 0..2 |
| `cl_no_awscluster` | Is kube-proxy kept without an AWSCluster? (it is not) | `KubeProxyKept` | 1 client |
| `cr_creation` | Does every order of creation end, with labels that agree, and what can an upgrade, a deletion or a skipped mutator meanwhile leave behind? | `LabelsAgree`, `LabelsFromOneCopy`, `NeverAheadOfCluster`, `ReleaseKnown`, `NoLateNodePools`, `AllCreated` | 6 CRs (3 or 5 of them where the Cluster is deleted or calls are skipped), 2 releases |
| `lc_life` | What do updates and the deletion of a cluster keep, and does a deletion end? | `NeverBothApart`, `MasterZonesAgree`, `ChoiceKept`, `FilledInOnce`, `DeletionEnds`, `WorkersGo` | up to 3 CRs of one cluster, 2 zones, 2 releases, 9 plans of what clients do and what fails |

**Why the bounds are enough to be interesting.** The conflicts in this code are
between two requests, or a request and a nested one: two clients give four
requests at a time (each client has one of its own and one its handler makes).
Replicas and zone lists include the ones the defaulting looks for (unset), the
valid ones, invalid ones, a moved and a repeated zone. The pool uses two zones
because that is where `getHAavailabilityZones` uses the shared list, and asks
for fewer, as many, and more zones than there are. The blocks include one that
contains another, one inside a reserved network, one that contains a reserved
network, and neighbours. In `cp_lifecycle` one client
is on purpose: `PairConsistent` is what the code keeps for requests one
after the other (section 5 says how it fails for two at a time). In `cl_cni` what
runs beside the client are the clock and the operators. `lc_life` has
a plan for each group of CRs whose webhooks read each other: the two of a
control plane, an AWSCluster with an AWSControlPlane of a release without HA
masters, an AWSCluster alone, and a Cluster with a node pool; the kinds of
another group are not read, and would only multiply the states.

**Named bounds.** `MaxRetries` is the code's 3 in `cp_scale` and 1 in
`cp_lifecycle` and `cp_zones`, where more would only repeat the attempts; `MaxNow` bounds the clock; `Soonest` and `Latest` stand
for 16 minutes and 4380 hours; a client has one request in flight, and waits
for its handler to end; in `Creation` a deleted Cluster is not created again.
In `Lifecycle` there is one request per kind, a deleted CR is not applied again
and is changed only to give it a release, the number of replicas of a
G8sControlPlane does not change after its creation (`ControlPlane` has that), and
the old annotation for unhealthy nodes is not in the manifest of a release that
has the new one (section 5).

**Fairness.** `FairSpec` of `ControlPlane` has weak fairness of each handler
(the Go runtime runs every goroutine) and of each request (the API server goes
on with every request it has accepted, its webhook timeouts included). It has
none for failures and none for clients. `RequestsEnd` and `HandlersEnd` need no
more. `FairSpec` of `Creation` has weak fairness of each kind, clients
included: it says that clients try again, which is what "can be created in any
order" means for a user who applies a directory of manifests or a GitOps
controller. With skipped mutators there would be no such progress (a CR without
labels is denied again and again), so `AllCreated` is about the plans without.
`FairSpec` of `Lifecycle` has weak fairness of `Serve(kind)` (the API server and
its webhooks answer, and the operator of a kind, which reconciles forever, tries
again to remove its finalizers) and strong fairness of `Rescue(kind)`: somebody
who finds a CR without a release gets to add one between two attempts of the
operator. Nothing else needs a client; failures, edits and deletions have no
fairness, and the liveness properties begin with "when all have been deleted".

**Deadlock** is checked except in `cl_cni` (a deleted Cluster leaves nothing to
update) and in the runs of `Creation` and `Lifecycle` (everything is created, or gone).

**Mutants.** Next to a definition there may be a variant named for the mistake
it makes, marked "Mutant": each property is checked to be violated when the
variant takes the place of the definition.

## 4. Proofs

All theorems hold for every value of the constants that satisfies the named
assumptions of the modules, which TLC evaluates in every run. Where a property
holds for some inputs only, as some rules of the webhooks are for some requests
only, the theorem has a hypothesis: an operator on constants with a name, next to
the theorem. It says of the inputs what the bounds of the run that checks the
property say of them, so that the run is an instance of the theorem; each is
satisfied there. Proofs go from an effect to an invariant: a first lemma of the
module (`Steps`, `StepEffects`, `PoolSteps`) says what a step may do, and the
invariants are proved from that and do not look at the actions again.

### `ControlPlaneProofs`

* `TypeCorrect`: `Spec => []TypeOK`. Types are not inductive alone: when a
  handler builds its nested request, the new object comes from the copy it
  holds and the old one from the store, and only a copy marked `fresh` is the
  stored one. `CopiesCurrent` says so, and `TypeInv == Typed /\ CopiesCurrent`
  is inductive. The useful part of the type is that the copy a handler holds
  has exactly one zone, so `AvailabilityZones[0]` exists at every attempt,
  retries included.
* `ScaleUpIsSafe`: `Spec => HandlerOnlyScalesUp`. The invariant is
  `NestedScalesUp`: from its creation to its end a nested request is an update
  from one zone to three that start with that zone; in particular the mutator
  of AWSControlPlanes, which runs in between, leaves its zones alone. With
  `CopiesCurrent` the write happens only if the zone is still the stored one.

Assumptions: zones are a non-empty finite set of numbers, `MaxRetries` is a
natural number, inputs and initial stores are typed, `None` is no object.

### `ControlPlaneSafety`

`StepEffects` says what a step may do to a request (leave it, end it, let it
through mutation or validation, submit it, or send it on behalf of a handler), to a
handler, and to the store. The invariants on top of it:

* `AdmitInv`: until a validating call is skipped, requests that may be written, the
  objects they replace, and what is stored have been admitted. It gives
  `OnlyAdmissibleIsStored`, `MastersAreNotMoved` (the object replaced is the one the
  validator compared with, since only a `fresh` copy is written) and
  `ScaleUpPasses`, for which `HAZonesAreValid` shows that what `getHAavailabilityZones`
  draws for an admitted zone passes every check, for one, two, or more zones of the
  installation. Hypothesis: `InitiallyAdmissible`.
* `CoverInv`: a request that may be written asks for no more masters than there are
  zones, and only handlers write AWSControlPlanes. `ZonesComeFirst` follows: the
  number of zones never falls, so it does not matter how late a G8sControlPlane
  is written, nor whether its handler crashed or its answer was lost. Hypotheses:
  clients leave the zones alone (`ZonesLeftAlone`), validators are called and can
  read the other CR (`ValidatorsSee`), `InitiallyCovered`; those of `cp_scale`.
* `PairInv`: `PairAgrees` has the longest invariant, because for some steps the two
  CRs do not agree: between the nested write and the write of the request that
  waits for it (`HalfWay`). The invariant says for whom a handler works, that the
  request waiting for it is still current, and that it will be admitted and written.
  Hypotheses: `OneClient`, `NoFaults`, `ZonesNotUpdated`, `InitiallyMatched`; those of
  `cp_lifecycle`. None can be dropped: TLC finds `PairConsistent` violated with two
  clients, with a failure, or with updates of the zones.
* `DryRunsAreDry` needs no hypothesis. The reason is in two places: a dry run is
  turned down before a handler starts, and a client submits nothing while its handler
  works.

### `NetworkPoolProofs`

The lemma `Steps` reduces every step to one of three effects (no pool written,
one written, one deleted); the theorems use only these.

* `ReservedSafe`: `Spec => []ReservedUntouched`. The invariant: until a
  validating call is skipped, whatever is stored or about to be written is
  clear of the reserved networks. Failing Lists and overtaking writes do not
  matter, since reserved networks are not read from the API server.
* `PoolsStayDisjoint`: `Spec => []PoolsDisjoint`. The invariant adds that,
  without a lapse, a validated request stays clear of all other pools until it
  is written. It is this theorem that shows the list of three lapses to be
  complete, for any number of clients.
* `OwnersKeepTheirRange`: `Spec => []OwnRangeAllowed`, a consequence of both.

* `ImplementsAddressPlan`: `Spec => KeepsAddressPlan`. Initial states map to
  initial states; by `WrittenFits` what a `Write` stores fits at the degree of
  the promise after the step, which is where the two invariants above are
  needed, and by `DegreeWeakens` no step strengthens the promise.

They rest on `IntersectLemma`: comparing first addresses is enough to find an
overlap, because blocks are nested or disjoint (`BlocksNest`, which TLC
evaluates for all blocks of 4 bits).

### `CreationProofs`

One invariant, `Inv`, carries the first three theorems and the last two build on it.
`Fine` says what an object of
a request or of the store is: typed, for a Cluster with no other operator than
that of its release, and for a G8sControlPlane or MachineDeployment without own
labels with two labels of one copy. `RequestFine` adds what validation gives: a
release, and for a node pool that the Cluster was not being deleted when the
request came. A step changes one request or one CR, so it is enough that the
mutators keep `Fine` (`FirstReadLemma`, `MutateOperatorVersionLemma`) and that
`Proceed` carries it on (`ProceedLemma`).

* `OneCopy`: `Spec => []LabelsFromOneCopy`. It needs that the two labels of the
  Cluster agree at every moment at which they are read, which is what an upgrade
  in one write gives.
* `AlwaysReleased`: `Spec => []ReleaseKnown`.
* `LateNodePoolsDenied`: `Spec => NoLateNodePools`. A request that came after the
  deletion keeps `late`, and nothing resets `deleting`, so that the check finds
  the Cluster being deleted however late it is.

* `LabelsAreCopied`: `Spec => []LabelsAgree`. A label is copied from the Cluster or
  from the AWSCluster, which has it from the Cluster. `LabelInv` says at each step of a
  request which labels are settled: `FirstReadSettles` and `SecondReadSettles` are
  about the two reads of the AWS kinds, between which other CRs are created.
  Hypothesis `LabelsOfTheCluster`: the Cluster is of no CAPI release, whose labels the
  webhook leaves alone, and an AWSCluster that comes with labels comes with those of
  the Cluster; as in the plans of `cr_creation`.
* `LabelsNeverAhead`: `Spec => []NeverAheadOfCluster`, with upgrades and skipped
  mutators. During an upgrade copied labels may lag, and the two of an AWS CR may
  differ; none runs ahead of the Cluster. `AheadInv` bounds the labels of requests and
  of stored CRs by `Bound`, the release of the Cluster or, before it is there, the one
  it is going to get; the bound only grows (`BoundGrows`), and what a mutator reads is
  below it at each of its two reads (`FirstReadNotAhead`, `SecondReadNotAhead`).
  Hypothesis `AWSClusterNotAhead`: an AWSCluster that comes with labels, which other CRs
  copy, does not come with ones above those of the Cluster.

Assumptions: manifests are objects of the six kinds, and a client that names the
operator of a Cluster names the one of its release.

### `LifecycleProofs`

`Steps` reduces every step to one of four effects on one kind (a request came,
went on, was denied, was written) or to none on CRs and requests. Of the objects
only AWSClusters need a type, which every edit and the mutator keep (`Keeps`); an
AWSControlPlane needs no more than its two fields about zones.

* `PairNeverBothApart`: `Spec => []NeverBothApart`. The property alone is not
  inductive: `Pending` adds that an object which has been validated and not yet
  written still has the replicas (G8sControlPlane) or the label (AWSControlPlane)
  of the other CR. Only a write of that other CR can break it, and that is the
  lapse `overtaken`.
* `FilledInStays`: `Spec => FilledInOnce`. The invariant is that a request which
  does not replace the AWSCluster has the stored values of the fields, or fills
  in unset ones, from its first to its last step (`Keeps`).
* `MasterZonesStayTogether`: `Spec => []MasterZonesAgree`. The property alone is
  not inductive, for three reasons, and `MasterInv` adds what is missing. A zone
  is drawn for the AWSCluster only while it has none, so the zone the
  AWSControlPlane copied must be one that `FilledInv` keeps: the validator of
  AWSControlPlanes denies an unset one, also if it was copied from an AWSCluster
  whose mutator had been skipped. An AWSCluster that has gone must not come back
  with another zone: `FinalizeInv` says that it was deleted, and a deleted CR is
  not applied again. And a request must hold the zone at every step between the
  copy and the write (`Settled`), during which the AWSCluster may be changed.

* `ChoiceStays`: `Spec => []ChoiceKept`. The invariant follows what an AWSCluster
  says (`Effective`: the old annotation goes before the new one) through each request:
  one that chooses must arrive with the choice, and one that does not must carry on
  what the stored AWSCluster says until it is written or refused (`RequestChoice`).
  Hypothesis `AlphaBeforeStable`: a manifest has the old annotation only in a release
  that reads it. Without it TLC finds the disagreement named in section 5.

Assumptions: manifests are objects of the six kinds; one of an AWSCluster has its
fields, one of an AWSControlPlane those about zones, set or not; `None` is no choice,
and releases are compared with a number, `FirstStable`.

### `ClusterProofs`

`RequestSteps` and `StoreSteps` reduce a step to what happens to each request and to
each Cluster (came, went on, ended; written by a request or deleted), and `Replaced`
says that an update writes over the object it was made from.

* `NamesAreUnique`: `NameInv` adds to the property that a create which has been
  validated finds no Cluster of its name elsewhere; a write that changes this is the
  lapse `overtaken`. So the two lapses named in the property are all there are.
* `MajorsInOrder`, `CiliumStartsSafely`, `OrganizationStays`: from `JudgedInv`, which
  says that the validator has judged what may be written, against the object it
  replaces. The pod network of `CiliumStartsSafely` is clear of both networks of the
  AWSCluster, which are inputs that do not change: that of its pods and that of its
  nodes (`NodeNetwork`: the block of its NetworkPool, or the default one).
* `KubeProxyStays`: `KubeProxyInv` says that an upgrade to Cilium carries the
  annotation from the mutator to the write. It needs `AWSClustersPresent`:
  `cl_no_awscluster` shows what happens without.
* `OperatorFollowsRelease`: `OperatorInv`; the operator of an object is that of its
  release wherever the object is. Needs `AWSClustersPresent` too (the mutator panics
  otherwise) and clients that leave the operator to the webhook.
* `SchedulesLieAhead`, `StoredIsAdmitted`: `AcceptableInv`: what is stored would be
  admitted again, as time passes, releases are deprecated and operators lag. Needs
  `NoCreation`: the validator of creations lets more pass (section 5).
* `ModeIsSettled`: for each Cluster and mode, `InMode` is never left. It needs that
  Cilium starts with a major release, so that no upgrade can go below it.

`NoCAPI` and `AllRestricted` are the inputs for which the upgrade rules are meant
(section 5 names what other inputs can do). `cl_create`, `cl_upgrade` and `cl_cni`
satisfy the hypotheses of the theorems about their properties.
Assumptions: objects clients write have the fields of a Cluster, releases are numbers.

### `ZonePoolProofs`

* `PoolKeepsItsZones`: `Spec => []PoolKeepsZones`. The invariant, `PoolInv`, speaks
  of the one call that works on the list, until a call disturbs it: where its loops
  are (`Positions`), and what it has loaded (`Contents`): between the two stores of a
  swap the list lacks a zone, and it is complete once the entry that is held is
  stored. `SwapKeepsRange` is the step before: a swap of two entries keeps the set
  of zones. Every step of every call is a lemma; those of calls with lists of their
  own leave the shared list alone (`PrivateStep`).

Assumptions: the zones are a non-empty finite set, the empty string is no zone, and a
scale-up works on the list with two zones only.

### `ZoneDrawsProofs`

* `DrawsAsPromised`: `Spec => AnswersAsPromised`, the refinement of `ZoneDraws`, so that
  what `pool_concurrent` shows for two zones holds for any number of zones, of zones
  asked for and of goroutines. A start maps to `Ask`, the load of the last entry to
  `Reply`, a return to `Return`, every other load or store to a stutter (`DrawsNext`).

The invariant, `DrawsInv`, says two things of each call `r` and the list `L` it works
on. `Counters` is what survives a disturbance: loops and positions are within the list,
and what was loaded are zones, hence the number and the names of the default zones.
`Calm` holds until a disturbance:

* `Sorts`: the list has each zone at most `Copies(n)` times, counted with the entry that
  is held between the two stores of a swap (`Whole`), and the entries up to `i` are
  sorted but for the one at hand, which may be less than some before it (`SortedBut`).
  `SwapKeepsPlaces` and `SwapKeepsOrder` are the two facts about a swap, and `InPlace` is
  why a comparison that fails ends the inner loop.
* `Repeats`: the list that is being repeated is `t` times the pool and its first `j`
  entries, so that it has each zone `t` or `t + 1` times; when it is long enough `j` is 0
  and `t` is the number of copies promised (`CopyOne`, `CopiesLemma`).
* `Finds`: a scale-up has found another zone than that of the running master, or has
  seen only that one so far; with two zones, all of them in the list, it finds one.

The proof has a lemma on one record and one list for each step (`DrawKeeps` to
`ScaledUpKeeps`); calls come in only where the list of one is written by another
(`OthersKeep`), and there `Alone` of `PoolInv` says that nobody is disturbed.
Assumptions: those of `ZonePoolProofs`, and that zones are numbers and callers ask for at
least one.

### Only model-checked

Liveness (`HandlersEnd`, `RequestsEnd`, `AllCreated`, `DeletionEnds`, `WorkersGo`)
is beyond the prover. Every other property of a passing run has a theorem.

## 5. Where the code differs from what it says

Two runs show a violation:

* `pool_race`: `randomAZs := azs` shares the list of the mutator. Two shuffles
  or sorts that interleave overwrite an entry; the zone is lost until the
  process restarts (`common_handler.go:35`).
* `cl_no_awscluster`: `DefaultCiliumCidrOnV18Upgrade` only notes that the
  AWSCluster was not found and then uses it (`mutate_cluster.go:329`). The
  panic makes the API server skip the call, and the upgrade is written without
  the annotation that keeps kube-proxy.

Other disagreements the models contain; each follows from an action of the
model, and a passing property above is stated so that it does not claim the
opposite:

* Two creates at the same time, of the two control plane CRs with different
  numbers, of overlapping NetworkPools, or of Clusters of one name in two
  namespaces, are all admitted: the check reads a list, the write comes later
  (`README.md:55`, `:92`, `:87`).
* An update of the AWSControlPlane is not compared with the replicas, only a
  create is (`README.md:67`, `validate_awscontrolplane.go:63`). The next update
  of the G8sControlPlane is, so `PairConsistent` is checked without updates of
  the zones.
* `FetchAWSCluster` tests an API error with the `IsNotFound` of this package,
  so the branch of `MutatePreHA` that tolerates a missing AWSCluster is dead
  and the AWSControlPlane is denied (`mutate_awscontrolplane.go:197`).
* With two zones, two scale-ups that overlap can answer with an empty second
  zone (`mutate_g8scontrolplane.go:330`).
* A List of NetworkPools that fails is taken for an empty one
  (`validate_networkpool.go:98`).
* A Cluster may be created with a scheduled release that is not above its own
  (`README.md:85`); one that names a CAPI release skips every check, for
  restricted users too (`README.md:81`), which is why `MajorByMajor` is checked
  below the first CAPI release; the condition of the AWSCluster lags behind an
  upgrade, so a second one may be admitted (`README.md:80`).
* A G8sControlPlane with neither release label nor infrastructure reference is
  always denied: `MutateInfraRef` parses the release of the object as it came
  (`README.md:23`, `mutate_g8scontrolplane.go:220`). The plans of `cr_creation`
  in which everything is created have manifests with one of the two.
* An AWSMachineDeployment that comes before its MachineDeployment is not
  compared with it (`README.md:73`).
* Updates of AWSClusters and AWSControlPlanes look for the Organization, which is
  right for a change but also concerns the removal of finalizers
  (`validate_awscluster.go:115`, `validate_awscontrolplane.go:83`): these CRs
  cannot go away once the Organization has. Likewise an AWSControlPlane of a
  release without HA masters cannot, once its AWSCluster has
  (`mutate_awscontrolplane.go:195`). `Stuck` names both; `WorkersGo` says that the
  Cluster and its node pools are not concerned.
* A MachineDeployment stored without a release has all its updates denied until
  somebody adds one (`Rescue`). A Cluster stored without one, which takes a skipped
  validator, has even that update denied: the validator parses the release of the
  stored object (`validate_cluster.go:508`), and so does the mutator, which panics
  (`mutate_cluster.go:162`).
* A client that replaces an AWSCluster without the fields that were filled in
  has the zone of the master drawn again, and perhaps not the one of the
  AWSControlPlane (`mutate_awscluster.go:283`, `leftOut`).
* The old annotation for unhealthy nodes is moved to the new one by updates only
  (`mutate_awscluster.go:208`): an AWSCluster created with it in a new release
  says nothing to an operator that reads the new one until it is updated.
* `AWSClusterExists` is never called (`validate_awscluster.go:242`), so that
  AWSClusters of one name may be created in several namespaces, as Clusters may
  not.

## 6. Not modelled

Checks and defaults of one field of one object (instance types, description,
domain, region, pod network of an AWSCluster, CNI annotations, pause times, spot
percentages, names of zones of a node pool): a model of them would be the
checks again, and nothing interleaves with them. `Lifecycle` keeps the ones that
can hold back an update of a stored object (batch size, unhealthy nodes, scaling
limits). Infrastructure references and cluster names, which are copied from the
object itself. Parsing, metrics, flags and wiring. AWSClusters of one name in
several namespaces: every model has one cluster of a name, except for the
Clusters of `Cluster`. In `ControlPlane` the AWSCluster of old releases is an
input.

## 7. Plan

Done, in this order: `ControlPlane` with its first proofs, `AvailabilityZonePool`,
`NetworkPool` with its proofs, `Cluster`, `Creation`; then `Lifecycle`, the two
abstract specifications with their refinements, and the proofs of the second
refinement, of `Creation` and of `Lifecycle`; then the proofs of `Cluster`, of what
`ControlPlane` stores, of the zone pool and of its refinement.

Every safety property and both refinements are proved; liveness stays with TLC.
