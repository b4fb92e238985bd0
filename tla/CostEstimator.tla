---------------------------- MODULE CostEstimator ----------------------------
(***************************************************************************)
(* The Kubernetes cost estimator of cost-optimization/gke-shift-left-cost: *)
(* one execution of main.go, which loads the manifests of a folder, links  *)
(* each HorizontalPodAutoscaler to what it scales, sums monthly cost       *)
(* ranges, does the same for an optional previous folder, and writes the   *)
(* difference.                                                             *)
(*                                                                         *)
(* The documents of a folder arrive in the order that file and folder      *)
(* names give them (filepath.Walk), and names are the user's, so any order *)
(* is possible: each Load action takes an arbitrary document of `todo`.    *)
(*                                                                         *)
(* Units: CPU in millicores, memory in units of 10^6 bytes, prices per     *)
(* unit, and every cost is scaled by 100 so that the buffer of an HPA,     *)
(* computed with a percentage, is an integer.  float64 is taken as exact.  *)
(***************************************************************************)
EXTENDS Integers, Sequences, FiniteSets, SequencesExt

CONSTANTS Folders,       \* the folders a run may be given: sets of documents
          Conf,          \* the configuration file over ConfigDefaults
          CPUPrice, MemoryPrice, StoragePrice,  \* the catalog, per unit
          Nil            \* a nil pointer, an absent folder, no result

Scalable == {"Deployment", "ReplicaSet", "StatefulSet"}
HPAKind == "HorizontalPodAutoscaler"
VolumeClaimKind == "PersistentVolumeClaim"
SupportedKinds == Scalable \cup {HPAKind, "DaemonSet", VolumeClaimKind}

\* The group versions that k8s_decoder.go registers.
Registered ==
  ({"apps/v1", "apps/v1beta1", "apps/v1beta2"} \X (Scalable \cup {"DaemonSet"}))
  \cup ({"autoscaling/v1", "autoscaling/v2beta1", "autoscaling/v2beta2"} \X {HPAKind})
  \cup {<<"v1", VolumeClaimKind>>}

Decodable(d) == <<d.apiVersion, d.kind>> \in Registered

(***************************************************************************)
(* Builders: from a document to the simplified object that is kept.        *)
(***************************************************************************)
ConfigDefaults == [cpu |-> 250, memory |-> 64, increase |-> 200, nodes |-> 3]

\* A zero is taken for "not provided".
populateConfigNotProvided(conf) ==
  [p \in DOMAIN conf |-> IF conf[p] # 0 THEN conf[p] ELSE ConfigDefaults[p]]

buildAPIVersionKindName(apiVersion, kind, ns, name) ==
  <<apiVersion, kind, IF ns = "" THEN "default" ELSE ns, name>>

\* Mutant: the namespace is lost with the apiVersion.
buildKindName_noNamespace(key) == <<"", key[2], "default", key[4]>>

\* The key without its apiVersion, for an HPA that names none.
buildKindName(key) == <<"", key[2], key[3], key[4]>>

KeyOf(d) == buildAPIVersionKindName(d.apiVersion, d.kind, d.namespace, d.name)

FirstNonZero(a, b) == IF a # 0 THEN a ELSE b

OrDefault(p, default) == IF p = Nil THEN default ELSE p

buildContainer(c, conf) ==
  LET req == [r \in {"cpu", "memory"} |->
                FirstNonZero(FirstNonZero(c.requests[r], c.limits[r]), conf[r])]
      lim == [r \in {"cpu", "memory"} |->
                FirstNonZero(c.limits[r], req[r] + (conf.increase * req[r]) \div 100)]
  IN [requests |-> req, limits |-> lim]

buildContainers(d) ==
  LET conf == populateConfigNotProvided(Conf)
  IN [i \in DOMAIN d.containers |-> buildContainer(d.containers[i], conf)]

\* The last CPU metric with a utilisation counts; 0 stands for none.
TargetCPU(metrics) ==
  LET cpu == {i \in DOMAIN metrics : metrics[i].name = "cpu"
                                     /\ metrics[i].utilization # Nil}
  IN IF cpu = {} THEN 0 ELSE metrics[Max(cpu)].utilization

buildHPA(d) ==
  [key |-> KeyOf(d),
   targetRef |-> buildAPIVersionKindName(d.target.apiVersion, d.target.kind,
                                         d.namespace, d.target.name),
   minReplicas |-> OrDefault(d.minReplicas, 1),
   maxReplicas |-> d.maxReplicas,
   targetCPU |-> TargetCPU(d.metrics)]

buildScalable(d) ==
  [key |-> KeyOf(d), replicas |-> OrDefault(d.replicas, 1),
   containers |-> buildContainers(d), hpa |-> Nil]

buildDaemonSet(d) ==
  [nodes |-> populateConfigNotProvided(Conf).nodes, containers |-> buildContainers(d)]

buildVolumeClaim(c) ==
  [requests |-> FirstNonZero(c.requests, c.limits),
   limits |-> FirstNonZero(c.limits, c.requests)]

(***************************************************************************)
(* Cost ranges.                                                            *)
(***************************************************************************)
Columns == {"MinRequested", "HPABuffer", "MaxRequested", "MinLimited", "MaxLimited"}

ZeroRange == [c \in Columns |-> 0]

AddRanges(a, b) == [c \in Columns |-> a[c] + b[c]]

\* The ranges of a sequence, or of any finite function, added up column by column.
SumRanges(ranges) == [c \in Columns |-> SumFunction([i \in DOMAIN ranges |-> ranges[i][c]])]

\* Mutant: the maximum is not corrected.
postProcessCost_minimumOnly(cost) ==
  [cost EXCEPT !.MinLimited = IF @ < cost.MinRequested THEN cost.MinRequested ELSE @]

\* just to make sure limit will not be smaller than requested
postProcessCost(cost) ==
  [cost EXCEPT !.MinLimited = IF @ < cost.MinRequested THEN cost.MinRequested ELSE @,
               !.MaxLimited = IF @ < cost.MaxRequested THEN cost.MaxRequested ELSE @]

Price(resource) == resource.cpu * CPUPrice + resource.memory * MemoryPrice

Requested(containers) ==
  SumFunction([i \in DOMAIN containers |-> Price(containers[i].requests)])

Limited(containers) ==
  SumFunction([i \in DOMAIN containers |-> Price(containers[i].limits)])

\* minimum, buffered and maximum are numbers of Pods, in hundredths.
PodsRange(containers, minimum, buffered, maximum) ==
  postProcessCost([MinRequested |-> minimum * Requested(containers),
                   HPABuffer    |-> buffered * Requested(containers),
                   MaxRequested |-> maximum * Requested(containers),
                   MinLimited   |-> minimum * Limited(containers),
                   MaxLimited   |-> maximum * Limited(containers)])

scalableCost(s) ==
  IF s.hpa = Nil
  THEN PodsRange(s.containers, 100 * s.replicas, 100 * s.replicas, 100 * s.replicas)
  ELSE PodsRange(s.containers, 100 * s.hpa.minReplicas,
                 s.hpa.minReplicas * (IF s.hpa.targetCPU > 0
                                      THEN 100 + (100 - s.hpa.targetCPU) ELSE 100),
                 100 * s.hpa.maxReplicas)

daemonSetCost(ds) ==
  PodsRange(ds.containers, 100 * ds.nodes, 100 * ds.nodes, 100 * ds.nodes)

volumeClaimCost(v) ==
  postProcessCost([c \in Columns |->
     100 * StoragePrice * (IF c \in {"MinLimited", "MaxLimited"}
                           THEN v.limits ELSE v.requests)])

(***************************************************************************)
(* A percentage is a difference over the CURRENT value, in float64: "NaN"  *)
(* for 0/0, an infinity over 0, else its sign is the quotient's.           *)
(***************************************************************************)
Percentage(difference, current) ==
  CASE difference = 0 -> IF current = 0 THEN "NaN" ELSE "none"
    [] difference > 0 -> IF current = 0 THEN "+Inf"
                         ELSE IF current > 0 THEN "increase" ELSE "decrease"
    [] difference < 0 -> IF current = 0 THEN "-Inf"
                         ELSE IF current > 0 THEN "decrease" ELSE "increase"

\* Mutant: the operands are swapped.
SubtractRanges_swapped(curr, prev) ==
  [usd  |-> [c \in Columns |-> prev[c] - curr[c]],
   perc |-> [c \in Columns |-> Percentage(prev[c] - curr[c], curr[c])]]

SubtractRanges(curr, prev) ==
  [usd  |-> [c \in Columns |-> curr[c] - prev[c]],
   perc |-> [c \in Columns |-> Percentage(curr[c] - prev[c], curr[c])]]

\* The columns that status() lists as increased and as decreased.
Increased(d) == {c \in Columns : d.perc[c] \in {"increase", "+Inf"}}
Decreased(d) == {c \in Columns : d.perc[c] \in {"decrease", "-Inf"}}

\* encoding/json refuses NaN and the infinities.
Encodable(d) == \A c \in Columns : d.perc[c] \in {"increase", "decrease", "none"}

-----------------------------------------------------------------------------
VARIABLES
  folder,     \* folder[p]: the documents of path p; Nil without --k8s-prev
  outputFile, \* whether --output is given
  pc,
  path,       \* the path that is being estimated
  todo,       \* the documents of that path still to be loaded
  scalables,  \* Deployments, ReplicaSets and StatefulSets, in loading order
  ref,        \* key |-> index in scalables: the three maps, their keys are disjoint
  hpas, daemonSets, claims,
  linked,     \* how many of the HPAs prepareForCostEstimation has linked
  cost,       \* cost[p]: the monthly total of path p, or Nil
  diff,       \* the difference, or Nil
  markdown,   \* the output file: "none", "broken" or "written"
  diffFile    \* the .diff file: "none", "empty", "broken" or "written"

input == <<folder, outputFile>>
manifests == <<scalables, ref, hpas, daemonSets, claims, linked>>
results == <<cost, diff, markdown, diffFile>>
vars == <<input, pc, path, todo, manifests, results>>

Paths == {"k8s", "k8s-prev"}

Init ==
  /\ folder \in [Paths -> Folders \cup {Nil}] /\ folder["k8s"] # Nil
  /\ outputFile \in BOOLEAN
  /\ pc = "start" /\ path = "k8s" /\ todo = {}
  /\ scalables = <<>> /\ ref = <<>> /\ hpas = <<>>
  /\ daemonSets = <<>> /\ claims = <<>> /\ linked = 0
  /\ cost = [p \in Paths |-> Nil] /\ diff = Nil
  /\ markdown = "none" /\ diffFile = "none"

\* The price catalog of the machine family and region has been read.
ReadCatalog ==
  /\ pc = "start"
  /\ pc' = "load" /\ todo' = folder[path]
  /\ UNCHANGED <<input, path, manifests, results>>

\* exitOnError
Exit == pc' = "exited" /\ UNCHANGED <<input, path, todo, manifests, results>>

\* The catalog cannot be read, or lacks one of the three prices.
CatalogFails == pc = "start" /\ Exit

\* Walk reaches document d, whose kind is one of kinds.
Takes(d, kinds) == pc = "load" /\ d \in todo /\ d.kind \in kinds /\ Decodable(d)

Loaded(d) == todo' = todo \ {d} /\ UNCHANGED <<input, pc, path, linked, results>>

\* Not YAML, or not of a supported kind: skipped.
SkipObject(d) ==
  /\ pc = "load" /\ d \in todo /\ d.kind \notin SupportedKinds
  /\ Loaded(d) /\ UNCHANGED manifests

\* Mutant: the HPA is given at once to what is already loaded.
LoadHPA_links(d) ==
  /\ Takes(d, {HPAKind})
  /\ LET h == buildHPA(d)
     IN IF h.targetRef \in DOMAIN ref
        THEN scalables' = [scalables EXCEPT ![ref[h.targetRef]].hpa = h]
        ELSE UNCHANGED scalables
  /\ Loaded(d) /\ UNCHANGED <<hpas, ref, daemonSets, claims>>

LoadHPA(d) ==
  /\ Takes(d, {HPAKind})
  /\ hpas' = Append(hpas, buildHPA(d))
  /\ Loaded(d) /\ UNCHANGED <<scalables, ref, daemonSets, claims>>

\* The object is found under two keys from now on; the last of a key wins.
Register(key, i) ==
  ref' = [k \in DOMAIN ref \cup {key, buildKindName(key)} |->
            IF k \in {key, buildKindName(key)} THEN i ELSE ref[k]]

\* Only a StatefulSet has claims of its own.
claimTemplates(d) ==
  IF d.kind = "StatefulSet" THEN [j \in DOMAIN d.claims |-> buildVolumeClaim(d.claims[j])]
  ELSE <<>>

LoadScalable(d) ==
  /\ Takes(d, Scalable)
  /\ scalables' = Append(scalables, buildScalable(d))
  /\ Register(KeyOf(d), Len(scalables) + 1)
  /\ claims' = claims \o claimTemplates(d)
  /\ Loaded(d) /\ UNCHANGED <<hpas, daemonSets>>

LoadDaemonSet(d) ==
  /\ Takes(d, {"DaemonSet"})
  /\ daemonSets' = Append(daemonSets, buildDaemonSet(d))
  /\ Loaded(d) /\ UNCHANGED <<scalables, ref, hpas, claims>>

LoadVolumeClaim(d) ==
  /\ Takes(d, {VolumeClaimKind})
  /\ claims' = Append(claims, buildVolumeClaim(d))
  /\ Loaded(d) /\ UNCHANGED <<scalables, ref, hpas, daemonSets>>

\* loadObject returns an error to main.
DecodeFails(d) ==
  pc = "load" /\ d \in todo /\ d.kind \in SupportedKinds /\ ~Decodable(d) /\ Exit

\* The file of d cannot be read.
ReadFails(d) == pc = "load" /\ d \in todo /\ Exit

\* One round of the loop of prepareForCostEstimation, in loading order: an HPA
\* replaces the one that an earlier round gave to the same object.
LinkHPA ==
  /\ pc = "load" /\ todo = {} /\ linked < Len(hpas)
  /\ linked' = linked + 1
  /\ LET h == hpas[linked + 1]
     IN IF h.targetRef \in DOMAIN ref
        THEN scalables' = [scalables EXCEPT ![ref[h.targetRef]].hpa = h]
        ELSE UNCHANGED scalables
  /\ UNCHANGED <<input, pc, path, todo, ref, hpas, daemonSets, claims, results>>

scalablesRange(kind) ==
  LET objects == {i \in DOMAIN scalables : scalables[i].key[2] = kind}
  IN SumRanges([i \in objects |-> scalableCost(scalables[i])])

\* One range per kind that is present, and their sum.
MonthlyTotal ==
  SumRanges(<< scalablesRange("Deployment"),
               scalablesRange("ReplicaSet"),
               scalablesRange("StatefulSet"),
               SumRanges([i \in DOMAIN daemonSets |-> daemonSetCost(daemonSets[i])]),
               SumRanges([i \in DOMAIN claims |-> volumeClaimCost(claims[i])]) >>)

\* The rest of EstimateCost; main then turns to the previous path, if any,
\* with a fresh Manifests value.
EstimateCost ==
  /\ pc = "load" /\ todo = {} /\ linked = Len(hpas)
  /\ cost' = [cost EXCEPT ![path] = MonthlyTotal]
  /\ IF path = "k8s" /\ folder["k8s-prev"] # Nil
     THEN /\ path' = "k8s-prev" /\ todo' = folder["k8s-prev"]
          /\ scalables' = <<>> /\ ref' = <<>> /\ hpas' = <<>>
          /\ daemonSets' = <<>> /\ claims' = <<>> /\ linked' = 0
          /\ UNCHANGED pc
     ELSE pc' = "output" /\ UNCHANGED <<path, todo, manifests>>
  /\ UNCHANGED <<input, diff, markdown, diffFile>>

\* output: prints the table, and saves it if an output file is named; an error of creating
\* or of writing it ends the program.
SaveMarkdown(next) ==
  \/ /\ outputFile => markdown' = "written"
     /\ ~outputFile => UNCHANGED markdown
     /\ pc' = next
  \/ outputFile /\ markdown' \in {"none", "broken"} /\ pc' = "exited"

\* Without a previous path there is only the table of the current cost.
Output ==
  /\ pc = "output" /\ path = "k8s"
  /\ SaveMarkdown("finished")
  /\ UNCHANGED <<input, path, todo, manifests, cost, diff, diffFile>>

\* outputDiff: the Markdown goes first, ...
OutputDiff ==
  /\ pc = "output" /\ path = "k8s-prev"
  /\ diff' = SubtractRanges(cost["k8s"], cost["k8s-prev"])
  /\ SaveMarkdown(IF outputFile THEN "createDiff" ELSE "finished")
  /\ UNCHANGED <<input, path, todo, manifests, cost, diffFile>>

\* ... then saveDiffFile creates the file ...
CreateDiff ==
  /\ pc = "createDiff"
  /\ \/ pc' = "saveDiff" /\ diffFile' = "empty"
     \/ pc' = "exited" /\ UNCHANGED diffFile
  /\ UNCHANGED <<input, path, todo, manifests, cost, diff, markdown>>

\* ... and encodes into it.  What JSON cannot express leaves it empty, an error of writing
\* leaves some of it.
EncodeDiff ==
  /\ pc = "saveDiff"
  /\ \/ Encodable(diff) /\ pc' = "finished" /\ diffFile' = "written"
     \/ Encodable(diff) /\ pc' = "exited" /\ diffFile' \in {"empty", "broken"}
     \/ ~Encodable(diff) /\ pc' = "exited" /\ UNCHANGED diffFile
  /\ UNCHANGED <<input, path, todo, manifests, cost, diff, markdown>>

Done == pc \in {"finished", "exited"} /\ UNCHANGED vars

LoadObject(d) ==
  \/ SkipObject(d) \/ LoadHPA(d) \/ LoadScalable(d)
  \/ LoadDaemonSet(d) \/ LoadVolumeClaim(d) \/ DecodeFails(d) \/ ReadFails(d)

Next ==
  \/ ReadCatalog \/ CatalogFails
  \/ \E d \in todo : LoadObject(d)
  \/ LinkHPA \/ EstimateCost \/ Output \/ OutputDiff \/ CreateDiff \/ EncodeDiff \/ Done

Spec == Init /\ [][Next]_vars

-----------------------------------------------------------------------------
\* What the loader may hold.
Documents == UNION Folders
HPAs == {buildHPA(d) : d \in {x \in Documents : x.kind = HPAKind}}
Workloads == {d \in Documents : d.kind \in Scalable}
ScalableObjects ==
  [key : {KeyOf(d) : d \in Workloads}, replicas : {OrDefault(d.replicas, 1) : d \in Workloads},
   containers : {buildContainers(d) : d \in Workloads}, hpa : HPAs \cup {Nil}]

\* Type invariant: the objects in the loader are built from documents of the
\* folders, every key of `ref` leads to one of them, and `linked` counts HPAs.
TypeOK ==
  /\ path \in Paths /\ folder \in [Paths -> Folders \cup {Nil}]
  /\ folder[path] # Nil /\ todo \subseteq folder[path]
  /\ scalables \in Seq(ScalableObjects)
  /\ hpas \in Seq(HPAs) /\ linked \in 0..Len(hpas)
  /\ \A k \in DOMAIN ref : ref[k] \in 1..Len(scalables)

\* The prices, the configuration and the amounts in the documents are in N.
AmountsIn(N) ==
  LET Amounts == [cpu : N, memory : N] IN
    /\ {CPUPrice, MemoryPrice, StoragePrice} \subseteq N
    /\ Conf \in [{"cpu", "memory", "increase", "nodes"} -> N]
    /\ \A d \in Documents :
         /\ d.kind \in Scalable \cup {"DaemonSet"} =>
              d.containers \in Seq([requests : Amounts, limits : Amounts])
         /\ d.kind \in Scalable => d.replicas \in N \cup {Nil}
         /\ d.kind = "StatefulSet" => d.claims \in Seq([requests : N, limits : N])
         /\ d.kind = VolumeClaimKind => d.requests \in N /\ d.limits \in N
         /\ d.kind = HPAKind => d.minReplicas \in N \cup {Nil} /\ d.maxReplicas \in N

\* The Go types: numbers and slices; a walk ends.
ASSUME GoTypes ==
  /\ AmountsIn(Int)
  /\ \A d \in Documents : d.kind = HPAKind =>
       d.metrics \in Seq([name : STRING, utilization : Int \cup {Nil}])
  /\ \A S \in Folders : IsFiniteSet(S)

\* Kubernetes refuses manifests with negative amounts or numbers of replicas, the catalog
\* has no negative prices, and nobody configures a negative default.
ASSUME NoNegativeAmounts == AmountsIn(Nat)

(***************************************************************************)
(* What a folder costs, read off the set of its documents.                 *)
(***************************************************************************)
NamespaceOf(d) == IF d.namespace = "" THEN "default" ELSE d.namespace

\* h scales d: same namespace, kind and name, and no other apiVersion.
Scales(h, d) ==
  /\ h.kind = HPAKind /\ d.kind = h.target.kind /\ d.name = h.target.name
  /\ NamespaceOf(h) = NamespaceOf(d)
  /\ h.target.apiVersion \in {"", d.apiVersion}

SameObject(c, d) ==
  /\ c.kind = d.kind /\ c.name = d.name /\ NamespaceOf(c) = NamespaceOf(d)

\* No object has two documents, and no object two HPAs.
Unambiguous(S) ==
  \A c, d \in {x \in S : x.kind \in SupportedKinds} :
     /\ SameObject(c, d) => c = d
     /\ \A o \in S : o.kind \in Scalable /\ Scales(c, o) /\ Scales(d, o) => c = d

DocumentCost(d, S) ==
  LET scaling == {h \in S : Scales(h, d)}
      hpa == IF scaling = {} THEN Nil ELSE buildHPA(CHOOSE h \in scaling : TRUE)
      storage == IF d.kind = "StatefulSet"
                THEN SumRanges([i \in DOMAIN d.claims |->
                                  volumeClaimCost(buildVolumeClaim(d.claims[i]))])
                ELSE ZeroRange
  IN CASE d.kind \in Scalable ->
            AddRanges(storage, scalableCost([buildScalable(d) EXCEPT !.hpa = hpa]))
       [] d.kind = "DaemonSet" -> daemonSetCost(buildDaemonSet(d))
       [] d.kind = VolumeClaimKind -> volumeClaimCost(buildVolumeClaim(d))
       [] OTHER -> ZeroRange

Reference(S) == SumRanges([d \in S |-> DocumentCost(d, S)])

\* The estimate is a function of the set of documents: no order of files, or
\* of documents in a file, changes it, and in particular an HPA counts whether
\* it is loaded before or after what it scales (loadObject keeps the HPAs apart
\* until prepareForCostEstimation).
EstimateIsOfTheSet ==
  \A p \in Paths : cost[p] # Nil /\ Unambiguous(folder[p]) => cost[p] = Reference(folder[p])

\* k is a key under which the object with key `key` may be looked up.
KeyMatches(k, key) ==
  /\ k[1] \in {"", key[1]} /\ k[2] = key[2] /\ k[3] = key[3] /\ k[4] = key[4]

\* An HPA sizes only a workload of the namespace, kind and name it targets,
\* although one map holds full and apiVersion-less keys of every object.
HPAOnItsTarget ==
  \A i \in 1..Len(scalables) :
     scalables[i].hpa # Nil => KeyMatches(scalables[i].hpa.targetRef, scalables[i].key)

\* Why HPAOnItsTarget holds: a key leads only to an object that it matches.
\* With the type invariant, the two are inductive.
RefOK == \A k \in DOMAIN ref : KeyMatches(k, scalables[ref[k]].key)

HPAsOf(p) == {d \in folder[p] : d.kind = HPAKind}

\* The columns of a table are ordered the way their names say, although the
\* correction of postProcessCost is made per object, on prices and not on
\* resources, and the sums are made afterwards.
ColumnsOrdered ==
  \A p \in Paths : cost[p] # Nil =>
     /\ cost[p].MinRequested <= cost[p].MinLimited
     /\ cost[p].MaxRequested <= cost[p].MaxLimited
     /\ (\A h \in HPAsOf(p) : OrDefault(h.minReplicas, 1) <= h.maxReplicas) =>
          /\ cost[p].MinRequested <= cost[p].MaxRequested
          /\ cost[p].MinLimited <= cost[p].MaxLimited
     /\ (\A h \in HPAsOf(p) : TargetCPU(h.metrics) <= 100) =>
          cost[p].MinRequested <= cost[p].HPABuffer

\* The summary names exactly the columns that went up and those that went
\* down, although status() looks at percentages that may be infinite or NaN.
SummaryTellsTheTruth ==
  diff # Nil /\ (\A c \in Columns : cost["k8s"][c] >= 0) =>
     /\ Increased(diff) = {c \in Columns : cost["k8s"][c] > cost["k8s-prev"][c]}
     /\ Decreased(diff) = {c \in Columns : cost["k8s"][c] < cost["k8s-prev"][c]}

=============================================================================
