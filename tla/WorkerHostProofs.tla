-------------------------- MODULE WorkerHostProofs ---------------------------
(***************************************************************************)
(* What holds of a worker on every machine, for any number of jobs and     *)
(* whatever they need.                                                     *)
(*                                                                         *)
(* The argument about the memory gate: a running job may hold anything up  *)
(* to its claim, what it needs, and no claim changes.  A job admitted while *)
(* nobody grows finds every claim held, so what it passes the gate with is *)
(* what the others claim and the rest uses: it becomes the bearer, the job *)
(* without which the claims are within the limit.  Growing and shrinking   *)
(* leave claims alone, and a job that ends takes its own away.  A job      *)
(* admitted blindly, on a full machine, shows instead that a full machine  *)
(* without its tmpfs is within the limit.                                  *)
(***************************************************************************)
EXTENDS WorkerHost, FiniteSetTheorems, TLAPS

USE HostAssumption

(***************************************************************************)
(* Memory is counted by units: what a job takes and gives back is what     *)
(* Used changes by.                                                        *)
(***************************************************************************)
Units(j, n) == {j} \X (1 .. n)

LEMMA UnitsCounted ==
  ASSUME NEW j, NEW n \in Nat
  PROVE  IsFiniteSet(Units(j, n)) /\ Cardinality(Units(j, n)) = n
<1> DEFINE f == [i \in 1 .. n |-> <<j, i>>]
<1>1. IsFiniteSet(1 .. n) /\ Cardinality(1 .. n) = n
  BY FS_Interval
<1>2. f \in Bijection(1 .. n, Units(j, n))
  <2>1. f \in Injection(1 .. n, Units(j, n))
    BY DEF Injection, IsInjective, Units
  <2>2. f \in Surjection(1 .. n, Units(j, n))
    <3>1. ASSUME NEW p \in Units(j, n) PROVE \E i \in 1 .. n : f[i] = p
      <4>1. p = <<j, p[2]>> /\ p[2] \in 1 .. n
        BY DEF Units
      <4> QED BY <4>1
    <3> QED BY <2>1, <3>1 DEF Surjection, Injection
  <2> QED BY <2>1, <2>2 DEF Bijection
<1> QED BY <1>1, <1>2, FS_Bijection DEF ExistsBijection

Shape ==
  /\ host \in Hosts
  /\ config = Load(host.env)
  /\ up \in {"down", "up", "failed"}
  /\ job \in [Jobs -> {"queued", "delayed", "running", "done", "killed"}]
  /\ held \in [Jobs -> Nat] /\ \A j \in Jobs : held[j] <= Need[j]
  /\ rest \in host.base .. host.peak
  /\ restSeen \in 0 .. Total /\ raced \in BOOLEAN /\ blind \in BOOLEAN

Kept ==
  /\ \A j \in Jobs : job[j] # "running" => held[j] = 0
  /\ \A j \in Jobs : held[j] <= Total

LEMMA TakenFinite == IsFiniteSet(Taken) /\ Cardinality(Taken) \in Nat
<1>1. IsFiniteSet(1 .. Total)
  BY FS_Interval
<1>2. IsFiniteSet(Jobs \X (1 .. Total))
  BY <1>1, FS_Product
<1>3. IsFiniteSet(Taken)
  BY <1>2, FS_Subset DEF Taken
<1> QED BY <1>3, FS_CardinalityType

\* What the settings and the machine are made of.
LEMMA SettingsTyped ==
  ASSUME NEW h \in Hosts
  PROVE  /\ Load(h.env).concurrency \in Int
         /\ Load(h.env).enabled \in BOOLEAN
         /\ Load(h.env).maxPercent.kind \in {"float", "inf"} => Load(h.env).maxPercent.value \in Int
         /\ Slots(Load(h.env), h.cpus) \in Nat \ {0}
<1> DEFINE env == h.env
<1>1. Settings(env) /\ h.cpus \in Nat \ {0}
  OBVIOUS
<1>2. Load(env).concurrency \in Int
  BY <1>1 DEF Settings, Load, Parsed, Whole
<1>3. Load(env).enabled \in BOOLEAN
  <2>1. getEnvBool(env, "RESOURCE_CHECK_ENABLED", TRUE) \in BOOLEAN
    BY <1>1 DEF Settings, getEnvBool
  <2> QED BY <2>1 DEF Load
<1>4. Load(env).maxPercent.kind \in {"float", "inf"} => Load(env).maxPercent.value \in Int
  <2> DEFINE n == Parsed(env, "MAX_MEMORY_PERCENT", {"int", "float", "inf", "nan"}, Whole(85))
  <2>1. n.kind \in {"int", "float", "inf"} => n.value \in Int
    BY <1>1 DEF Settings, Parsed, Whole
  <2>2. Load(env).maxPercent =
          IF n.kind = "int" THEN [kind |-> "float", value |-> 1000 * n.value] ELSE n
    BY DEF Load, getEnvFloat
  <2> HIDE DEF n
  <2> QED BY <2>1, <2>2
<1> QED BY <1>1, <1>2, <1>3, <1>4 DEF Slots

LEMMA HeldIsTaken ==
  ASSUME Shape, Kept, NEW j \in Jobs
  PROVE  /\ Units(j, held[j]) \subseteq Taken
         /\ held[j] <= Cardinality(Taken)
         /\ Cardinality(Taken \ Units(j, held[j])) = Cardinality(Taken) - held[j]
<1>1. Units(j, held[j]) \subseteq Taken
  BY DEF Units, Taken, Shape, Kept
<1>2. held[j] \in Nat
  BY DEF Shape
<1>3. IsFiniteSet(Units(j, held[j])) /\ Cardinality(Units(j, held[j])) = held[j]
  BY <1>2, UnitsCounted
<1>4. held[j] <= Cardinality(Taken)
  BY <1>1, <1>3, TakenFinite, FS_Subset
<1>5. /\ IsFiniteSet(Taken \ Units(j, held[j]))
      /\ Taken = (Taken \ Units(j, held[j])) \cup Units(j, held[j])
      /\ (Taken \ Units(j, held[j])) \cap Units(j, held[j]) = {}
  BY <1>1, TakenFinite, FS_Subset
<1>6. Cardinality(Taken) = Cardinality(Taken \ Units(j, held[j])) + held[j] - 0
  BY <1>3, <1>5, FS_Union, FS_EmptySet
<1>7. Cardinality(Taken \ Units(j, held[j])) \in Nat
  BY <1>5, FS_CardinalityType
<1> QED BY <1>1, <1>2, <1>4, <1>6, <1>7, TakenFinite

LEMMA MachineTyped ==
  ASSUME Shape
  PROVE  /\ rest \in 0 .. Total /\ host.base \in 0 .. Total /\ host.peak \in 0 .. Total
         /\ host.shared \in 0 .. Total
BY DEF Shape

LEMMA GrowTakesOne ==
  ASSUME Shape, Kept, NEW j \in Jobs, Grow(j)
  PROVE  Used' = Used + 1 /\ held[j] < Total
<1> DEFINE new == <<j, held[j] + 1>>
<1>1. rest \in Nat /\ Cardinality(Taken) < Total
  BY MachineTyped, TakenFinite DEF Grow, Used
<1>2. held[j] < Total /\ held[j] \in Nat
  <2>1. held[j] \in Nat
    BY DEF Shape
  <2>2. held[j] <= Cardinality(Taken)
    BY HeldIsTaken
  <2> QED BY <1>1, <2>1, <2>2, TakenFinite
<1>3. Taken' = Taken \cup {new}
  BY <1>2 DEF Taken, Grow, Shape, Kept
<1>4. new \notin Taken
  BY <1>2 DEF Taken
<1>5. Cardinality(Taken \cup {new}) = Cardinality(Taken) + 1
  BY <1>4, TakenFinite, FS_AddElement
<1>6. rest' = rest
  BY DEF Grow
<1> QED BY <1>1, <1>2, <1>3, <1>5, <1>6, TakenFinite DEF Used

\* Giving memory back.
LEMMA TakenShrinks ==
  ASSUME Shape, Taken' \subseteq Taken, rest' = rest
  PROVE  Used' \in Nat /\ Used' <= Used
<1>1. Cardinality(Taken') <= Cardinality(Taken) /\ Cardinality(Taken') \in Nat
  BY TakenFinite, FS_Subset, FS_CardinalityType
<1> QED BY <1>1, MachineTyped, TakenFinite DEF Used

-----------------------------------------------------------------------------
(***************************************************************************)
(* What the state looks like, inductively.                                 *)
(***************************************************************************)
SlotsKept ==
  /\ Used <= Total
  /\ Cardinality(Running) <= Slots(config, host.cpus)
  /\ accel \in Accelerations \cup {"none"}

Detected == up # "down" => accel = detectHardware(host)

LEMMA RunningFinite == IsFiniteSet(Running) /\ Cardinality(Running) \in Nat
BY FS_Subset, FS_CardinalityType DEF Running

\* What the jobs of S come to use.
Claims(S) == {p \in S \X (1 .. Total) : p[2] <= Need[p[1]]}

Claimed(S) == Cardinality(Claims(S))

Gated == config.enabled /\ Readable

\* Without the bearer, the claims and the rest seen are within the limit.
Bears(w) == ~Exceeds(restSeen + Claimed(Running \ {w}) - Unseen, config.maxPercent)

Borne == Gated /\ ~raced /\ ~blind /\ Running # {} => \E w \in Running : Bears(w)

\* A full machine without its tmpfs is within the limit.
BlindKept == Gated /\ blind => ~Exceeds(Total - host.shared, config.maxPercent)

HostInv == Shape /\ Kept /\ SlotsKept /\ Detected /\ Borne /\ BlindKept

(***************************************************************************)
(* detectHardware: the first accelerator of the list that passes its check *)
(* or none if none does.                                                   *)
(***************************************************************************)
LEMMA LeastFound ==
  ASSUME NEW S \in SUBSET (1 .. 4), S # {}
  PROVE  LET least == CHOOSE i \in S : \A n \in S : i <= n
         IN  least \in S /\ \A n \in S : least <= n
<1>1. \A n \in S : n \in {1, 2, 3, 4}
  OBVIOUS
<1>2. \E i \in S : \A n \in S : i <= n
  <2>1. CASE 1 \in S
    BY <1>1, <2>1
  <2>2. CASE 1 \notin S /\ 2 \in S
    BY <1>1, <2>2
  <2>3. CASE 1 \notin S /\ 2 \notin S /\ 3 \in S
    BY <1>1, <2>3
  <2>4. CASE 1 \notin S /\ 2 \notin S /\ 3 \notin S
    <3>1. S = {4}
      BY <1>1, <2>4
    <3> QED BY <3>1
  <2> QED BY <2>1, <2>2, <2>3, <2>4
<1> QED BY <1>2

LEMMA DetectHardwareFinds ==
  ASSUME NEW m
  PROVE  LET order == Preference(m.os) IN
         IF \E i \in DOMAIN order : Check(m, order[i])
         THEN \E i \in DOMAIN order :
                /\ Check(m, order[i]) /\ detectHardware(m) = order[i]
                /\ \A n \in DOMAIN order : Check(m, order[n]) => i <= n
         ELSE detectHardware(m) = "none"
<1> DEFINE order == Preference(m.os)
           found == {i \in DOMAIN order : Check(m, order[i])}
           least == CHOOSE i \in found : \A n \in found : i <= n
<1>1. DOMAIN order \subseteq 1 .. 4
  BY DEF Preference
<1>2. found # {} => least \in found /\ \A n \in found : least <= n
  BY <1>1, LeastFound
<1>3. detectHardware(m) = IF found = {} THEN "none" ELSE order[least]
  BY DEF detectHardware
<1> HIDE DEF order, least
<1> QED BY <1>2, <1>3 DEF order

\* Nothing further down the list beats what is above it.
LEMMA PreferenceOrdered ==
  ASSUME NEW os, NEW i \in DOMAIN Preference(os), NEW n \in DOMAIN Preference(os), i <= n
  PROVE  ~Beats(Preference(os)[n], Preference(os)[i])
<1>1. CASE os = "linux"
  <2>1. Preference(os) = <<"nvenc", "qsv", "amf", "vaapi">>
    BY <1>1 DEF Preference
  <2>2. i \in 1 .. 4 /\ n \in 1 .. 4
    BY <2>1
  <2> QED BY <2>1, <2>2 DEF Beats
<1>2. CASE os = "windows"
  <2>1. Preference(os) = <<"nvenc", "qsv", "amf">>
    BY <1>2 DEF Preference
  <2>2. i \in 1 .. 3 /\ n \in 1 .. 3
    BY <2>1
  <2> QED BY <2>1, <2>2 DEF Beats
<1>3. CASE os \notin {"linux", "windows"}
  BY <1>3 DEF Preference, Beats
<1> QED BY <1>1, <1>2, <1>3

\* The accelerators of the list are those that are plausible somewhere.
LEMMA CheckedIsPlausible ==
  ASSUME Shape, NEW a \in Accelerations
  PROVE  Plausible(a) <=>
           \E i \in DOMAIN Preference(host.os) :
             Preference(host.os)[i] = a /\ Check(host, a)
<1>1. host.nvidia \in BOOLEAN
  BY DEF Shape
<1>2. CASE host.os = "darwin"
  BY <1>1, <1>2 DEF Preference, Check, DeviceFound, Plausible, Accelerations
<1>3. CASE host.os = "linux"
  BY <1>1, <1>3 DEF Preference, Check, DeviceFound, Plausible, Accelerations
<1>4. CASE host.os = "windows"
  BY <1>1, <1>4 DEF Preference, Check, DeviceFound, Plausible, Accelerations
<1>5. CASE host.os \notin {"darwin", "linux", "windows"}
  BY <1>5 DEF Preference, Check, DeviceFound, Plausible, Accelerations
<1> QED BY <1>2, <1>3, <1>4, <1>5

LEMMA PreferenceKnown ==
  ASSUME NEW os, NEW i \in DOMAIN Preference(os)
  PROVE  Preference(os)[i] \in Accelerations
BY DEF Preference, Accelerations

LEMMA DetectedIsVerified == Shape /\ Detected => AccelerationIsVerified
<1> DEFINE order == Preference(host.os)
           found == {a \in Accelerations : Plausible(a)}
<1> SUFFICES ASSUME Shape, Detected, up # "down"
             PROVE  IF found = {} THEN accel = "none"
                    ELSE accel \in found /\ \A a \in found : ~Beats(a, accel)
  BY DEF AccelerationIsVerified
<1>1. accel = detectHardware(host)
  BY DEF Detected
<1>2. ASSUME NEW a \in found PROVE \E n \in DOMAIN order : order[n] = a /\ Check(host, a)
  BY CheckedIsPlausible
<1>3. CASE \E i \in DOMAIN order : Check(host, order[i])
  <2>1. PICK i \in DOMAIN order :
               /\ Check(host, order[i]) /\ detectHardware(host) = order[i]
               /\ \A n \in DOMAIN order : Check(host, order[n]) => i <= n
    BY <1>3, DetectHardwareFinds
  <2>2. accel \in found
    <3>1. order[i] \in Accelerations
      BY PreferenceKnown
    <3>2. Plausible(order[i])
      BY <2>1, <3>1, CheckedIsPlausible
    <3> QED BY <1>1, <2>1, <3>1, <3>2
  <2>3. ASSUME NEW a \in found PROVE ~Beats(a, accel)
    <3>1. PICK n \in DOMAIN order : order[n] = a /\ Check(host, a)
      BY <1>2
    <3>2. i <= n
      BY <2>1, <3>1
    <3> QED BY <1>1, <2>1, <3>1, <3>2, PreferenceOrdered
  <2> QED BY <2>2, <2>3
<1>4. CASE ~\E i \in DOMAIN order : Check(host, order[i])
  <2>1. detectHardware(host) = "none"
    BY <1>4, DetectHardwareFinds
  <2>2. found = {}
    BY <1>2, <1>4
  <2> QED BY <1>1, <2>1, <2>2
<1> QED BY <1>3, <1>4

-----------------------------------------------------------------------------
(***************************************************************************)
(* What exceeds the limit still does when it grows.                        *)
(***************************************************************************)
LEMMA LessIsWithin ==
  ASSUME Shape, NEW a \in Int, NEW b \in Int, a <= b, ~Exceeds(b, config.maxPercent)
  PROVE  ~Exceeds(a, config.maxPercent)
<1> DEFINE limit == config.maxPercent
<1>1. limit.kind \in {"float", "inf"} => limit.value \in Int
  BY SettingsTyped DEF Shape
<1>2. a * 100000 <= b * 100000
  OBVIOUS
<1>3. CASE limit.kind = "float"
  <2> DEFINE bound == limit.value * Total
  <2>1. bound \in Int /\ ~(b * 100000 > bound)
    BY <1>1, <1>3 DEF Exceeds
  <2> HIDE DEF bound
  <2>2. ~(a * 100000 > bound)
    BY <1>2, <2>1
  <2> QED BY <1>3, <2>2 DEF Exceeds, bound
<1>4. CASE limit.kind # "float"
  BY <1>4 DEF Exceeds
<1> QED BY <1>3, <1>4

LEMMA ClaimsFinite ==
  ASSUME NEW S \in SUBSET Jobs
  PROVE  IsFiniteSet(Claims(S)) /\ Claimed(S) \in Nat
<1>1. IsFiniteSet(1 .. Total)
  BY FS_Interval
<1>2. IsFiniteSet(S)
  BY FS_Subset
<1>3. IsFiniteSet(S \X (1 .. Total))
  BY <1>1, <1>2, FS_Product
<1>4. IsFiniteSet(Claims(S))
  BY <1>3, FS_Subset DEF Claims
<1> QED BY <1>4, FS_CardinalityType DEF Claimed

LEMMA ClaimsGrow ==
  ASSUME NEW S \in SUBSET Jobs, NEW T \in SUBSET S
  PROVE  Claimed(T) <= Claimed(S)
<1>1. Claims(T) \subseteq Claims(S)
  BY DEF Claims
<1> QED BY <1>1, ClaimsFinite, FS_Subset DEF Claimed

LEMMA UnseenTyped == Shape => Unseen \in 0 .. Total
BY MachineTyped DEF Unseen

LEMMA UsedTyped == Shape => Used \in Nat
BY MachineTyped, TakenFinite DEF Used

\* What is used without one job is within what the others claim.
LEMMA OthersWithinClaims ==
  ASSUME Shape, Kept, NEW w \in Running
  PROVE  Used - held[w] <= rest + Claimed(Running \ {w})
<1> DEFINE others == Taken \ Units(w, held[w])
<1>1. w \in Jobs /\ Running \ {w} \in SUBSET Jobs
  BY DEF Running
<1>2. others \subseteq Claims(Running \ {w})
  BY <1>1 DEF Taken, Units, Claims, Running, Kept, Shape
<1>3. Cardinality(others) <= Claimed(Running \ {w})
  BY <1>1, <1>2, ClaimsFinite, FS_Subset DEF Claimed
<1>4. Cardinality(others) = Cardinality(Taken) - held[w]
  BY <1>1, HeldIsTaken
<1>5. rest \in Int /\ Cardinality(Taken) \in Int /\ held[w] \in Int /\ Claimed(Running \ {w}) \in Int
  BY <1>1, MachineTyped, TakenFinite, ClaimsFinite DEF Shape
<1> QED BY <1>3, <1>4, <1>5 DEF Used

\* Where nobody grows, everybody holds what he claims.
LEMMA ClaimsAreHeld ==
  ASSUME Shape, Kept, Growing = {}
  PROVE  Used = rest + Claimed(Running)
<1>1. ASSUME NEW j \in Running PROVE j \in Jobs /\ held[j] = Need[j]
  BY DEF Running, Growing, Shape
<1>2. ASSUME NEW j \in Jobs, j \notin Running PROVE held[j] = 0
  BY <1>2 DEF Running, Kept
<1>3. Taken = Claims(Running)
  <2>1. ASSUME NEW p \in Taken PROVE p \in Claims(Running)
    BY <1>1, <1>2 DEF Taken, Claims
  <2>2. ASSUME NEW p \in Claims(Running) PROVE p \in Taken
    BY <1>1 DEF Taken, Claims
  <2> QED BY <2>1, <2>2
<1> QED BY <1>3 DEF Used, Claimed

(***************************************************************************)
(* HostInv is inductive.                                                   *)
(***************************************************************************)
LEMMA InitHostInv == Init => HostInv
<1> SUFFICES ASSUME Init PROVE HostInv
  OBVIOUS
<1>1. Running = {}
  BY DEF Init, Running
<1>2. Taken = {}
  BY DEF Init, Taken
<1>3. Shape
  <2>1. \A j \in Jobs : held[j] = 0 /\ Need[j] \in Nat
    BY DEF Init
  <2>2. job \in [Jobs -> {"queued", "delayed", "running", "done", "killed"}]
    BY DEF Init
  <2>3. held \in [Jobs -> Nat]
    BY DEF Init
  <2>4. host \in Hosts /\ up \in {"down", "up", "failed"} /\ config = Load(host.env)
        /\ rest \in host.base .. host.peak
    BY DEF Init
  <2>5. raced \in BOOLEAN /\ blind \in BOOLEAN
    BY DEF Init
  <2>6. restSeen \in 0 .. Total
    BY DEF Init
  <2> QED BY <2>1, <2>2, <2>3, <2>4, <2>5, <2>6 DEF Shape
<1>4. Used = rest /\ rest \in 0 .. Total
  BY <1>2, <1>3, MachineTyped, FS_EmptySet DEF Used
<1>5. Kept
  BY DEF Init, Kept
<1>6. SlotsKept
  <2>1. Slots(config, host.cpus) \in Nat \ {0}
    BY SettingsTyped DEF Init
  <2> QED BY <1>1, <1>4, <2>1, FS_EmptySet DEF SlotsKept, Init
<1>7. Detected /\ Borne /\ BlindKept
  BY <1>1 DEF Detected, Borne, BlindKept, Init
<1> QED BY <1>3, <1>5, <1>6, <1>7 DEF HostInv

\* A step that admits nobody and ends nobody leaves the gate's facts alone.
LEMMA ClaimsStay ==
  ASSUME HostInv, Running' = Running, UNCHANGED <<host, config, history>>
  PROVE  Borne' /\ BlindKept'
<1>1. UNCHANGED <<restSeen, raced, blind>>
  BY DEF history
<1>2. UNCHANGED <<Gated, Unseen>>
  BY <1>1 DEF Gated, Readable, Unseen
<1>3. ASSUME NEW w PROVE Bears(w)' = Bears(w)
  BY <1>1, <1>2 DEF Bears, Claimed, Claims
<1> QED BY <1>1, <1>2, <1>3 DEF HostInv, Borne, BlindKept

(***************************************************************************)
(* Steps that let no job begin or end and leave the memory alone.          *)
(***************************************************************************)
LEMMA StartKeeps == ASSUME HostInv, Start PROVE HostInv'
<1>1. Running' = Running /\ Used' = Used
  BY DEF Start, Running, Used, Taken
<1>2. Borne' /\ BlindKept'
  BY <1>1, ClaimsStay DEF Start
<1>3. detectHardware(host) \in Accelerations \cup {"none"}
  BY DetectHardwareFinds, PreferenceKnown
<1>4. Shape' /\ Kept'
  BY DEF HostInv, Start, Shape, Kept, history
<1>5. SlotsKept'
  BY <1>1, <1>3 DEF HostInv, Start, SlotsKept
<1>6. Detected'
  BY DEF Detected, Start
<1> QED BY <1>2, <1>4, <1>5, <1>6 DEF HostInv

LEMMA WaitKeeps == ASSUME HostInv, NEW j \in Jobs, Delay(j) \/ Requeue(j) PROVE HostInv'
<1>1. Running' = Running /\ Used' = Used
  BY DEF Delay, Requeue, Running, HostInv, Shape, Used, Taken
<1>2. Borne' /\ BlindKept'
  BY <1>1, ClaimsStay DEF Delay, Requeue
<1>3. Shape' /\ Kept'
  BY DEF HostInv, Delay, Requeue, Shape, Kept, history
<1>4. SlotsKept' /\ Detected'
  BY <1>1 DEF HostInv, Delay, Requeue, SlotsKept, Detected
<1> QED BY <1>2, <1>3, <1>4 DEF HostInv

(***************************************************************************)
(* A job is admitted.                                                      *)
(***************************************************************************)
LEMMA AdmitKeeps == ASSUME HostInv, NEW j \in Jobs, Admit(j) PROVE HostInv'
<1> USE DEF HostInv
<1>1. Running' = Running \cup {j} /\ j \notin Running
  BY DEF Admit, Running, Shape
<1>2. Used' = Used /\ Gated' = Gated /\ Used \in 0 .. Total
  BY UsedTyped DEF Admit, Used, Taken, Gated, Readable, SlotsKept
<1>3. Shape'
  BY MachineTyped DEF Admit, Shape
<1>4. Kept' /\ Detected'
  BY DEF Admit, Shape, Kept, Detected
<1>5. SlotsKept'
  <2>1. Cardinality(Running') = Cardinality(Running) + 1
    BY <1>1, RunningFinite, FS_AddElement
  <2>2. Slots(config, host.cpus) \in Nat
    BY SettingsTyped DEF Shape
  <2>3. Cardinality(Running') <= Slots(config, host.cpus)
    BY <2>1, <2>2, RunningFinite DEF Admit, Free
  <2> QED BY <1>2, <2>3 DEF Admit, SlotsKept
<1>6. Gated => ~Exceeds(Total - Available, config.maxPercent)
  BY DEF Admit, MayRun, Verdicts, ExceedsLimit, Gated
<1>7. BlindKept'
  <2> SUFFICES ASSUME Gated, blind' PROVE ~Exceeds(Total - host.shared, config.maxPercent)
    BY <1>2 DEF BlindKept, Admit
  <2>1. CASE blind
    BY <2>1 DEF BlindKept
  <2>2. CASE ~blind
    <3>1. Used = Total
      BY <2>2 DEF Admit
    <3>2. Available = host.shared
      BY <3>1, MachineTyped DEF Available
    <3> QED BY <1>6, <3>2
  <2> QED BY <2>1, <2>2
<1>8. Borne'
  <2> SUFFICES ASSUME Gated, ~raced', ~blind' PROVE Bears(j)'
    BY <1>1, <1>2 DEF Borne
  <2>1. Growing = {} /\ ~blind
    BY DEF Admit, Shape
  <2>2. Total - Available = Used - Unseen
    <3>1. host.meminfo \in {"available", "old"}
      BY DEF Gated, Readable, Shape
    <3>2. CASE host.meminfo = "available"
      <4>1. Used # Total
        BY <3>2 DEF Admit
      <4> QED BY <1>2, <2>1, <3>2, <4>1 DEF Available, Unseen
    <3>3. CASE host.meminfo = "old"
      BY <1>2, <3>3, MachineTyped DEF Available, Unseen
    <3> QED BY <3>1, <3>2, <3>3
  <2>3. Used = rest + Claimed(Running)
    BY <2>1, ClaimsAreHeld
  <2>4. Running' \ {j} = Running /\ restSeen' = rest /\ Unseen' = Unseen
    BY <1>1, <2>1 DEF Admit, Unseen
  <2>5. Claimed(Running \ {j})' = Claimed(Running)
    BY <2>4 DEF Claimed, Claims
  <2>6. ~Exceeds(rest + Claimed(Running) - Unseen, config.maxPercent)
    <3>1. Total - Available = rest + Claimed(Running) - Unseen
      <4>1. rest \in Int /\ Unseen \in Int /\ Claimed(Running) \in Int
        BY MachineTyped, UnseenTyped, ClaimsFinite DEF Running
      <4> QED BY <2>2, <2>3, <4>1
    <3>2. ~Exceeds(Total - Available, config.maxPercent)
      BY <1>6
    <3> QED BY ONLY <3>1, <3>2
  <2> QED BY <2>4, <2>5, <2>6 DEF Bears, Admit
<1> QED BY <1>3, <1>4, <1>5, <1>7, <1>8

(***************************************************************************)
(* A job takes memory, or frees some; so does the rest of the machine.     *)
(***************************************************************************)
LEMMA GrowKeeps == ASSUME HostInv, NEW j \in Jobs, Grow(j) PROVE HostInv'
<1> USE DEF HostInv
<1>1. Running' = Running /\ j \in Running /\ held[j] < Need[j]
  BY DEF Grow, Running, Growing, Shape
<1>2. Borne' /\ BlindKept'
  BY <1>1, ClaimsStay DEF Grow
<1>3. Used' = Used + 1 /\ held[j] < Total /\ held[j] \in Nat
  BY GrowTakesOne DEF Shape
<1>4. Shape'
  BY <1>1, <1>3 DEF Grow, Shape, history
<1>5. Kept'
  BY <1>1, <1>3 DEF Grow, Kept, Shape, Running
<1>6. SlotsKept' /\ Detected'
  BY <1>1, <1>3, UsedTyped DEF Grow, SlotsKept, Detected
<1> QED BY <1>2, <1>4, <1>5, <1>6

LEMMA ShrinkKeeps == ASSUME HostInv, NEW j \in Jobs, Shrink(j) PROVE HostInv'
<1> USE DEF HostInv
<1>1. Running' = Running /\ held[j] \in Nat \ {0} /\ Need[j] \in Nat /\ held' = [held EXCEPT ![j] = held[j] - 1]
  BY DEF Shrink, Running, Shape
<1>2. Borne' /\ BlindKept'
  BY <1>1, ClaimsStay DEF Shrink
<1>3. Shape'
  BY <1>1 DEF Shrink, Shape, history
<1>4. Kept'
  BY <1>1 DEF Shrink, Kept, Shape, Running
<1>5. Used' \in Nat /\ Used' <= Used
  <2>1. Taken' \subseteq Taken
    BY <1>1 DEF Taken, Shape
  <2> QED BY <2>1, TakenShrinks DEF Shrink
<1>6. SlotsKept' /\ Detected'
  BY <1>1, <1>5, UsedTyped DEF Shrink, SlotsKept, Detected
<1> QED BY <1>2, <1>3, <1>4, <1>6

LEMMA OthersKeeps == ASSUME HostInv, NEW n \in 0 .. Total, Others(n) PROVE HostInv'
<1> USE DEF HostInv
<1>1. Running' = Running /\ Taken' = Taken
  BY DEF Others, Running, Taken
<1>2. Borne' /\ BlindKept'
  BY <1>1, ClaimsStay DEF Others
<1>3. Shape' /\ Kept' /\ Detected'
  BY DEF Others, Shape, Kept, Detected, history
<1>4. SlotsKept'
  BY <1>1 DEF Others, SlotsKept, Used
<1> QED BY <1>2, <1>3, <1>4

(***************************************************************************)
(* A job ends and gives its memory back.                                   *)
(***************************************************************************)
LEMMA FinishKeeps ==
  ASSUME HostInv, NEW j \in Jobs, NEW how \in {"done", "killed"}, Finish(j, how)
  PROVE  HostInv'
<1> USE DEF HostInv
<1>1. Running' = Running \ {j} /\ j \in Running /\ Running \in SUBSET Jobs
  BY DEF Finish, Running, Growing, Shape
<1>2. UNCHANGED <<restSeen, raced, blind, Gated, Unseen, host, config>>
  BY DEF Finish, history, Gated, Readable, Unseen
<1>3. Shape' /\ Kept' /\ Detected'
  BY DEF Finish, Shape, Kept, Detected, history
<1>4. Used' \in Nat /\ Used' <= Used
  <2>1. Taken' \subseteq Taken
    BY DEF Taken, Finish, Shape
  <2> QED BY <2>1, TakenShrinks DEF Finish
<1>5. SlotsKept'
  <2>1. Cardinality(Running') <= Cardinality(Running) /\ Cardinality(Running') \in Nat
    BY <1>1, RunningFinite, FS_Subset, FS_CardinalityType
  <2>2. Slots(config, host.cpus) \in Nat
    BY SettingsTyped DEF Shape
  <2>3. Cardinality(Running') <= Slots(config, host.cpus)
    BY <2>1, <2>2, RunningFinite DEF SlotsKept
  <2> QED BY <1>4, <2>3, UsedTyped DEF Finish, SlotsKept
<1>6. BlindKept'
  BY <1>2 DEF BlindKept
<1>7. Borne'
  <2> SUFFICES ASSUME Gated, ~raced, ~blind, NEW x \in Running'
               PROVE  \E w \in Running' : Bears(w)'
    BY <1>2 DEF Borne
  <2>1. PICK w \in Running : Bears(w)
    BY <1>1 DEF Borne
  <2>2. PICK y \in Running' : Running' \ {y} \subseteq Running \ {w}
    <3>1. CASE w = j
      BY <1>1, <3>1
    <3>2. CASE w # j
      BY <1>1, <3>2
    <3> QED BY <3>1, <3>2
  <2> DEFINE S == Running \ {w}
             T == Running' \ {y}
  <2>3. S \in SUBSET Jobs /\ T \in SUBSET S
    BY <1>1, <2>2
  <2>4. Claimed(T) <= Claimed(S) /\ Claimed(S) \in Nat /\ Claimed(T) \in Nat
    BY <2>3, ClaimsGrow, ClaimsFinite
  <2>5. restSeen \in Int /\ Unseen \in Int
    BY UnseenTyped DEF Shape
  <2>6. restSeen + Claimed(T) - Unseen <= restSeen + Claimed(S) - Unseen
    BY <2>4, <2>5
  <2>7. ~Exceeds(restSeen + Claimed(T) - Unseen, config.maxPercent)
    BY <2>1, <2>4, <2>5, <2>6, LessIsWithin DEF Bears
  <2>8. Claimed(Running \ {y})' = Claimed(T)
    BY DEF Claimed, Claims
  <2> QED BY <1>2, <2>7, <2>8 DEF Bears
<1> QED BY <1>3, <1>5, <1>6, <1>7

LEMMA StepKeeps == HostInv /\ [Next]_vars => HostInv'
<1> SUFFICES ASSUME HostInv, [Next]_vars PROVE HostInv'
  OBVIOUS
<1>1. CASE Start
  BY <1>1, StartKeeps
<1>2. ASSUME NEW j \in Jobs, Process(j) \/ Requeue(j) \/ Grow(j) \/ Shrink(j) PROVE HostInv'
  BY <1>2, AdmitKeeps, WaitKeeps, GrowKeeps, ShrinkKeeps DEF Process
<1>3. ASSUME NEW j \in Jobs, NEW how \in {"done", "killed"}, Finish(j, how) PROVE HostInv'
  BY <1>3, FinishKeeps
<1>4. ASSUME NEW n \in 0 .. Total, Others(n) PROVE HostInv'
  BY <1>4, OthersKeeps
<1>5. CASE UNCHANGED vars
  <2>1. Running' = Running /\ Used' = Used
    BY <1>5 DEF vars, Running, Used, Taken
  <2>2. Borne' /\ BlindKept'
    BY <1>5, <2>1, ClaimsStay DEF vars
  <2>3. Shape' /\ Kept' /\ Detected'
    BY <1>5 DEF HostInv, vars, history, Shape, Kept, Detected
  <2>4. SlotsKept'
    BY <1>5, <2>1 DEF HostInv, vars, SlotsKept
  <2> QED BY <2>2, <2>3, <2>4 DEF HostInv
<1> QED BY <1>1, <1>2, <1>3, <1>4, <1>5 DEF Next

\* What the claims say of the memory that is used.
LEMMA GateConclusion == HostInv => OverLimitOnlyByRace
<1> SUFFICES ASSUME HostInv, config.enabled, Readable, ~raced, NEW x \in Running
             PROVE  \E w \in Running :
                      ~Exceeds(Used - held[w] - Unseen - Arrived, config.maxPercent)
  BY DEF OverLimitOnlyByRace
<1> USE DEF HostInv
<1>1. Arrived \in Nat /\ rest \in Nat /\ restSeen \in Nat /\ Unseen \in Nat /\ Used \in Nat
      /\ Arrived >= rest - restSeen
  BY MachineTyped, UnseenTyped, UsedTyped DEF Arrived, Shape
<1>2. \A w \in Running : w \in Jobs /\ held[w] \in Nat
  BY DEF Running, Shape
<1>3. CASE ~blind
  <2>1. PICK w \in Running : Bears(w)
    BY <1>3 DEF Borne, Gated
  <2> DEFINE claimed == Claimed(Running \ {w})
  <2>2. claimed \in Nat
    BY ClaimsFinite DEF Running
  <2>3. Used - held[w] <= rest + claimed
    BY OthersWithinClaims
  <2>4. ~Exceeds(restSeen + claimed - Unseen, config.maxPercent)
    BY <2>1 DEF Bears
  <2>5. held[w] \in Nat
    BY <1>2
  <2> HIDE DEF claimed
  <2>6. Used - held[w] - Unseen - Arrived <= restSeen + claimed - Unseen
    BY <1>1, <2>2, <2>3, <2>5
  <2>7. ~Exceeds(Used - held[w] - Unseen - Arrived, config.maxPercent)
    BY <1>1, <2>2, <2>4, <2>5, <2>6, LessIsWithin
  <2> QED BY <2>7
<1>4. CASE blind
  <2>1. ~Exceeds(Total - host.shared, config.maxPercent) /\ Unseen = host.shared
    BY <1>4 DEF BlindKept, Gated, Unseen
  <2>2. held[x] \in Nat /\ Used <= Total
    BY <1>2 DEF SlotsKept
  <2>3. Used - held[x] - Unseen - Arrived <= Total - host.shared
    BY <1>1, <2>1, <2>2
  <2>4. host.shared \in Int
    BY MachineTyped
  <2>5. ~Exceeds(Used - held[x] - Unseen - Arrived, config.maxPercent)
    BY <1>1, <2>1, <2>2, <2>3, <2>4, LessIsWithin
  <2> QED BY <2>5
<1> QED BY <1>3, <1>4

(***************************************************************************)
(* On every machine and for all jobs: nobody uses memory that is not       *)
(* there, and no more tasks run than the settings ask for.                 *)
(***************************************************************************)
THEOREM HostTypeCorrect == Spec => []TypeOK
<1>1. HostInv => TypeOK
  BY SettingsTyped DEF HostInv, Shape, SlotsKept, TypeOK
<1> QED BY <1>1, InitHostInv, StepKeeps, PTL DEF Spec

(***************************************************************************)
(* CheckResourcesAvailable keeps the machine within the limit but for one  *)
(* job and for what the rest of the machine came to use since, however the *)
(* jobs and the rest grow and shrink, unless a job was admitted beside one *)
(* that had yet to grow.                                                   *)
(***************************************************************************)
THEOREM GateHolds == Spec => []OverLimitOnlyByRace
BY GateConclusion, InitHostInv, StepKeeps, PTL DEF Spec

(***************************************************************************)
(* detectHardware reports an acceleration this machine has, the one no     *)
(* other it has beats, and none only where there is none.                  *)
(***************************************************************************)
THEOREM AccelerationVerified == Spec => []AccelerationIsVerified
<1>1. HostInv => AccelerationIsVerified
  BY DetectedIsVerified DEF HostInv
<1> QED BY <1>1, InitHostInv, StepKeeps, PTL DEF Spec

=============================================================================
