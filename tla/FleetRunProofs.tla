---------------------------- MODULE FleetRunProofs ----------------------------
(* The fleet's run, for any devices, zones and deadline: it uses the request  *)
(* ledger as any client does, so that what RequestLedgerProofs shows of every *)
(* set of clients holds of the fleet beside cycles run by hand.               *)
EXTENDS FleetRun, RequestLedgerProofs

-----------------------------------------------------------------------------
(* The order of things.                                                       *)

LEMMA SortedExists ==
    ASSUME NEW n \in Nat
    PROVE  \A S \in SUBSET Nat : IsFiniteSet(S) /\ Cardinality(S) = n =>
              \E s \in [1..n -> S] : \A i, j \in DOMAIN s : i < j => s[i] < s[j]
<1> DEFINE Orders(s, S, k) ==
             s \in [1..k -> S] /\ \A i, j \in DOMAIN s : i < j => s[i] < s[j]
           Fails(k) == \E S \in SUBSET Nat :
             IsFiniteSet(S) /\ Cardinality(S) = k /\ ~\E s : Orders(s, S, k)
           Wrong == {k \in Nat : Fails(k)}
<1> SUFFICES ASSUME Wrong # {} PROVE FALSE
  OBVIOUS
<1>1. PICK m \in Wrong : \A k \in Wrong : m <= k
  <2>1. Wrong \subseteq Nat
    OBVIOUS
  <2> HIDE DEF Wrong
  <2> QED  BY <2>1, Least
<1>2. PICK S \in SUBSET Nat : IsFiniteSet(S) /\ Cardinality(S) = m /\ ~\E s : Orders(s, S, m)
  <2>1. Fails(m)
    OBVIOUS
  <2> QED  BY <2>1
<1>3. m \in Nat
  OBVIOUS
<1>4. m # 0
  <2> SUFFICES ASSUME m = 0 PROVE FALSE
    OBVIOUS
  <2>1. Orders([i \in 1..0 |-> 0], S, 0)
    OBVIOUS
  <2> QED  BY <1>2, <2>1
<1>5. S # {}
  BY <1>2, <1>4, FS_EmptySet
<1>6. PICK x \in S : \A y \in S : x <= y
  BY <1>5, Least
<1> DEFINE R == S \ {x}
<1>7. IsFiniteSet(R) /\ Cardinality(R) = m - 1 /\ R \in SUBSET Nat
  BY <1>2, <1>6, FS_RemoveElement
<1>8. PICK t : Orders(t, R, m - 1)
  <2>1. m - 1 \in Nat /\ m - 1 \notin Wrong
    <3> HIDE DEF Wrong
    <3> QED  BY <1>1, <1>3, <1>4
  <2>2. ~Fails(m - 1)
    BY <2>1
  <2> HIDE DEF Orders, R
  <2> QED  BY <1>7, <2>2
<1> DEFINE s == [i \in 1..m |-> IF i = 1 THEN x ELSE t[i - 1]]
<1>9. ASSUME NEW i \in 2..m
      PROVE  i - 1 \in 1..(m - 1) /\ t[i - 1] \in S /\ t[i - 1] # x /\ t[i - 1] \in Nat
  <2>1. i - 1 \in 1..(m - 1) /\ t \in [1..(m - 1) -> R]
    BY <1>3, <1>8
  <2>2. t[i - 1] \in R
    BY <2>1
  <2> QED  BY <1>2, <2>1, <2>2
<1>10. s \in [1..m -> S]
  BY <1>3, <1>9
<1>11. ASSUME NEW i \in 1..m, NEW j \in 1..m, i < j
       PROVE  s[i] < s[j]
  <2>1. j \in 2..m
    BY <1>3, <1>11
  <2>2. CASE i = 1
    BY <1>6, <1>9, <2>1, <2>2
  <2>3. CASE i # 1
    <3>1. i \in 2..m /\ i - 1 \in 1..(m - 1) /\ j - 1 \in 1..(m - 1) /\ i - 1 < j - 1
      BY <1>3, <1>11, <2>1, <2>3
    <3>2. t[i - 1] < t[j - 1]
      BY <1>8, <3>1
    <3> QED  BY <2>1, <2>3, <3>2
  <2> QED  BY <2>2, <2>3
<1>12. Orders(s, S, m)
  <2>1. DOMAIN s = 1..m
    OBVIOUS
  <2> HIDE DEF s
  <2> QED  BY <1>10, <1>11, <2>1
<1> QED  BY <1>2, <1>12

\* A set of numbers in their order is a sequence of all of them.
LEMMA SortedIs ==
    ASSUME NEW S \in SUBSET Nat, IsFiniteSet(S)
    PROVE  /\ Sorted(S) \in Seq(S) /\ Len(Sorted(S)) = Cardinality(S)
           /\ \A x \in S : \E i \in 1..Len(Sorted(S)) : Sorted(S)[i] = x
<1> DEFINE n == Cardinality(S)
           s == Sorted(S)
<1>1. n \in Nat
  BY FS_CardinalityType
<1>2. s \in [1..n -> S] /\ \A i, j \in DOMAIN s : i < j => s[i] < s[j]
  BY <1>1, SortedExists DEF Sorted
<1> HIDE DEF s
<1>3. ASSUME NEW i \in 1..n, NEW j \in 1..n, i # j
      PROVE  s[i] # s[j]
  <2>1. s[i] \in Nat /\ s[j] \in Nat /\ DOMAIN s = 1..n
    BY <1>2
  <2>2. i < j \/ j < i
    BY <1>1, <1>3
  <2> QED  BY <1>2, <2>1, <2>2
<1>4. s \in Injection(1..n, S)
  BY <1>2, <1>3 DEF Injection, IsInjective
<1>5. IsFiniteSet(1..n) /\ Cardinality(1..n) = n
  BY <1>1, FS_Interval
<1>6. s \in Surjection(1..n, S)
  BY <1>4, <1>5, FS_Injection
<1>7. s \in Seq(S) /\ Len(s) = n
  BY <1>1, <1>2
<1> QED  BY <1>6, <1>7 DEF Surjection, s

\* order_zones(): the zones to serve are zones of the fleet.
LEMMA ZonesOrdered ==
    ASSUME NEW devices \in SUBSET Devices, served \in Seq(Stamps)
    PROVE  OrderZones(devices) \in Seq(Zones)
<1> DEFINE zones == {ZoneOf[d] : d \in devices}
           never == {z \in zones : \A i \in 1..Len(served) : served[i].zone # z}
           ages == [i \in 1..Len(served) |-> served[i].zone]
           aged == Sorted(never) \o ages
<1>1. zones \subseteq Zones /\ never \in SUBSET Nat /\ never \subseteq Zones
  BY FleetAssumption, LedgerAssumption
<1>2. IsFiniteSet(never)
  <2> DEFINE f == [d \in devices |-> ZoneOf[d]]
  <2>1. f \in Surjection(devices, zones)
    BY DEF Surjection
  <2>2. IsFiniteSet(devices)
    BY FleetAssumption, FS_Subset
  <2> HIDE DEF f, zones
  <2>3. IsFiniteSet(zones)
    BY <2>1, <2>2, FS_Surjection
  <2> QED  BY <2>3, FS_Subset
<1>3. Sorted(never) \in Seq(Zones)
  <2> HIDE DEF never
  <2>1. Sorted(never) \in Seq(never)
    BY <1>1, <1>2, SortedIs
  <2> QED  BY <1>1, <2>1, SeqMonotonic
<1>4. ages \in Seq(Zones)
  <2>1. ASSUME NEW i \in 1..Len(served) PROVE served[i].zone \in Zones
    <3>1. served[i] \in Stamps
      OBVIOUS
    <3> QED  BY <3>1 DEF Stamps
  <2>2. ages \in [1..Len(served) -> Zones] /\ Len(served) \in Nat
    BY <2>1
  <2> HIDE DEF ages
  <2> QED  BY <2>2
<1>5. aged \in Seq(Zones)
  <2> HIDE DEF ages, never
  <2> QED  BY <1>3, <1>4, ConcatProperties
<1>6. OrderZones(devices) = Filter(aged, {z \in zones : LiveZone(z, devices)})
                            \o Filter(aged, {z \in zones : ~LiveZone(z, devices)})
  BY DEF OrderZones
<1> HIDE DEF aged
<1>7. ASSUME NEW S PROVE Filter(aged, S) \in Seq(Zones)
  <2>1. Filter(aged, S) \in Seq(Zones \cap S)
    BY <1>5, FilterIs
  <2> QED  BY <2>1, SeqMonotonic
<1> QED  BY <1>6, <1>7, ConcatProperties

\* The devices of a zone, each once.
Listed(r, D) ==
    /\ r \in Seq(D) /\ Len(r) = Cardinality(D)
    /\ \A d \in D : Has(r, d)

EachListed(aged) == DOMAIN aged = Zones /\ \A z \in Zones : Listed(aged[z], DevicesOf(z))

LEMMA DevicesOrdered ==
    ASSUME EachListed(recent), NEW z \in Zones
    PROVE  OrderDevices(z) \in Seq(Devices)
<1>1. recent[z] \in Seq(DevicesOf(z)) /\ DevicesOf(z) \subseteq Devices
  BY DEF EachListed, Listed, DevicesOf
<1>2. ASSUME NEW S PROVE Filter(recent[z], S) \in Seq(Devices)
  <2>1. Filter(recent[z], S) \in Seq(DevicesOf(z) \cap S)
    BY <1>1, FilterIs
  <2> QED  BY <1>1, <2>1, SeqMonotonic
<1>3. PICK S, T : OrderDevices(z) = Filter(recent[z], S) \o Filter(recent[z], T)
  BY DEF OrderDevices
<1> QED  BY <1>2, <1>3, ConcatProperties

\* A device whose poll_state.json is written goes to the end of its list, and the
\* list still has each device once.
LEMMA MovedListed ==
    ASSUME NEW D \in SUBSET Devices, NEW r, Listed(r, D), NEW d \in D
    PROVE  Listed(Append(Filter(r, Devices \ {d}), d), D)
<1> DEFINE n == Len(r)
           P == Picked(r, Devices \ {d}, n)
           f == Filter(r, Devices \ {d})
           g == Append(f, d)
<1>1. r \in Seq(D) /\ n = Cardinality(D) /\ n \in Nat
  BY DEF Listed
<1>2. r \in Surjection(1..n, D)
  BY <1>1 DEF Surjection, Listed, Has
<1>3. IsFiniteSet(1..n) /\ Cardinality(1..n) = n /\ IsFiniteSet(D)
  <2>1. IsFiniteSet(D)
    BY FS_Subset, FleetAssumption
  <2> HIDE DEF n
  <2>2. IsFiniteSet(1..n) /\ Cardinality(1..n) = n
    BY <1>1, FS_Interval
  <2> QED  BY <2>1, <2>2
<1>4. r \in Injection(1..n, D)
  BY <1>1, <1>2, <1>3, FS_Surjection
<1>5. PICK k \in 1..n : r[k] = d
  BY DEF Listed, Has
<1>6. P = (1..n) \ {k}
  <2>1. \A i \in 1..n : r[i] \in Devices /\ (r[i] = d => i = k)
    BY <1>1, <1>4, <1>5 DEF Injection, IsInjective
  <2> QED  BY <1>5, <2>1 DEF Picked
<1>7. Cardinality(P) = n - 1
  <2> HIDE DEF n
  <2>1. Cardinality((1..n) \ {k}) = Cardinality(1..n) - 1
    BY <1>3, FS_RemoveElement
  <2> QED  BY <1>3, <1>6, <2>1
<1>8. /\ f \in Seq(D \cap (Devices \ {d})) /\ Len(f) = Cardinality(P)
      /\ \A i \in P : Has(f, r[i])
  BY <1>1, FilterIs
<1> HIDE DEF P
<1>9. f \in Seq(D)
  BY <1>8, SeqMonotonic
<1> HIDE DEF f
<1>10. /\ g \in Seq(D) /\ Len(g) = n
       /\ \A i \in 1..Len(f) : g[i] = f[i]
       /\ g[n] = d
  BY <1>1, <1>7, <1>8, <1>9, AppendProperties
<1> HIDE DEF g
<1>11. ASSUME NEW e \in D
       PROVE  \E i \in 1..n : g[i] = e
  <2>1. CASE e = d
    BY <1>5, <1>10, <2>1
  <2>2. CASE e # d
    <3>1. PICK i \in 1..n : r[i] = e
      BY DEF Listed, Has
    <3>2. i \in P
      BY <1>5, <1>6, <2>2, <3>1
    <3>3. PICK j \in 1..Len(f) : f[j] = e
      BY <1>8, <3>1, <3>2 DEF Has
    <3>4. j \in 1..n
      BY <1>1, <1>7, <1>8, <3>3
    <3> QED  BY <1>10, <3>3, <3>4
  <2> QED  BY <2>1, <2>2
<1>12. Listed(g, D)
  BY <1>1, <1>10, <1>11 DEF Listed, Has
<1> QED  BY <1>12 DEF f, g

\* Whether or not a cycle leaves poll_state.json as it was, every zone's list has
\* each of its devices once.
LEMMA PersistedListed ==
    ASSUME EachListed(recent), NEW d \in Devices, Persisted(d)
    PROVE  EachListed(recent')
<1>1. CASE recent' = recent
  BY <1>1 DEF EachListed
<1>2. CASE recent' = Renewed(d)
  <2> DEFINE own == ZoneOf[d]
             moved == Append(Filter(recent[own], Devices \ {d}), d)
  <2>1. own \in Zones /\ d \in DevicesOf(own) /\ DevicesOf(own) \in SUBSET Devices
    BY FleetAssumption DEF DevicesOf
  <2>2. Listed(moved, DevicesOf(own))
    BY <2>1, MovedListed DEF EachListed
  <2>3. recent' = [recent EXCEPT ![own] = moved]
    BY <1>2 DEF Renewed
  <2> HIDE DEF own, moved
  <2>4. DOMAIN recent' = Zones /\ \A z \in Zones : recent'[z] = IF z = own THEN moved ELSE recent[z]
    BY <2>1, <2>3 DEF EachListed
  <2> QED  BY <2>2, <2>4 DEF EachListed
<1> QED  BY <1>1, <1>2 DEF Persisted

-----------------------------------------------------------------------------
(* The run.                                                                   *)

RunInv ==
    /\ phase \in {"idle", "zones", "fetch", "query"}
    /\ elapsed \in 0..Period /\ busy \in Nat /\ upsets \in 0..MaxUpsets
    /\ planned \in SUBSET Devices
    /\ queue \in Seq(Zones) /\ held \in Seq(Devices)
    /\ zone \in Zones \cup {None} /\ (phase \in {"fetch", "query"} => zone \in Zones)
    /\ names \in Seq(Providers) /\ (phase = "query" => names # <<>>)
    /\ results \in BOOLEAN /\ ran \in BOOLEAN
    /\ todo \in Seq(Devices)
    /\ EachListed(recent)
    /\ failing \in SUBSET FailingZones
    /\ shown \in [zone : Zones \cup {None}, answered : BOOLEAN]

\* Whatever a run does to the ledger, it does as one of its clients.
LEMMA RunUsesLedger ==
    ASSUME RunInv, [Next]_vars
    PROVE  [LedgerNext]_ledgerVars
<1> USE FleetAssumption DEF RunInv
<1>1. CASE \/ StartRun \/ DeferZone \/ FetchZone \/ SkipProvider \/ TakeAnswer \/ DeferDevice
           \/ RunDevice \/ DeviceIsBusy \/ NotServed \/ ServeHeld
  BY <1>1 DEF StartRun, DeferZone, FetchZone, SkipProvider, TakeAnswer, DeferDevice,
              RunDevice, DeviceIsBusy, NotServed, ServeHeld
<1>2. CASE AskProvider
  <2>1. Head(names) \in Providers
    BY <1>2, HeadTailProperties DEF AskProvider
  <2>2. [op |-> "acquire", on |-> Head(names)] \in Asks
    BY <2>1 DEF Asks
  <2> QED  BY <1>2, <2>2 DEF AskProvider, LedgerNext, LedgerStep
<1>3. CASE MarkServed
  <2>1. [op |-> "mark", on |-> zone] \in Asks
    BY <1>3 DEF MarkServed, Ready, Asks
  <2> QED  BY <1>3, <2>1 DEF MarkServed, LedgerNext, LedgerStep
<1>4. CASE EndRun \/ RunDies
  BY <1>4 DEF EndRun, RunDies, LedgerNext, LedgerStep
<1>5. CASE FleetRequest \/ RequestFails
  BY <1>5 DEF FleetRequest, RequestFails, LedgerNext, LedgerStep
<1>6. CASE OtherRequest
  BY <1>6 DEF OtherRequest, Others, LedgerNext, LedgerStep
<1>7. CASE Disturbance
  <2>1. \A p \in Providers : [op |-> "acquire", on |-> p] \in Asks
    BY DEF Asks
  <2> QED  BY <1>7, <2>1 DEF Disturbance, Others, LedgerNext, LedgerStep
<1>8. CASE Tick
  BY <1>8 DEF Tick, LedgerNext
<1>9. CASE UNCHANGED vars
  BY <1>9 DEF vars
<1> QED  BY <1>1, <1>2, <1>3, <1>4, <1>5, <1>6, <1>7, <1>8, <1>9 DEF Next

LEMMA RunInit == Init => RunInv
<1> SUFFICES ASSUME Init PROVE RunInv
  OBVIOUS
<1>1. EachListed(recent)
  <2>1. ASSUME NEW z \in Zones PROVE Listed(Sorted(DevicesOf(z)), DevicesOf(z))
    <3>1. DevicesOf(z) \in SUBSET Nat /\ IsFiniteSet(DevicesOf(z))
      BY FleetAssumption, FS_Subset DEF DevicesOf
    <3> QED  BY <3>1, SortedIs DEF Listed, Has
  <2>2. recent = [z \in Zones |-> Sorted(DevicesOf(z))]
    BY DEF Init
  <2> QED  BY <2>1, <2>2 DEF EachListed
<1>2. <<>> \in Seq(Zones) /\ <<>> \in Seq(Devices) /\ <<>> \in Seq(Providers)
  BY EmptySeq
<1>3. elapsed \in 0..Period /\ busy \in Nat /\ upsets \in 0..MaxUpsets
  <2>1. Cardinality(failing) \in Nat
    BY FleetAssumption, FS_Subset, FS_CardinalityType DEF Init
  <2> QED  BY <2>1, FleetAssumption DEF Init
<1>4. /\ phase = "idle" /\ planned \in SUBSET Devices /\ zone = None
      /\ results \in BOOLEAN /\ ran \in BOOLEAN /\ failing \in SUBSET FailingZones
      /\ shown \in [zone : Zones \cup {None}, answered : BOOLEAN]
  BY DEF Init
<1>5. queue \in Seq(Zones) /\ held \in Seq(Devices) /\ names \in Seq(Providers) /\ todo \in Seq(Devices)
  BY <1>2 DEF Init
<1> QED  BY <1>1, <1>3, <1>4, <1>5 DEF RunInv

LEMMA RunNext ==
    ASSUME RunInv, served \in Seq(Stamps), [Next]_vars
    PROVE  RunInv'
<1> USE FleetAssumption DEF RunInv
<1>0. upsets' = upsets \/ Upset => upsets' \in 0..MaxUpsets
  BY DEF Upset
<1>1. CASE StartRun
  <2>1. PICK hold \in SUBSET MayHold :
          /\ planned' = Devices \ hold
          /\ queue' = OrderZones(Devices \ hold)
          /\ held' = Sorted(hold \ {Live})
          /\ IF Live \in hold THEN RunHeld(Live) ELSE busy' = 0 /\ UNCHANGED recent
    BY <1>1 DEF StartRun
  <2>2. queue' \in Seq(Zones)
    BY <2>1, ZonesOrdered
  <2>3. held' \in Seq(Devices)
    <3>1. hold \ {Live} \in SUBSET Nat /\ IsFiniteSet(hold \ {Live}) /\ hold \ {Live} \subseteq Devices
      BY FS_Subset
    <3>2. Sorted(hold \ {Live}) \in Seq(hold \ {Live})
      BY <3>1, SortedIs
    <3> QED  BY <2>1, <3>1, <3>2, SeqMonotonic
  <2>4. EachListed(recent') /\ busy' \in Nat
    <3>1. CASE Live \in hold
      BY <2>1, <3>1, PersistedListed DEF RunHeld, EachListed
    <3>2. CASE Live \notin hold
      BY <2>1, <3>2 DEF EachListed
    <3> QED  BY <3>1, <3>2
  <2>5. planned' \in SUBSET Devices
    BY <2>1
  <2> QED  BY <1>1, <2>2, <2>3, <2>4, <2>5 DEF StartRun
<1>2. CASE DeferZone
  BY <1>2, HeadTailProperties DEF DeferZone, Ready
<1>3. CASE FetchZone
  <2>1. Head(queue) \in Zones /\ Tail(queue) \in Seq(Zones)
    BY <1>3, HeadTailProperties DEF FetchZone
  <2>2. OrderDevices(Head(queue)) \in Seq(Devices)
    BY <2>1, DevicesOrdered
  <2> QED  BY <1>3, <2>1, <2>2 DEF FetchZone
<1>4. CASE SkipProvider \/ TakeAnswer
  <2>1. Tail(names) \in Seq(Providers)
    BY <1>4, HeadTailProperties DEF SkipProvider, TakeAnswer, Ready
  <2> QED  BY <1>4, <2>1 DEF SkipProvider, TakeAnswer, Ready
<1>5. CASE AskProvider \/ MarkServed \/ NotServed
  <2>1. CASE AskProvider
    BY <2>1 DEF AskProvider, Ready
  <2>2. CASE MarkServed
    BY <2>2 DEF MarkServed, Ready
  <2>3. CASE NotServed
    BY <2>3 DEF NotServed, Ready
  <2> QED  BY <1>5, <2>1, <2>2, <2>3
<1>6. CASE DeferDevice \/ DeviceIsBusy
  <2>1. Tail(todo) \in Seq(Devices)
    BY <1>6, HeadTailProperties DEF DeferDevice, DeviceIsBusy
  <2> QED  BY <1>0, <1>6, <2>1 DEF DeferDevice, DeviceIsBusy, Ready
<1>7. CASE RunDevice
  <2>1. Head(todo) \in Devices /\ Tail(todo) \in Seq(Devices)
    BY <1>7, HeadTailProperties DEF RunDevice
  <2>2. /\ EachListed(recent') /\ upsets' \in 0..MaxUpsets
        /\ shown' \in [zone : Zones \cup {None}, answered : BOOLEAN]
    <3>1. CASE /\ Persisted(Head(todo)) /\ shown' = [zone |-> zone, answered |-> results]
               /\ UNCHANGED upsets
      BY <2>1, <3>1, PersistedListed
    <3>2. CASE Upset /\ UNCHANGED <<recent, shown>>
      BY <1>0, <3>2 DEF EachListed
    <3> QED  BY <1>7, <3>1, <3>2 DEF RunDevice
  <2>3. busy' \in Nat
    BY <1>7 DEF RunDevice
  <2> QED  BY <1>7, <2>1, <2>2, <2>3 DEF RunDevice, Ready
<1>8. CASE ServeHeld
  <2>1. Head(held) \in Devices /\ Tail(held) \in Seq(Devices)
    BY <1>8, HeadTailProperties DEF ServeHeld
  <2>2. EachListed(recent') /\ busy' \in Nat
    <3>1. CASE Expired
      BY <1>8, <3>1 DEF ServeHeld, EachListed
    <3>2. CASE ~Expired
      BY <1>8, <2>1, <3>2, PersistedListed DEF ServeHeld, RunHeld, EachListed
    <3> QED  BY <3>1, <3>2
  <2> QED  BY <1>8, <2>1, <2>2 DEF ServeHeld, Ready
<1>9. CASE EndRun \/ RunDies
  <2>1. <<>> \in Seq(Zones) /\ <<>> \in Seq(Devices) /\ <<>> \in Seq(Providers)
    BY EmptySeq
  <2>2. /\ phase' = "idle" /\ planned' = {} /\ zone' = None /\ busy' = 0
        /\ queue' = <<>> /\ held' = <<>> /\ names' = <<>> /\ todo' = <<>>
        /\ results' = FALSE /\ ran' = FALSE
        /\ UNCHANGED <<elapsed, recent, failing, shown>>
    BY <1>9 DEF EndRun, RunDies, Finished
  <2>3. upsets' \in 0..MaxUpsets
    BY <1>0, <1>9 DEF EndRun, RunDies
  <2>4. /\ queue' \in Seq(Zones) /\ held' \in Seq(Devices)
        /\ names' \in Seq(Providers) /\ todo' \in Seq(Devices)
    BY <2>1, <2>2
  <2>5. results' \in BOOLEAN /\ ran' \in BOOLEAN /\ planned' \in SUBSET Devices /\ busy' \in Nat
    BY <2>2
  <2> QED  BY <2>2, <2>3, <2>4, <2>5
<1>10. CASE FleetRequest \/ OtherRequest
  BY <1>10 DEF FleetRequest, OtherRequest, runVars
<1>11. CASE RequestFails \/ Disturbance
  BY <1>0, <1>11 DEF RequestFails, Disturbance
<1>12. CASE Tick
  <2>1. elapsed' \in 0..Period /\ busy' \in Nat
    BY <1>12 DEF Tick, UpTo
  <2> QED  BY <1>12, <2>1 DEF Tick
<1>13. CASE UNCHANGED vars
  BY <1>13 DEF vars, runVars
<1> QED  BY <1>1, <1>2, <1>3, <1>4, <1>5, <1>6, <1>7, <1>8, <1>9, <1>10, <1>11, <1>12, <1>13
         DEF Next

\* The ledger's invariants and the run's are kept together: the run plans its
\* zones from the stamps of the ledger.
FleetInv == RunInv /\ LedgerInv /\ Typed

LEMMA FleetInvariant == Spec => []FleetInv
<1>1. Init => FleetInv
  <2>1. LedgerInit => Typed
    BY LedgerAssumption, EmptySeq DEF LedgerInit, Typed
  <2> QED  BY <2>1, RunInit, LedgerInitGood DEF Init, FleetInv
<1>2. FleetInv /\ [Next]_vars => FleetInv'
  <2> SUFFICES ASSUME RunInv, LedgerInv, Typed, [Next]_vars PROVE FleetInv'
    BY DEF FleetInv
  <2>1. [LedgerNext]_ledgerVars
    BY RunUsesLedger
  <2>2. LedgerInv' /\ Typed'
    BY <2>1, LedgerNextGood, TypedNext
  <2>3. RunInv'
    BY RunNext DEF Typed
  <2> QED  BY <2>2, <2>3 DEF FleetInv
<1> QED  BY <1>1, <1>2, PTL DEF Spec

\* fetch_zone(), mark_served(): the fleet's run, beside the cycles run by hand,
\* implements the request ledger with the run as one of its clients.
THEOREM FleetImplementsLedger == Spec => LedgerSpec
<1>1. Init => LedgerInit
  BY DEF Init
<1>2. FleetInv /\ [Next]_vars => [LedgerNext]_ledgerVars
  BY RunUsesLedger DEF FleetInv
<1> QED  BY <1>1, <1>2, FleetInvariant, PTL DEF Spec, LedgerSpec

\* Whatever its zones, its deadline and what fails or dies, the fleet's run and
\* the cycles run by hand keep the spacing of the requests.
THEOREM FleetIsSpaced == Spec => RequestsSpaced
<1> QED  BY FleetImplementsLedger, SlotsAreSpaced, PTL

\* No run asks a provider that any process found failing, while it is paused.
THEOREM FleetHonoursPauses == Spec => PauseHonoured
<1> QED  BY FleetImplementsLedger, PausesHold, PTL

\* A provider is refused to the fleet for less than PROVIDER_PAUSE_S.
THEOREM FleetIsNotShutOut == Spec => PauseEnds
<1> QED  BY FleetImplementsLedger, PausesRunOut, PTL

\* A run keeps its shape whatever it defers, and the order in which it takes a
\* zone's devices has each of them exactly once, however runs end.
THEOREM FleetTypeCorrect == Spec => []TypeOK
<1>1. FleetInv => TypeOK
  <2> SUFFICES ASSUME FleetInv PROVE TypeOK
    OBVIOUS
  <2>1. LedgerTypeOK
    BY DEF FleetInv, LedgerInv, Shape, Typed, Rests, LedgerTypeOK
  <2>2. ASSUME NEW z \in Zones
        PROVE  /\ Len(recent[z]) = Cardinality(DevicesOf(z))
               /\ {recent[z][i] : i \in 1..Len(recent[z])} = DevicesOf(z)
    <3>1. Listed(recent[z], DevicesOf(z))
      BY DEF FleetInv, RunInv, EachListed
    <3> QED  BY <3>1 DEF Listed, Has
  <2>3. /\ \A i \in 1..Len(queue) : queue[i] \in Zones
        /\ \A i \in 1..Len(held) : held[i] \in Devices
        /\ \A i \in 1..Len(todo) : todo[i] \in Devices
    BY DEF FleetInv, RunInv
  <2> QED  BY <2>1, <2>2, <2>3 DEF FleetInv, RunInv, EachListed, TypeOK
<1> QED  BY <1>1, FleetInvariant, PTL
=============================================================================
