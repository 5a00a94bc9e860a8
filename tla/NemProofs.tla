----------------------------- MODULE NemProofs -----------------------------
(***************************************************************************)
(* The registries of the loadable drivers agree, for every number of slots, *)
(* regions, drivers and concurrent unloaders.                               *)
(*                                                                          *)
(* RegistriesAgree is not inductive.  NemInv adds what the code relies on   *)
(* without saying so: identifiers are never reused (SlotsRight); a driver   *)
(* has one hot-reload entry, and one loaded into the heap owns no region    *)
(* (EntriesRight); the driver under the loader's hands is in no state       *)
(* unload_driver accepts, so that no unload runs before its initialisation  *)
(* has registered what an unload must remove (LoaderRight); and every       *)
(* unloader at work knows the base of a driver that is Unloading, if it is  *)
(* there at all, and has left it no resource and no region by the time it   *)
(* removes it (UnloadersRight).                                             *)
(***************************************************************************)
EXTENDS NemDrivers, NaturalFacts, FiniteSetTheorems

-----------------------------------------------------------------------------
\* The loadable drivers.

DriverStates == {"none", "Loaded", "Initialized", "Registered", "Bound", "Active",
                 "Unloading", "Unloaded", "Faulted"}
DriverRecs == [id : Int, name : DriverNames \cup {"", "none"}, st : DriverStates, err : BOOLEAN]
Bases == Regions \cup {Heap}
Loading == {"init", "bind", "activate"}

NemTypes ==
    /\ drivers \in [Slots -> DriverRecs]
    /\ nextDriver \in Nat \ {0}
    /\ regions \in [Regions -> [owner : Int, layout : BOOLEAN]]
    /\ hotEntries \in SUBSET [id : Nat, base : Bases]
    /\ loader \in [pc : {"idle", "register"} \cup Loading, name : DriverNames \cup {""},
                   base : Bases, id : Nat, boot : BOOLEAN]
    /\ unloaders \in [Unloaders -> [pc : {"idle", "wait", "remove"}, id : Nat, base : Bases]]

SlotsRight ==
    /\ \A s \in Slots : drivers[s].id \in {-1, 0} \cup 1 .. (nextDriver - 1)
    /\ \A s \in Slots : drivers[s].name \in DriverNames => drivers[s].id >= 1
    /\ \A s, t \in Slots : drivers[s].id = drivers[t].id /\ drivers[s].id >= 1 => s = t

Counted == driverCount = Cardinality(Ids)

\* An unloader has freed the memory of the driver and not removed it yet.
Freed(id) == \E u \in Unloaders : unloaders[u].pc = "remove" /\ unloaders[u].id = id

EntriesRight ==
    /\ \A e \in hotEntries : e.id \in Ids
    /\ \A i \in Ids : \E e \in hotEntries : e.id = i
    /\ \A e, f \in hotEntries : e.id = f.id => e = f
    /\ \A e \in hotEntries, i \in Regions :
          /\ regions[i].owner = e.id => i = e.base
          /\ i = e.base /\ ~Freed(e.id) => regions[i].owner = e.id

OwnersRight == /\ \A i \in Regions : regions[i].owner \in Ids \cup {-1, Placeholder}
               /\ resources \subseteq Ids

LoaderRight ==
    /\ loader.pc = "register" /\ loader.base # Heap => regions[loader.base].owner = Placeholder
    /\ loader.pc \in {"register"} \cup Loading => loader.name \in DriverNames
    /\ loader.pc \in Loading =>
          \E s \in Slots : /\ drivers[s].id = loader.id /\ loader.id >= 1
                           /\ drivers[s].st \notin {"Active", "Unloading"}

UnloadersRight ==
    \A u \in Unloaders : unloaders[u].pc # "idle" =>
        /\ unloaders[u].id \in 1 .. (nextDriver - 1)
        /\ \A s \in Slots : drivers[s].id = unloaders[u].id => drivers[s].st = "Unloading"
        /\ \A e \in hotEntries : e.id = unloaders[u].id => e.base = unloaders[u].base
        /\ unloaders[u].pc = "remove" =>
              /\ unloaders[u].id \notin resources
              /\ \A i \in Regions : regions[i].owner # unloaders[u].id

\* The same of one unloader.
LEMMA UnloaderRight ==
    ASSUME UnloadersRight, NEW u \in Unloaders, unloaders[u].pc # "idle"
    PROVE  /\ unloaders[u].id \in 1 .. (nextDriver - 1)
           /\ \A s \in Slots : drivers[s].id = unloaders[u].id => drivers[s].st = "Unloading"
           /\ \A e \in hotEntries : e.id = unloaders[u].id => e.base = unloaders[u].base
           /\ unloaders[u].pc = "remove" =>
                 /\ unloaders[u].id \notin resources
                 /\ \A i \in Regions : regions[i].owner # unloaders[u].id
  BY Zenon DEF UnloadersRight

NemInv == /\ NemTypes /\ SlotsRight /\ Counted /\ EntriesRight /\ OwnersRight
          /\ LoaderRight /\ UnloadersRight

-----------------------------------------------------------------------------
\* The first free slot is one of the free slots.
LEMMA LowestIn ==
    ASSUME NEW S, S \subseteq Nat, S # {}
    PROVE  Lowest(S) \in S
  <1>1. \E x \in S : \A y \in S : x <= y
    BY ZenonT(60), LeastNatural
  <1> QED
    BY ZenonT(60), <1>1 DEF Lowest

\* The identifiers in use are those of the slots that hold a driver.
LEMMA IdsAre ==
    \A x : x \in Ids <=> x \notin {-1, 0} /\ \E s \in Slots : drivers[s].id = x
  BY DEF Ids

\* The identifiers in use are finitely many, all below the next one.
LEMMA IdsFinite ==
    ASSUME NemTypes, SlotsRight
    PROVE  IsFiniteSet(Ids) /\ Ids \subseteq 1 .. (nextDriver - 1)
  <1>1. Ids \subseteq 1 .. (nextDriver - 1)
    BY DEF Ids, SlotsRight
  <1>2. IsFiniteSet(1 .. (nextDriver - 1))
    <2>1. nextDriver \in Nat
      BY DEF NemTypes
    <2>2. 1 \in Int /\ nextDriver - 1 \in Int
      BY <2>1
    <2> QED
      BY <2>2, FS_Interval
  <1> QED
    BY ZenonT(60), <1>1, <1>2, FS_Subset

\* The slot SlotOf finds for a driver that is there.
LEMMA SlotFound ==
    ASSUME NemTypes, SlotsRight, NEW s \in Slots, drivers[s].id >= 1
    PROVE  SlotOf(drivers[s].id) = s
  <1> DEFINE S == {t \in Slots : drivers[t].id = drivers[s].id}
  <1>1. S \subseteq Nat /\ S # {}
    BY DEF Slots
  <1>2. Lowest(S) \in S
    BY <1>1, LowestIn
  <1> QED
    BY <1>2 DEF SlotOf, SlotsRight

\* A step that changes the state of one driver and not its identity.
LEMMA IdentitiesKept ==
    ASSUME NemTypes, SlotsRight, NEW s \in Slots, NEW d \in DriverRecs,
           d.id = drivers[s].id, d.name = drivers[s].name,
           drivers' = [drivers EXCEPT ![s] = d], nextDriver' = nextDriver
    PROVE  /\ drivers' \in [Slots -> DriverRecs]
           /\ \A t \in Slots : drivers'[t].id = drivers[t].id
           /\ Ids' = Ids /\ SlotsRight'
  <1>1. drivers' \in [Slots -> DriverRecs]
    BY DEF NemTypes
  <1>2. \A t \in Slots : drivers'[t].id = drivers[t].id /\ drivers'[t].name = drivers[t].name
    BY DEF NemTypes
  <1>3. Ids' = Ids
    BY <1>2 DEF Ids
  <1>4. SlotsRight'
    BY <1>2 DEF SlotsRight
  <1> QED
    BY <1>1, <1>2, <1>3, <1>4

-----------------------------------------------------------------------------
\* load_nem_v3: the placeholder takes a free region or none.
LEMMA LoadKeeps ==
    ASSUME NemAssumption, NemInv, NEW n \in DriverNames, NEW boot \in BOOLEAN, load_nem_v3(n, boot)
    PROVE  NemInv'
  <1> DEFINE free == {i \in Regions : regions[i].owner = -1}
             base == IF free = {} THEN Heap ELSE Lowest(free)
             r1 == IF free = {} THEN regions ELSE [regions EXCEPT ![base].owner = Placeholder]
             low == Lowest(Owned(Placeholder) \cup {base})
  <1> USE DEF NemInv
  <1>1. UNCHANGED <<drivers, driverCount, nextDriver, resources, hotEntries, unloaders>>
    BY DEF load_nem_v3
  <1>2. free # {} => base \in free
    BY LowestIn DEF Regions
  <1>3. base \in Bases
    BY <1>2 DEF Bases
  <1>4. regions' = IF free = {} THEN regions ELSE [r1 EXCEPT ![low].layout = TRUE]
    BY DEF load_nem_v3
  <1>5. \/ loader' = [pc |-> "register", name |-> n, base |-> base, id |-> 0, boot |-> boot]
        \/ loader' = IdleLoader
    BY DEF load_nem_v3
  <1> HIDE DEF low
  <1>6. /\ regions' \in [Regions -> [owner : Int, layout : BOOLEAN]]
        /\ \A i \in Regions : regions'[i].owner = IF free # {} /\ i = base THEN Placeholder
                                                  ELSE regions[i].owner
    <2>1. r1 \in [Regions -> [owner : Int, layout : BOOLEAN]]
          /\ \A i \in Regions : r1[i].owner = IF free # {} /\ i = base THEN Placeholder
                                              ELSE regions[i].owner
      <3>1. CASE free = {}
        BY <3>1 DEF NemTypes
      <3>2. CASE free # {}
        <4> HIDE DEF base
        <4>1. r1 = [regions EXCEPT ![base].owner = Placeholder]
          BY <3>2
        <4>2. Placeholder \in Int
          BY DEF Placeholder
        <4>3. regions \in [Regions -> [owner : Int, layout : BOOLEAN]]
          BY DEF NemTypes
        <4> QED
          BY ZenonT(60), <3>2, <4>1, <4>2, <4>3
      <3> QED
        BY <3>1, <3>2
    <2> HIDE DEF r1, base
    <2>2. CASE free = {}
      BY <1>4, <2>2 DEF NemTypes
    <2>3. CASE free # {}
      <3>1. regions' = [r1 EXCEPT ![low].layout = TRUE]
        BY <1>4, <2>3
      <3>2. regions' \in [Regions -> [owner : Int, layout : BOOLEAN]]
        BY ZenonT(60), <2>1, <3>1
      <3>3. \A i \in Regions : regions'[i].owner = r1[i].owner
        BY <2>1, <3>1
      <3> QED
        BY <2>1, <3>2, <3>3
    <2> QED
      BY <2>2, <2>3
  <1>7. Ids' = Ids
    BY <1>1 DEF Ids
  <1>8. \A i \in Regions, x \in Nat : regions'[i].owner = x <=> regions[i].owner = x
    <2>1. \A x \in Nat : x # -1 /\ x # Placeholder
      BY DEF Placeholder
    <2>2. free # {} => regions[base].owner = -1
      BY Zenon, <1>2
    <2> HIDE DEF base, free
    <2> QED
      BY Zenon, <1>6, <2>1, <2>2
  <1>9. NemTypes'
    <2>1. loader' \in [pc : {"idle", "register"} \cup Loading, name : DriverNames \cup {""},
                       base : Bases, id : Nat, boot : BOOLEAN]
      <3> HIDE DEF base
      <3>1. CASE loader' = IdleLoader
        BY <3>1 DEF IdleLoader, Bases
      <3>2. CASE loader' = [pc |-> "register", name |-> n, base |-> base, id |-> 0, boot |-> boot]
        BY <1>3, <3>2
      <3> QED
        BY <1>5, <3>1, <3>2
    <2> QED
      BY <1>1, <1>6, <2>1 DEF NemTypes
  <1> HIDE DEF r1
  <1>10. SlotsRight' /\ Counted'
    BY <1>1, <1>7 DEF SlotsRight, Counted
  <1>11. \A x : Freed(x)' <=> Freed(x)
    BY <1>1 DEF Freed
  <1>12. EntriesRight'
    <2>1. \A e \in hotEntries : e.id \in Nat
      BY DEF NemTypes
    <2> QED
      BY <1>1, <1>7, <1>8, <1>11, <2>1 DEF EntriesRight
  <1>13. OwnersRight'
    BY ZenonT(60), <1>1, <1>6, <1>7 DEF OwnersRight
  <1>14. LoaderRight'
    <2>1. CASE loader' = IdleLoader
      BY <2>1 DEF LoaderRight, IdleLoader, Loading
    <2>2. CASE loader' = [pc |-> "register", name |-> n, base |-> base, id |-> 0, boot |-> boot]
      <3>1. base # Heap => free # {} /\ base \in Regions
        BY <1>2
      <3> HIDE DEF base
      <3>2. base # Heap => regions'[base].owner = Placeholder
        BY <1>6, <3>1
      <3> QED
        BY <2>2, <3>2 DEF LoaderRight, Loading
    <2> QED
      BY <1>5, <2>1, <2>2
  <1>15. UnloadersRight'
    <2>1. \A u \in Unloaders : unloaders[u].id \in Nat
      BY DEF NemTypes
    <2> QED
      BY <1>1, <1>8, <2>1 DEF UnloadersRight
  <1> QED
    BY <1>9, <1>10, <1>12, <1>13, <1>14, <1>15

\* What the loader's steps after the registration have in common: the driver
\* they work on changes state, may get a resource, and is not being unloaded.
LEMMA LoaderStepKeeps ==
    ASSUME NemInv, loader.pc \in Loading,
           NEW s \in Slots, drivers[s].id = loader.id, loader.id >= 1,
           drivers[s].st \notin {"Active", "Unloading"},
           NEW d \in DriverRecs, d.id = drivers[s].id, d.name = drivers[s].name,
           drivers' = [drivers EXCEPT ![s] = d],
           UNCHANGED <<driverCount, nextDriver, regions, hotEntries, unloaders>>,
           resources' \in {resources, resources \cup {loader.id}},
           \/ loader' = IdleLoader
           \/ \E pc \in Loading : loader' = [loader EXCEPT !.pc = pc]
                                  /\ d.st \notin {"Active", "Unloading"}
    PROVE  NemInv'
  <1> USE DEF NemInv
  <1>1. /\ drivers' \in [Slots -> DriverRecs] /\ Ids' = Ids /\ SlotsRight'
        /\ \A t \in Slots : drivers'[t].id = drivers[t].id
    BY ZenonT(60), IdentitiesKept
  <1>2. drivers'[s] = d /\ \A t \in Slots : t # s => drivers'[t] = drivers[t]
    BY DEF NemTypes
  <1>3. loader.id \in Ids
    BY IdsAre, SMT
  <1>4. ASSUME NEW u \in Unloaders, unloaders[u].pc # "idle" PROVE unloaders[u].id # loader.id
    BY <1>4 DEF UnloadersRight
  <1>5. NemTypes'
    <2>1. loader \in [pc : {"idle", "register"} \cup Loading, name : DriverNames \cup {""},
                       base : Bases, id : Nat, boot : BOOLEAN]
      BY DEF NemTypes
    <2>2. loader' \in [pc : {"idle", "register"} \cup Loading, name : DriverNames \cup {""},
                       base : Bases, id : Nat, boot : BOOLEAN]
      <3>1. CASE loader' = IdleLoader
        BY <3>1 DEF IdleLoader, Bases
      <3>2. CASE \E pc \in Loading : loader' = [loader EXCEPT !.pc = pc]
        BY <2>1, <3>2
      <3> QED
        BY <3>1, <3>2
    <2> QED
      BY <1>1, <2>2 DEF NemTypes
  <1>6. Counted'
    BY <1>1 DEF Counted
  <1>7. \A x : Freed(x)' <=> Freed(x)
    BY DEF Freed
  <1>8. EntriesRight'
    BY <1>1, <1>7 DEF EntriesRight
  <1>9. OwnersRight'
    BY <1>1, <1>3 DEF OwnersRight
  <1>10. LoaderRight'
    <2>1. CASE loader' = IdleLoader
      BY <2>1 DEF LoaderRight, IdleLoader, Loading
    <2>2. ASSUME NEW pc \in Loading, loader' = [loader EXCEPT !.pc = pc],
                 d.st \notin {"Active", "Unloading"}
          PROVE  LoaderRight'
      <3>1. loader'.pc = pc /\ loader'.id = loader.id /\ loader'.name = loader.name
        BY <2>2 DEF NemTypes
      <3>2. loader'.pc \in Loading /\ loader'.pc # "register"
        BY <3>1 DEF Loading
      <3>3. drivers'[s].id = loader'.id /\ loader'.id >= 1
            /\ drivers'[s].st \notin {"Active", "Unloading"} /\ loader'.name \in DriverNames
        BY <1>2, <2>2, <3>1 DEF LoaderRight
      <3> QED
        BY <3>2, <3>3 DEF LoaderRight
    <2> QED
      BY <2>1, <2>2
  <1>11. UnloadersRight'
    <2> SUFFICES ASSUME NEW u \in Unloaders, unloaders[u].pc # "idle"
                 PROVE  /\ unloaders[u].id \in 1 .. (nextDriver - 1)
                        /\ \A t \in Slots : drivers'[t].id = unloaders[u].id
                                               => drivers'[t].st = "Unloading"
                        /\ \A e \in hotEntries : e.id = unloaders[u].id => e.base = unloaders[u].base
                        /\ unloaders[u].pc = "remove" =>
                              /\ unloaders[u].id \notin resources'
                              /\ \A i \in Regions : regions[i].owner # unloaders[u].id
      BY DEF UnloadersRight
    <2>1. unloaders[u].id # loader.id
      BY <1>4
    <2>2. \A t \in Slots : drivers'[t].id = unloaders[u].id => drivers'[t].st = "Unloading"
      BY <1>1, <1>2, <2>1 DEF UnloadersRight
    <2> QED
      BY <2>1, <2>2 DEF UnloadersRight
  <1> QED
    BY <1>1, <1>5, <1>6, <1>8, <1>9, <1>10, <1>11

\* The driver the loader works on.
LEMMA LoadersDriver ==
    ASSUME NemInv, loader.pc \in Loading
    PROVE  /\ SlotOf(loader.id) \in Slots /\ drivers[SlotOf(loader.id)] \in DriverRecs
           /\ drivers[SlotOf(loader.id)].id = loader.id /\ loader.id >= 1
           /\ drivers[SlotOf(loader.id)].st \notin {"Active", "Unloading"}
  <1>1. PICK s \in Slots : /\ drivers[s].id = loader.id /\ loader.id >= 1
                           /\ drivers[s].st \notin {"Active", "Unloading"}
    BY DEF NemInv, LoaderRight
  <1>2. SlotOf(loader.id) = s
    BY <1>1, SlotFound DEF NemInv
  <1> QED
    BY <1>1, <1>2 DEF NemInv, NemTypes

\* A transition the loader asks for keeps the driver's identity and is not an
\* unload's.
LEMMA TransitionKeeps ==
    ASSUME NEW q \in DriverRecs, q.st \notin {"Active", "Unloading"},
           NEW to \in {"Initialized", "Registered", "Bound"}
    PROVE  /\ try_transition(q, to) \in DriverRecs
           /\ try_transition(q, to).id = q.id /\ try_transition(q, to).name = q.name
           /\ try_transition(q, to).st \notin {"Active", "Unloading"}
  BY DEF try_transition, DriverRecs, DriverStates

\* driver_init: the transitions it asks for, or the fault, are not an unload's.
LEMMA InitKeeps ==
    ASSUME NemInv, driver_init
    PROVE  NemInv'
  <1> DEFINE s == SlotOf(loader.id)
             d == drivers[s]
             ready == try_transition(try_transition(d, "Initialized"), "Registered")
  <1>1. loader.pc \in Loading /\ UNCHANGED <<driverCount, nextDriver, regions, hotEntries, unloaders>>
    BY DEF driver_init, Loading
  <1>2. /\ s \in Slots /\ d \in DriverRecs /\ d.id = loader.id /\ loader.id >= 1
        /\ d.st \notin {"Active", "Unloading"}
    BY <1>1, LoadersDriver
  <1>3. resources' \in {resources, resources \cup {loader.id}}
    BY DEF driver_init
  <1>4. \/ drivers' = [drivers EXCEPT ![s] = ready] /\ loader' = [loader EXCEPT !.pc = "bind"]
        \/ drivers' = [drivers EXCEPT ![s] = set_error(d)] /\ loader' = IdleLoader
    BY ZenonT(60) DEF driver_init
  <1> HIDE DEF s
  <1>5. /\ ready \in DriverRecs /\ ready.id = d.id /\ ready.name = d.name
        /\ ready.st \notin {"Active", "Unloading"}
    <2> HIDE DEF d
    <2> QED
      BY <1>2, TransitionKeeps
  <1>6. set_error(d) \in DriverRecs /\ set_error(d).id = d.id /\ set_error(d).name = d.name
    <2> HIDE DEF d
    <2> QED
      BY <1>2 DEF set_error, DriverRecs, DriverStates
  <1> HIDE DEF ready
  <1>7. CASE drivers' = [drivers EXCEPT ![s] = ready] /\ loader' = [loader EXCEPT !.pc = "bind"]
    <2>1. "bind" \in Loading
      BY DEF Loading
    <2> QED
      BY ZenonT(60), <1>1, <1>2, <1>3, <1>5, <1>7, <2>1, LoaderStepKeeps
  <1>8. CASE drivers' = [drivers EXCEPT ![s] = set_error(d)] /\ loader' = IdleLoader
    BY ZenonT(60), <1>1, <1>2, <1>3, <1>6, <1>8, LoaderStepKeeps
  <1> QED
    BY <1>4, <1>7, <1>8

\* register_v3_event_bus_handler binds the driver that is being loaded.
LEMMA BindKeeps ==
    ASSUME NemInv, register_v3_event_bus_handler
    PROVE  NemInv'
  <1> DEFINE s == SlotOf(loader.id)
             d == drivers[s]
             bound == try_transition(d, "Bound")
  <1>1. loader.pc \in Loading
        /\ UNCHANGED <<driverCount, nextDriver, regions, resources, hotEntries, unloaders>>
    BY DEF register_v3_event_bus_handler, Loading
  <1>2. /\ s \in Slots /\ d \in DriverRecs /\ d.id = loader.id /\ loader.id >= 1
        /\ d.st \notin {"Active", "Unloading"}
    BY <1>1, LoadersDriver
  <1>3. drivers' = [drivers EXCEPT ![s] = bound] /\ loader' = [loader EXCEPT !.pc = "activate"]
    BY DEF register_v3_event_bus_handler
  <1> HIDE DEF s
  <1>4. /\ bound \in DriverRecs /\ bound.id = d.id /\ bound.name = d.name
        /\ bound.st \notin {"Active", "Unloading"}
    <2> HIDE DEF d
    <2> QED
      BY <1>2, TransitionKeeps
  <1>5. "activate" \in Loading
    BY DEF Loading
  <1> HIDE DEF bound
  <1> QED
    BY ZenonT(60), <1>1, <1>2, <1>3, <1>4, <1>5, LoaderStepKeeps

\* driver_activate ends the load: the driver is Active, or in error.
LEMMA ActivateKeeps ==
    ASSUME NemInv, driver_activate
    PROVE  NemInv'
  <1> DEFINE s == SlotOf(loader.id)
             d == drivers[s]
  <1>1. loader.pc \in Loading
        /\ UNCHANGED <<driverCount, nextDriver, regions, resources, hotEntries, unloaders>>
    BY DEF driver_activate, Loading
  <1>2. /\ s \in Slots /\ d \in DriverRecs /\ d.id = loader.id /\ loader.id >= 1
        /\ d.st \notin {"Active", "Unloading"}
    BY <1>1, LoadersDriver
  <1>3. PICK q \in {certify_and_activate(d), set_error(d)} :
            drivers' = [drivers EXCEPT ![s] = q] /\ loader' = IdleLoader
    BY ZenonT(60) DEF driver_activate
  <1> HIDE DEF s
  <1>4. q \in DriverRecs /\ q.id = d.id /\ q.name = d.name
    <2> HIDE DEF d
    <2>1. CASE q = set_error(d)
      BY <1>2, <2>1 DEF set_error, DriverRecs, DriverStates
    <2>2. CASE q = certify_and_activate(d)
      BY <1>2, <2>2 DEF certify_and_activate, DriverRecs, DriverStates
    <2> QED
      BY <2>1, <2>2
  <1> QED
    BY ZenonT(60), <1>1, <1>2, <1>3, <1>4, LoaderStepKeeps

-----------------------------------------------------------------------------
\* register_ext: a fresh identifier, and the region the loader was given.
LEMMA RegisterKeeps ==
    ASSUME NemInv, register_ext
    PROVE  NemInv'
  <1> DEFINE empty == {s \in Slots : drivers[s] = NoDriver}
             z == Lowest(empty)
             n == nextDriver
             d == [id |-> n, name |-> loader.name, st |-> "Loaded", err |-> FALSE]
             e == [id |-> n, base |-> loader.base]
  <1> USE DEF NemInv
  <1>1. loader.pc = "register" /\ UNCHANGED <<resources, unloaders>>
    BY DEF register_ext
  <1>2. n \in Nat \ {0} /\ nextDriver' \in {n, n + 1}
    BY DEF register_ext, NemTypes
  <1>3. CASE ~(driverCount < MAX_DRIVERS /\ empty # {})
    <2>1. loader' = IdleLoader /\ UNCHANGED <<drivers, driverCount, regions, hotEntries>>
      BY <1>3 DEF register_ext
    <2>2. Ids' = Ids /\ \A x : Freed(x)' <=> Freed(x)
      BY <1>1, <2>1 DEF Ids, Freed
    <2>3. NemTypes'
      <3>1. loader' \in [pc : {"idle", "register"} \cup Loading, name : DriverNames \cup {""},
                       base : Bases, id : Nat, boot : BOOLEAN]
        BY <2>1 DEF IdleLoader, Bases
      <3>2. nextDriver' \in Nat \ {0}
        BY <1>2
      <3> QED
        BY <1>1, <2>1, <3>1, <3>2 DEF NemTypes
    <2>4. SlotsRight'
      BY <1>2, <2>1 DEF SlotsRight
    <2>5. Counted' /\ EntriesRight' /\ OwnersRight'
      BY <1>1, <2>1, <2>2 DEF Counted, EntriesRight, OwnersRight
    <2>6. LoaderRight'
      BY <2>1 DEF LoaderRight, IdleLoader, Loading
    <2>7. UnloadersRight'
      BY <1>1, <1>2, <2>1 DEF UnloadersRight
    <2> QED
      BY <2>3, <2>4, <2>5, <2>6, <2>7
  <1>4. CASE driverCount < MAX_DRIVERS /\ empty # {}
    <2>1. /\ drivers' = [drivers EXCEPT ![z] = d] /\ driverCount' = driverCount + 1
          /\ regions' = bind_isolated_driver(n, loader.base)
          /\ hotEntries' = hotEntries \cup {e}
          /\ loader' = [loader EXCEPT !.pc = "init", !.id = n]
          /\ nextDriver' = n + 1
      BY <1>4 DEF register_ext
    <2>2. z \in Slots /\ drivers[z] = NoDriver
      BY <1>4, LowestIn DEF Slots
    <2> HIDE DEF z
    <2>3. /\ loader.name \in DriverNames /\ loader.base \in Bases
          /\ loader.base # Heap => regions[loader.base].owner = Placeholder
      BY <1>1 DEF LoaderRight, NemTypes
    <2>4. d \in DriverRecs /\ e \in [id : Nat, base : Bases]
      <3> HIDE DEF n
      <3>1. n \in Nat /\ n \in Int
        BY <1>2
      <3>2. d \in DriverRecs
        BY <2>3, <3>1 DEF DriverRecs, DriverStates
      <3>3. e \in [id : Nat, base : Bases]
        BY <2>3, <3>1
      <3> QED
        BY <3>2, <3>3
    <2>5. drivers' \in [Slots -> DriverRecs] /\ drivers'[z] = d
          /\ \A t \in Slots : t # z => drivers'[t] = drivers[t]
      BY <2>1, <2>2, <2>4 DEF NemTypes
    <2>6. n \notin Ids /\ \A t \in Slots : drivers[t].id < n
      BY <1>2 DEF Ids, SlotsRight
    <2>7. Ids' = Ids \cup {n}
      <3>1. drivers[z].id = -1
        BY <2>2 DEF NoDriver
      <3>2. drivers'[z].id = n
        BY <2>5
      <3> QED
        BY <1>2, <2>2, <2>5, <3>1, <3>2 DEF Ids
    <2>8. /\ regions' \in [Regions -> [owner : Int, layout : BOOLEAN]]
          /\ \A i \in Regions : regions'[i].owner = IF i = loader.base THEN n ELSE regions[i].owner
      <3>1. CASE loader.base \in Regions
        <4>1. loader.base # Heap
          BY <3>1 DEF Regions, Heap
        <4>2. regions' = [regions EXCEPT ![loader.base].owner = n]
          BY <2>1, <2>3, <3>1, <4>1 DEF bind_isolated_driver, Owned
        <4>3. regions \in [Regions -> [owner : Int, layout : BOOLEAN]]
          BY DEF NemTypes
        <4> HIDE DEF n
        <4>4. n \in Int
          BY <1>2
        <4> QED
          BY <3>1, <4>2, <4>3, <4>4
      <3>2. CASE loader.base \notin Regions
        <4>1. regions' = regions
          BY <2>1, <3>2 DEF bind_isolated_driver, Owned
        <4> QED
          BY <3>2, <4>1 DEF NemTypes
      <3> QED
        BY <3>1, <3>2
    <2>9. /\ loader'.pc = "init" /\ loader'.id = n /\ loader'.name = loader.name
          /\ loader' \in [pc : {"idle", "register"} \cup Loading, name : DriverNames \cup {""},
                          base : Bases, id : Nat, boot : BOOLEAN]
      BY <1>2, <2>1 DEF NemTypes, Loading
    <2>10. \A i \in Regions : regions[i].owner # n
      BY <1>2, <2>6 DEF OwnersRight, Placeholder
    <2>11. NemTypes'
      <3>1. hotEntries' \in SUBSET [id : Nat, base : Bases]
        BY <2>1, <2>4 DEF NemTypes
      <3>2. nextDriver' \in Nat \ {0}
        BY <1>2, <2>1
      <3>3. unloaders' \in [Unloaders -> [pc : {"idle", "wait", "remove"}, id : Nat, base : Bases]]
        BY <1>1 DEF NemTypes
      <3> QED
        BY <2>5, <2>8, <2>9, <3>1, <3>2, <3>3 DEF NemTypes
    <2>12. d.id = n /\ d.name = loader.name /\ d.st = "Loaded" /\ e.id = n /\ e.base = loader.base
      OBVIOUS
    <2> HIDE DEF d, e
    <2>13. SlotsRight'
      BY <1>2, <2>1, <2>2, <2>5, <2>6, <2>12 DEF SlotsRight
    <2>14. Counted'
      BY <2>1, <2>6, <2>7, IdsFinite, FS_AddElement DEF Counted
    <2>15. \A x : Freed(x)' <=> Freed(x)
      BY <1>1 DEF Freed
    <2>16. ~Freed(n)
      BY <1>2 DEF Freed, UnloadersRight
    <2>17. EntriesRight'
      <3>1. \A f \in hotEntries : f.id \in Ids /\ f.id # n
        BY <2>6 DEF EntriesRight
      <3>2. /\ \A f \in hotEntries' : f.id \in Ids'
            /\ \A i \in Ids' : \E f \in hotEntries' : f.id = i
            /\ \A f, g \in hotEntries' : f.id = g.id => f = g
        BY <2>1, <2>7, <2>12, <3>1 DEF EntriesRight
      <3>3. ASSUME NEW f \in hotEntries', NEW i \in Regions
            PROVE  /\ regions'[i].owner = f.id => i = f.base
                   /\ i = f.base /\ ~Freed(f.id) => regions'[i].owner = f.id
        <4>1. CASE f = e
          BY <2>8, <2>10, <2>12, <4>1
        <4>2. CASE f \in hotEntries
          <5>1. i = loader.base => regions[i].owner = Placeholder
            BY <2>3 DEF Regions, Heap
          <5>2. f.id \in Nat
            BY <4>2 DEF NemTypes
          <5>3. i = loader.base /\ i = f.base => Freed(f.id)
            BY <4>2, <5>1, <5>2 DEF EntriesRight, Placeholder
          <5> QED
            BY <2>8, <3>1, <4>2, <5>3 DEF EntriesRight
        <4> QED
          BY <2>1, <4>1, <4>2
      <3> QED
        BY <2>15, <3>2, <3>3 DEF EntriesRight
    <2>18. OwnersRight'
      BY <1>1, <2>7, <2>8 DEF OwnersRight
    <2>19. LoaderRight'
      <3>1. drivers'[z].id = loader'.id /\ loader'.id >= 1
            /\ drivers'[z].st \notin {"Active", "Unloading"} /\ loader'.name \in DriverNames
        <4> HIDE DEF n
        <4>1. n >= 1
          BY <1>2
        <4> QED
          BY <2>3, <2>5, <2>9, <2>12, <4>1
      <3> QED
        BY <2>2, <2>9, <3>1 DEF LoaderRight
    <2>20. UnloadersRight'
      <3> SUFFICES ASSUME NEW u \in Unloaders, unloaders[u].pc # "idle"
                   PROVE  /\ unloaders[u].id \in 1 .. n
                          /\ \A t \in Slots : drivers'[t].id = unloaders[u].id
                                               => drivers'[t].st = "Unloading"
                          /\ \A f \in hotEntries' : f.id = unloaders[u].id => f.base = unloaders[u].base
                          /\ unloaders[u].pc = "remove" =>
                                /\ unloaders[u].id \notin resources
                                /\ \A i \in Regions : regions'[i].owner # unloaders[u].id
        BY <1>1, <1>2, <2>1 DEF UnloadersRight
      <3>1. unloaders[u].id \in 1 .. (n - 1)
        BY DEF UnloadersRight
      <3>2. unloaders[u].id # n /\ unloaders[u].id \in 1 .. n
        BY <1>2, <3>1
      <3>3. \A t \in Slots : drivers'[t].id = unloaders[u].id => drivers'[t].st = "Unloading"
        BY <2>5, <2>12, <3>2 DEF UnloadersRight
      <3>4. \A f \in hotEntries' : f.id = unloaders[u].id => f.base = unloaders[u].base
        BY <2>1, <2>12, <3>2 DEF UnloadersRight
      <3> QED
        BY <2>8, <3>2, <3>3, <3>4 DEF UnloadersRight
    <2> QED
      BY <2>11, <2>13, <2>14, <2>17, <2>18, <2>19, <2>20
  <1> QED
    BY <1>3, <1>4

-----------------------------------------------------------------------------
\* unload_driver: only a driver that is Active, or being unloaded already, so
\* never the one the loader works on.
LEMMA UnloadKeeps ==
    ASSUME NemAssumption, NemInv, NEW u \in Unloaders, NEW n \in DriverNames, unload_driver(u, n)
    PROVE  NemInv'
  <1> DEFINE s == Lowest(Named(n))
             es == {e \in hotEntries : e.id = drivers[s].id}
             e0 == CHOOSE e \in es : TRUE
             d == [drivers[s] EXCEPT !.st = "Unloading"]
             w == [pc |-> "wait", id |-> drivers[s].id, base |-> e0.base]
  <1> USE DEF NemInv
  <1>1. /\ UNCHANGED <<driverCount, nextDriver, regions, resources, hotEntries, loader>>
        /\ Named(n) # {} /\ is_valid_transition(drivers[s].st, "Unloading")
        /\ drivers' = [drivers EXCEPT ![s].st = "Unloading"]
        /\ unloaders' = [unloaders EXCEPT ![u] = w]
    BY DEF unload_driver
  <1>2. s \in Slots /\ drivers[s].name = n
    BY <1>1, LowestIn DEF Named, Slots
  <1> HIDE DEF s
  <1>3. /\ drivers[s] \in DriverRecs /\ drivers[s].id >= 1 /\ drivers[s].id \in 1 .. (nextDriver - 1)
        /\ drivers[s].id \in Nat
    <2>1. drivers[s] \in DriverRecs
      BY <1>2 DEF NemTypes
    <2>2. drivers[s].id \in Int /\ drivers[s].id >= 1
          /\ drivers[s].id \in {-1, 0} \cup 1 .. (nextDriver - 1)
      BY <1>2, <2>1 DEF SlotsRight, DriverRecs
    <2> QED
      BY <2>1, <2>2
  <1>4. drivers[s].st \in {"Active", "Unloading"}
    BY <1>1 DEF is_valid_transition
  <1>5. drivers[s].id \in Ids
    BY <1>2, <1>3, IdsAre, SMT
  <1>6. e0 \in hotEntries /\ e0.id = drivers[s].id
    <2>1. es # {}
      BY <1>5 DEF EntriesRight
    <2> QED
      BY <2>1
  <1> HIDE DEF es, e0
  <1>7. d \in DriverRecs /\ d.id = drivers[s].id /\ d.name = drivers[s].name /\ d.st = "Unloading"
    BY <1>3 DEF DriverRecs, DriverStates
  <1>8. drivers' = [drivers EXCEPT ![s] = d]
    BY <1>1, <1>2 DEF NemTypes
  <1>9. w \in [pc : {"idle", "wait", "remove"}, id : Nat, base : Bases]
    <2>1. e0.base \in Bases
      BY <1>6 DEF NemTypes
    <2> QED
      BY <1>3, <2>1
  <1>10. w.pc = "wait" /\ w.id = drivers[s].id /\ w.base = e0.base
    OBVIOUS
  <1> HIDE DEF d, w
  <1>11. /\ drivers' \in [Slots -> DriverRecs] /\ Ids' = Ids /\ SlotsRight'
         /\ \A t \in Slots : drivers'[t].id = drivers[t].id
    BY ZenonT(60), <1>1, <1>2, <1>7, <1>8, IdentitiesKept
  <1>12. drivers'[s] = d /\ \A t \in Slots : t # s => drivers'[t] = drivers[t]
    BY <1>2, <1>8 DEF NemTypes
  <1>13. unloaders'[u] = w /\ \A v \in Unloaders : v # u => unloaders'[v] = unloaders[v]
    BY <1>1 DEF NemTypes
  <1>14. NemTypes'
    <2>1. unloaders' \in [Unloaders -> [pc : {"idle", "wait", "remove"}, id : Nat, base : Bases]]
      BY <1>1, <1>9 DEF NemTypes
    <2> QED
      BY <1>1, <1>11, <2>1 DEF NemTypes
  <1>15. Counted' /\ OwnersRight'
    BY <1>1, <1>11 DEF Counted, OwnersRight
  <1>16. \A x : Freed(x) => Freed(x)'
    <2>1. unloaders[u].pc = "idle"
      BY DEF unload_driver
    <2> QED
      BY <1>13, <2>1 DEF Freed
  <1>17. EntriesRight'
    BY <1>1, <1>11, <1>16 DEF EntriesRight
  <1>18. LoaderRight'
    <2>1. loader.pc \in Loading => loader.id # drivers[s].id
      <3> SUFFICES ASSUME loader.pc \in Loading PROVE loader.id # drivers[s].id
        OBVIOUS
      <3>1. PICK t \in Slots : /\ drivers[t].id = loader.id /\ loader.id >= 1
                               /\ drivers[t].st \notin {"Active", "Unloading"}
        BY DEF LoaderRight
      <3> QED
        BY <1>2, <1>4, <3>1 DEF SlotsRight
    <2> QED
      BY <1>1, <1>12, <2>1 DEF LoaderRight
  <1>19. UnloadersRight'
    <2> SUFFICES ASSUME NEW v \in Unloaders, unloaders'[v].pc # "idle"
                 PROVE  /\ unloaders'[v].id \in 1 .. (nextDriver - 1)
                        /\ \A t \in Slots : drivers'[t].id = unloaders'[v].id
                                               => drivers'[t].st = "Unloading"
                        /\ \A f \in hotEntries : f.id = unloaders'[v].id => f.base = unloaders'[v].base
                        /\ unloaders'[v].pc = "remove" =>
                              /\ unloaders'[v].id \notin resources
                              /\ \A i \in Regions : regions[i].owner # unloaders'[v].id
      BY <1>1 DEF UnloadersRight
    <2>1. CASE v = u
      <3>1. \A t \in Slots : drivers'[t].id = w.id => drivers'[t].st = "Unloading"
        <4> SUFFICES ASSUME NEW t \in Slots, drivers'[t].id = w.id
                     PROVE  drivers'[t].st = "Unloading"
          OBVIOUS
        <4>1. drivers[t].id = drivers[s].id
          BY Zenon, <1>10, <1>11
        <4>2. t = s
          BY <1>2, <1>3, <4>1 DEF SlotsRight
        <4> QED
          BY Zenon, <1>7, <1>12, <4>2
      <3>2. \A f \in hotEntries : f.id = w.id => f.base = w.base
        BY SMTT(30), <1>6, <1>10 DEF EntriesRight
      <3> QED
        BY <1>3, <1>10, <1>13, <2>1, <3>1, <3>2
    <2>2. CASE v # u
      <3>1. unloaders'[v] = unloaders[v]
        BY <1>13, <2>2
      <3>2. /\ unloaders[v].id \in 1 .. (nextDriver - 1)
            /\ \A t \in Slots : drivers[t].id = unloaders[v].id => drivers[t].st = "Unloading"
            /\ \A f \in hotEntries : f.id = unloaders[v].id => f.base = unloaders[v].base
            /\ unloaders[v].pc = "remove" =>
                  /\ unloaders[v].id \notin resources
                  /\ \A i \in Regions : regions[i].owner # unloaders[v].id
        BY Zenon, <3>1, UnloaderRight
      <3> HIDE DEF NemInv
      <3>3. \A t \in Slots : drivers'[t].id = unloaders[v].id => drivers'[t].st = "Unloading"
        BY Zenon, <1>7, <1>11, <1>12, <3>2
      <3> QED
        BY Zenon, <3>1, <3>2, <3>3
    <2> QED
      BY <2>1, <2>2
  <1> QED
    BY <1>11, <1>14, <1>15, <1>17, <1>18, <1>19

\* free_driver_slot: the driver's resources and its region go.
LEMMA FreeKeeps ==
    ASSUME NemInv, NEW u \in Unloaders, free_driver_slot(u)
    PROVE  NemInv'
  <1> DEFINE id == unloaders[u].id
             w == [unloaders[u] EXCEPT !.pc = "remove"]
  <1> USE DEF NemInv
  <1>1. /\ UNCHANGED <<drivers, driverCount, nextDriver, hotEntries, loader>>
        /\ unloaders[u].pc = "wait" /\ resources' = resources \ {id}
        /\ regions' = [i \in Regions |-> IF unloaders[u].base # Heap /\ regions[i].owner = id
                                         THEN NoRegion ELSE regions[i]]
        /\ unloaders' = [unloaders EXCEPT ![u].pc = "remove"]
    BY DEF free_driver_slot
  <1>2. /\ unloaders[u] \in [pc : {"idle", "wait", "remove"}, id : Nat, base : Bases]
        /\ regions \in [Regions -> [owner : Int, layout : BOOLEAN]]
    BY DEF NemTypes
  <1>3. /\ id \in 1 .. (nextDriver - 1) /\ id >= 1
        /\ \A s \in Slots : drivers[s].id = id => drivers[s].st = "Unloading"
        /\ \A e \in hotEntries : e.id = id => e.base = unloaders[u].base
    BY <1>1 DEF UnloadersRight
  <1>4. unloaders[u].base = Heap => \A i \in Regions : regions[i].owner # id
    <2> SUFFICES ASSUME unloaders[u].base = Heap, NEW i \in Regions, regions[i].owner = id
                 PROVE  FALSE
      OBVIOUS
    <2>1. id \in Ids
      BY <1>3 DEF OwnersRight, Placeholder
    <2>2. PICK e \in hotEntries : e.id = id
      BY <2>1 DEF EntriesRight
    <2>3. i = Heap
      BY <1>3, <2>2 DEF EntriesRight
    <2> QED
      BY <2>3 DEF Heap, Regions
  <1>5. /\ regions' \in [Regions -> [owner : Int, layout : BOOLEAN]]
        /\ \A i \in Regions : regions'[i].owner = IF regions[i].owner = id THEN -1
                                                  ELSE regions[i].owner
    <2>1. NoRegion \in [owner : Int, layout : BOOLEAN] /\ NoRegion.owner = -1
      BY DEF NoRegion
    <2> HIDE DEF id
    <2> QED
      BY <1>1, <1>2, <1>4, <2>1
  <1>6. /\ w \in [pc : {"idle", "wait", "remove"}, id : Nat, base : Bases]
        /\ w.pc = "remove" /\ w.id = id /\ w.base = unloaders[u].base
        /\ unloaders' = [unloaders EXCEPT ![u] = w]
    BY <1>1, <1>2 DEF NemTypes
  <1> HIDE DEF w
  <1>7. unloaders'[u] = w /\ \A v \in Unloaders : v # u => unloaders'[v] = unloaders[v]
    BY <1>6 DEF NemTypes
  <1>8. Ids' = Ids
    BY <1>1 DEF Ids
  <1>9. NemTypes'
    <2>1. unloaders' \in [Unloaders -> [pc : {"idle", "wait", "remove"}, id : Nat, base : Bases]]
      BY <1>6 DEF NemTypes
    <2> QED
      BY <1>1, <1>5, <2>1 DEF NemTypes
  <1>10. SlotsRight' /\ Counted'
    BY <1>1, <1>8 DEF SlotsRight, Counted
  <1>11. \A x : Freed(x) \/ x = id => Freed(x)'
    BY <1>1, <1>6, <1>7 DEF Freed
  <1>12. EntriesRight'
    <2>1. \A e \in hotEntries : e.id \in Nat
      BY DEF NemTypes
    <2>2. ASSUME NEW e \in hotEntries', NEW i \in Regions
          PROVE  /\ regions'[i].owner = e.id => i = e.base
                 /\ i = e.base /\ ~Freed(e.id)' => regions'[i].owner = e.id
      <3>1. e \in hotEntries /\ e.id \in Nat
        BY <1>1, <2>1
      <3>2. regions'[i].owner = e.id => i = e.base
        BY <1>5, <3>1 DEF EntriesRight
      <3>3. ASSUME i = e.base, ~Freed(e.id)' PROVE regions'[i].owner = e.id
        <4>1. regions[i].owner = e.id /\ e.id # id
          BY <1>11, <3>1, <3>3 DEF EntriesRight
        <4> QED
          BY <1>5, <4>1
      <3> QED
        BY <3>2, <3>3
    <2> QED
      BY <1>1, <1>8, <2>2 DEF EntriesRight
  <1>13. OwnersRight'
    BY <1>1, <1>5, <1>8 DEF OwnersRight
  <1>14. LoaderRight'
    <2>1. loader.base \in Bases
      BY DEF NemTypes
    <2>2. loader.base # Heap /\ regions[loader.base].owner = Placeholder
             => regions'[loader.base].owner = Placeholder
      BY <1>3, <1>5, <2>1 DEF Placeholder, Bases
    <2> QED
      BY <1>1, <2>2 DEF LoaderRight
  <1>15. UnloadersRight'
    <2> SUFFICES ASSUME NEW v \in Unloaders, unloaders'[v].pc # "idle"
                 PROVE  /\ unloaders'[v].id \in 1 .. (nextDriver - 1)
                        /\ \A t \in Slots : drivers[t].id = unloaders'[v].id
                                               => drivers[t].st = "Unloading"
                        /\ \A f \in hotEntries : f.id = unloaders'[v].id => f.base = unloaders'[v].base
                        /\ unloaders'[v].pc = "remove" =>
                              /\ unloaders'[v].id \notin resources'
                              /\ \A i \in Regions : regions'[i].owner # unloaders'[v].id
      BY <1>1 DEF UnloadersRight
    <2>1. CASE v = u
      <3>1. id # -1
        BY <1>3
      <3> QED
        BY <1>1, <1>3, <1>5, <1>6, <1>7, <2>1, <3>1
    <2>2. CASE v # u
      <3>1. unloaders'[v] = unloaders[v] /\ unloaders[v].id \in Nat
        BY <1>7, <2>2 DEF NemTypes
      <3>2. unloaders[v].pc = "remove" => \A i \in Regions : regions'[i].owner # unloaders[v].id
        <4> SUFFICES ASSUME unloaders[v].pc = "remove", NEW i \in Regions
                     PROVE  regions'[i].owner # unloaders[v].id
          OBVIOUS
        <4>1. regions[i].owner # unloaders[v].id
          BY Zenon, UnloaderRight
        <4> HIDE DEF NemInv
        <4> QED
          BY <1>5, <3>1, <4>1
      <3>3. unloaders[v].pc = "remove" => unloaders[v].id \notin resources'
        BY <1>1, <3>1 DEF UnloadersRight
      <3> QED
        BY Zenon, <3>1, <3>2, <3>3, UnloaderRight
    <2> QED
      BY <2>1, <2>2
  <1> QED
    BY <1>9, <1>10, <1>12, <1>13, <1>14, <1>15

\* remove: the driver, if another unloader has not removed it, and its entry.
LEMMA RemoveKeeps ==
    ASSUME NemAssumption, NemInv, NEW u \in Unloaders, remove(u)
    PROVE  NemInv'
  <1> DEFINE s == SlotOf(unloaders[u].id)
  <1> USE DEF NemInv
  <1>1. /\ UNCHANGED <<nextDriver, regions, resources, loader>> /\ unloaders[u].pc = "remove"
        /\ unloaders' = [unloaders EXCEPT ![u] = IdleUnloader]
    BY DEF remove
  <1>2. PICK id : id = unloaders[u].id
    OBVIOUS
  <1>3. /\ id \in Nat /\ id >= 1 /\ id \notin resources
        /\ \A t \in Slots : drivers[t].id = id => drivers[t].st = "Unloading"
        /\ \A i \in Regions : regions[i].owner # id
    <2>1. /\ id \in 1 .. (nextDriver - 1)
          /\ \A t \in Slots : drivers[t].id = id => drivers[t].st = "Unloading"
          /\ id \notin resources
          /\ \A i \in Regions : regions[i].owner # id
      BY <1>1, <1>2, UnloaderRight
    <2>2. nextDriver \in Nat
      BY DEF NemTypes
    <2> HIDE DEF NemInv
    <2>3. id \in Nat /\ id >= 1
      BY <2>1, <2>2
    <2> QED
      BY Zenon, <2>1, <2>3
  <1>4. /\ unloaders'[u] = IdleUnloader /\ IdleUnloader.pc = "idle"
        /\ \A v \in Unloaders : v # u => unloaders'[v] = unloaders[v]
    BY <1>1 DEF NemTypes, IdleUnloader
  <1>5. unloaders' \in [Unloaders -> [pc : {"idle", "wait", "remove"}, id : Nat, base : Bases]]
    <2>1. IdleUnloader \in [pc : {"idle", "wait", "remove"}, id : Nat, base : Bases]
      BY DEF IdleUnloader, Bases
    <2> QED
      BY <1>1, <2>1 DEF NemTypes
  <1>6. \A x : Freed(x) /\ x # id => Freed(x)'
    BY <1>2, <1>4 DEF Freed
  <1>7. ASSUME NEW v \in Unloaders, unloaders'[v].pc # "idle"
        PROVE  v # u /\ unloaders'[v] = unloaders[v] /\ unloaders[v].pc # "idle"
    BY <1>4, <1>7
  <1>8. CASE id \notin Ids
    <2>1. UNCHANGED <<drivers, driverCount, hotEntries>>
      BY <1>2, <1>8 DEF remove
    <2>2. Ids' = Ids
      BY <2>1 DEF Ids
    <2>3. NemTypes' /\ SlotsRight' /\ Counted' /\ OwnersRight' /\ LoaderRight'
      BY <1>1, <1>5, <2>1, <2>2 DEF NemTypes, SlotsRight, Counted, OwnersRight, LoaderRight
    <2>4. EntriesRight'
      BY <1>1, <1>6, <1>8, <2>1, <2>2 DEF EntriesRight
    <2>5. UnloadersRight'
      <3> SUFFICES ASSUME NEW v \in Unloaders, unloaders'[v].pc # "idle"
                   PROVE  /\ unloaders'[v].id \in 1 .. (nextDriver - 1)
                          /\ \A t \in Slots : drivers[t].id = unloaders'[v].id
                                                 => drivers[t].st = "Unloading"
                          /\ \A f \in hotEntries : f.id = unloaders'[v].id => f.base = unloaders'[v].base
                          /\ unloaders'[v].pc = "remove" =>
                                /\ unloaders'[v].id \notin resources
                                /\ \A i \in Regions : regions[i].owner # unloaders'[v].id
        BY Zenon, <1>1, <2>1 DEF UnloadersRight
      <3>1. unloaders'[v] = unloaders[v] /\ unloaders[v].pc # "idle"
        BY Zenon, <1>7
      <3> QED
        BY Zenon, <3>1, UnloaderRight
    <2> QED
      BY <2>3, <2>4, <2>5
  <1>9. CASE id \in Ids
    <2>1. /\ drivers' = [drivers EXCEPT ![s] = Blank] /\ driverCount' = driverCount - 1
          /\ hotEntries' = {e \in hotEntries : e.id # id}
      BY <1>2, <1>9 DEF remove
    <2>2. s \in Slots /\ drivers[s].id = id
      <3>1. PICK t \in Slots : drivers[t].id = id
        BY <1>9, IdsAre
      <3> QED
        BY <1>2, <1>3, <3>1, SlotFound
    <2> HIDE DEF s
    <2>3. drivers[s].st = "Unloading"
      BY <1>3, <2>2
    <2>4. Blank \in DriverRecs /\ Blank.id = 0 /\ Blank.name = ""
      BY DEF Blank, DriverRecs, DriverStates
    <2>5. /\ drivers' \in [Slots -> DriverRecs] /\ drivers'[s] = Blank
          /\ \A t \in Slots : t # s => drivers'[t] = drivers[t]
      BY <2>1, <2>2, <2>4 DEF NemTypes
    <2>6. \A t \in Slots : t # s => drivers[t].id # id
      BY <1>3, <2>2 DEF SlotsRight
    <2>7. Ids' = Ids \ {id}
      <3>1. \A x : x \in Ids' <=> x \notin {-1, 0} /\ \E t \in Slots : drivers'[t].id = x
        BY DEF Ids
      <3>2. \A x : x \notin {-1, 0} =>
               ((\E t \in Slots : drivers'[t].id = x) <=> (x # id /\ \E t \in Slots : drivers[t].id = x))
        BY <2>2, <2>4, <2>5, <2>6
      <3> QED
        BY <3>1, <3>2, IdsAre
    <2>8. NemTypes'
      <3>1. hotEntries' \in SUBSET [id : Nat, base : Bases]
        BY <2>1 DEF NemTypes
      <3> QED
        BY <1>1, <1>5, <2>5, <3>1 DEF NemTypes
    <2>9. SlotsRight'
      <3>1. "" \notin DriverNames
        BY DEF NemAssumption
      <3>2. \A t \in Slots : /\ drivers'[t].id \in {-1, 0} \cup 1 .. (nextDriver' - 1)
                             /\ drivers'[t].name \in DriverNames => drivers'[t].id >= 1
        BY <1>1, <2>4, <2>5, <3>1 DEF SlotsRight
      <3>3. ASSUME NEW t \in Slots, NEW r \in Slots,
                   drivers'[t].id = drivers'[r].id, drivers'[t].id >= 1
            PROVE  t = r
        <4>1. drivers'[s].id = 0
          BY <2>4, <2>5
        <4>2. t # s /\ r # s
          BY <3>3, <4>1
        <4> QED
          BY <2>5, <3>3, <4>2 DEF SlotsRight
      <3> QED
        BY <3>2, <3>3 DEF SlotsRight
    <2>10. Counted'
      <3>1. IsFiniteSet(Ids)
        BY IdsFinite
      <3>2. Cardinality(Ids \ {id}) = Cardinality(Ids) - 1
        BY <1>9, <3>1, FS_RemoveElement
      <3> QED
        BY <2>1, <2>7, <3>2 DEF Counted
    <2>11. EntriesRight'
      BY <1>1, <1>6, <2>1, <2>7 DEF EntriesRight
    <2>12. OwnersRight'
      BY <1>1, <1>3, <2>7 DEF OwnersRight
    <2>13. LoaderRight'
      <3>1. ASSUME loader.pc \in Loading
            PROVE  \E t \in Slots : /\ drivers'[t].id = loader.id /\ loader.id >= 1
                                    /\ drivers'[t].st \notin {"Active", "Unloading"}
        <4>1. PICK t \in Slots : /\ drivers[t].id = loader.id /\ loader.id >= 1
                                 /\ drivers[t].st \notin {"Active", "Unloading"}
          BY <3>1 DEF LoaderRight
        <4> QED
          BY <2>3, <2>5, <4>1
      <3> QED
        BY <1>1, <3>1 DEF LoaderRight
    <2>14. UnloadersRight'
      <3> SUFFICES ASSUME NEW v \in Unloaders, unloaders'[v].pc # "idle"
                   PROVE  /\ unloaders'[v].id \in 1 .. (nextDriver - 1)
                          /\ \A t \in Slots : drivers'[t].id = unloaders'[v].id
                                                 => drivers'[t].st = "Unloading"
                          /\ \A f \in hotEntries' : f.id = unloaders'[v].id => f.base = unloaders'[v].base
                          /\ unloaders'[v].pc = "remove" =>
                                /\ unloaders'[v].id \notin resources
                                /\ \A i \in Regions : regions[i].owner # unloaders'[v].id
        BY <1>1 DEF UnloadersRight
      <3>1. unloaders'[v] = unloaders[v] /\ unloaders[v].pc # "idle"
        BY <1>7
      <3>2. unloaders[v].id \in 1 .. (nextDriver - 1) /\ unloaders[v].id # 0
        <4>1. unloaders[v].id \in 1 .. (nextDriver - 1)
          BY <3>1, UnloaderRight
        <4> HIDE DEF NemInv
        <4> QED
          BY <4>1
      <3>3. \A t \in Slots : drivers'[t].id = unloaders[v].id => drivers'[t].st = "Unloading"
        BY ZenonT(60), <2>4, <2>5, <3>1, <3>2 DEF UnloadersRight
      <3>4. \A f \in hotEntries' : f.id = unloaders[v].id => f.base = unloaders[v].base
        BY Zenon, <2>1, <3>1, UnloaderRight
      <3>5. unloaders[v].pc = "remove" =>
                /\ unloaders[v].id \notin resources
                /\ \A i \in Regions : regions[i].owner # unloaders[v].id
        BY Zenon, <3>1, UnloaderRight
      <3> QED
        BY Zenon, <3>1, <3>2, <3>3, <3>4, <3>5
    <2> QED
      BY <2>8, <2>9, <2>10, <2>11, <2>12, <2>13, <2>14
  <1> QED
    BY <1>8, <1>9

-----------------------------------------------------------------------------
\* The registries at boot.
LEMMA NemInitially ==
    ASSUME NemAssumption, NemInit
    PROVE  NemInv
  <1>1. NoDriver \in DriverRecs /\ NoDriver.id = -1 /\ NoDriver.name = "none"
    BY DEF NoDriver, DriverRecs, DriverStates
  <1>2. NoRegion \in [owner : Int, layout : BOOLEAN] /\ NoRegion.owner = -1
    BY DEF NoRegion
  <1>3. /\ drivers = [s \in Slots |-> NoDriver] /\ driverCount = 0 /\ nextDriver = 1
        /\ regions = [i \in Regions |-> NoRegion] /\ resources = {} /\ hotEntries = {}
        /\ loader = IdleLoader /\ unloaders = [u \in Unloaders |-> IdleUnloader]
    BY DEF NemInit
  <1>4. IdleLoader \in [pc : {"idle", "register"} \cup Loading, name : DriverNames \cup {""},
                        base : Bases, id : Nat, boot : BOOLEAN]
    BY DEF IdleLoader, Bases
  <1>5. IdleUnloader \in [pc : {"idle", "wait", "remove"}, id : Nat, base : Bases]
        /\ IdleUnloader.pc = "idle"
    BY DEF IdleUnloader, Bases
  <1>6. NemTypes
    <2>1. drivers \in [Slots -> DriverRecs]
          /\ regions \in [Regions -> [owner : Int, layout : BOOLEAN]]
      BY <1>1, <1>2, <1>3
    <2>2. nextDriver \in Nat \ {0} /\ hotEntries \in SUBSET [id : Nat, base : Bases]
      BY <1>3
    <2>3. unloaders \in [Unloaders -> [pc : {"idle", "wait", "remove"}, id : Nat, base : Bases]]
      BY <1>3, <1>5
    <2> QED
      BY <1>3, <1>4, <2>1, <2>2, <2>3 DEF NemTypes
  <1>7. Ids = {}
    BY <1>1, <1>3 DEF Ids
  <1>8. SlotsRight
    <2>1. "none" \notin DriverNames
      BY DEF NemAssumption
    <2>2. \A s \in Slots : drivers[s].id = -1 /\ drivers[s].name = "none"
      BY <1>1, <1>3
    <2> QED
      BY <2>1, <2>2 DEF SlotsRight
  <1>9. Counted
    BY <1>3, <1>7, FS_EmptySet DEF Counted
  <1>10. EntriesRight /\ OwnersRight
    BY <1>2, <1>3, <1>7 DEF EntriesRight, OwnersRight
  <1>11. LoaderRight
    BY <1>3 DEF LoaderRight, IdleLoader, Loading
  <1>12. UnloadersRight
    BY <1>3, <1>5 DEF UnloadersRight
  <1> QED
    BY <1>6, <1>8, <1>9, <1>10, <1>11, <1>12 DEF NemInv

\* The driver table, its count, the isolated regions, the resources and the
\* hot-reload entries describe the same drivers, whatever loads fail on the way
\* and however many callers unload the same driver at once.
THEOREM DriverRegistriesAgree ==
    ASSUME NemAssumption
    PROVE  NemSpec => []RegistriesAgree
  <1>1. NemInit => NemInv
    BY NemInitially
  <1>2. NemInv /\ [NemNext]_nemVars => NemInv'
    <2> SUFFICES ASSUME NemInv, [NemNext]_nemVars PROVE NemInv'
      OBVIOUS
    <2>1. ASSUME NEW n \in DriverNames, LoadAtBoot(n) \/ reload_driver(n) PROVE NemInv'
      BY ZenonT(60), <2>1, LoadKeeps DEF LoadAtBoot, reload_driver
    <2>2. CASE register_ext
      BY <2>2, RegisterKeeps
    <2>3. CASE driver_init
      BY <2>3, InitKeeps
    <2>4. CASE register_v3_event_bus_handler
      BY <2>4, BindKeeps
    <2>5. CASE driver_activate
      BY <2>5, ActivateKeeps
    <2>6. CASE acquire_release \/ UNCHANGED nemVars
      <3>1. UNCHANGED <<drivers, driverCount, nextDriver, regions, resources, hotEntries,
                        loader, unloaders>>
        BY <2>6 DEF acquire_release, nemVars
      <3>2. Ids' = Ids /\ \A x : Freed(x)' <=> Freed(x)
        BY <3>1 DEF Ids, Freed
      <3>3. NemTypes' /\ SlotsRight' /\ Counted'
        BY <3>1, <3>2 DEF NemInv, NemTypes, SlotsRight, Counted
      <3>4. EntriesRight' /\ OwnersRight'
        BY <3>1, <3>2 DEF NemInv, EntriesRight, OwnersRight
      <3>5. LoaderRight' /\ UnloadersRight'
        BY <3>1 DEF NemInv, LoaderRight, UnloadersRight
      <3> QED
        BY <3>3, <3>4, <3>5 DEF NemInv
    <2>7. ASSUME NEW u \in Unloaders, NEW n \in DriverNames, unload_driver(u, n) PROVE NemInv'
      BY <2>7, UnloadKeeps
    <2>8. ASSUME NEW u \in Unloaders, free_driver_slot(u) PROVE NemInv'
      BY <2>8, FreeKeeps
    <2>9. ASSUME NEW u \in Unloaders, remove(u) PROVE NemInv'
      BY <2>9, RemoveKeeps
    <2> QED
      BY <2>1, <2>2, <2>3, <2>4, <2>5, <2>6, <2>7, <2>8, <2>9 DEF NemNext
  <1>3. NemInv => RegistriesAgree
    <2> SUFFICES ASSUME NemInv PROVE RegistriesAgree
      OBVIOUS
    <2>1. ASSUME NEW e \in hotEntries, e.base # Heap, ~Freed(e.id) PROVE Owned(e.id) = {e.base}
      <3>1. e.base \in Regions
        BY <2>1 DEF NemInv, NemTypes, Bases
      <3> QED
        BY <2>1, <3>1 DEF NemInv, EntriesRight, Owned
    <2> QED
      BY <2>1 DEF NemInv, Counted, EntriesRight, OwnersRight, RegistriesAgree, Freed
  <1> QED
    BY <1>1, <1>2, <1>3, PTL DEF NemSpec
=============================================================================
