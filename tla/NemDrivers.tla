----------------------------- MODULE NemDrivers -----------------------------
(***************************************************************************)
(* The life of a loadable (.nem) driver: the runtime registry and its state *)
(* machine (drivers/nem/runtime), the load pipeline                         *)
(* (management/driver_manager.rs, loader/v3loader.rs), the slots of the     *)
(* isolated memory region (management/isolation.rs), the resources a driver *)
(* registers through the exported hst_* functions, and unloading and        *)
(* reloading while the system runs (management/hotreload.rs).               *)
(*                                                                          *)
(* One loader works through the drivers the boot scan matched, and later    *)
(* runs reload_driver; any caller may unload a driver by name meanwhile.    *)
(* "rtc" stands for the drivers that handle events, "disk" for those that   *)
(* register a block device. What driver code returns is a choice.           *)
(***************************************************************************)
EXTENDS Integers, Sequences, FiniteSets

CONSTANTS DriverNames, Unloaders,
          MAX_DRIVERS, MAX_ISOLATED_DRIVERS, MAX_V3_HANDLERS,
          MaxLoads                  \* loads attempted

\* The names an empty and a cleared slot have are no driver's.
NemAssumption == /\ MAX_DRIVERS \in Nat /\ MAX_ISOLATED_DRIVERS \in Nat
                 /\ {"", "none"} \cap DriverNames = {}

VARIABLES drivers, driverCount, nextDriver,     \* DriverRuntime
          regions,                              \* ISOLATED_REGIONS
          handlers,                             \* V3_HANDLERS
          resources, devices,                   \* RESOURCE_REGISTRY, the devices
          hotEntries,                           \* HOT_RELOAD_REGISTRY
          loader, unloaders, loads

nemVars == <<drivers, driverCount, nextDriver, regions, handlers, resources,
             devices, hotEntries, loader, unloaders, loads>>

Slots == 1..MAX_DRIVERS
Regions == 1..MAX_ISOLATED_DRIVERS
NoDriver == [id |-> -1, name |-> "none", st |-> "none", err |-> FALSE]
\* What core::mem::take leaves in the slot of a removed driver.
Blank == [id |-> 0, name |-> "", st |-> "Unloaded", err |-> FALSE]
NoRegion == [owner |-> -1, layout |-> FALSE]
Placeholder == -2                   \* 0xFFFF_FFFE
Heap == 0                           \* loaded outside the isolated region
IdleLoader == [pc |-> "idle", name |-> "", base |-> Heap, id |-> 0, boot |-> FALSE]
IdleUnloader == [pc |-> "idle", id |-> 0, base |-> Heap]

Lowest(S) == CHOOSE x \in S : \A y \in S : x <= y
Ids == {drivers[s].id : s \in Slots} \ {-1, 0}
SlotOf(id) == Lowest({s \in Slots : drivers[s].id = id})
Named(n) == {s \in Slots : drivers[s].name = n}
Owned(id) == {i \in Regions : regions[i].owner = id}

is_valid_transition(from, to) ==
    \/ <<from, to>> \in {<<"Loaded", "Initialized">>, <<"Initialized", "Registered">>,
                         <<"Registered", "Bound">>, <<"Bound", "Active">>,
                         <<"Active", "Unloading">>, <<"Unloading", "Unloaded">>,
                         <<"Unloaded", "Loaded">>}
    \/ to \in {"Faulted", "Unloaded"}
    \/ from = to

try_transition(d, to) == IF is_valid_transition(d.st, to) THEN [d EXCEPT !.st = to] ELSE d
set_error(d) == [d EXCEPT !.st = "Faulted", !.err = TRUE]

certify_and_activate(d) ==
    CASE d.st # "Bound" -> [d EXCEPT !.err = TRUE]
      [] d.st = "Bound" /\ d.err -> d
      [] OTHER -> [d EXCEPT !.st = "Active"]

-----------------------------------------------------------------------------
(* Loading.                                                                 *)

\* load_nem_v3: the first free slot under the placeholder owner, or the heap;
\* the layout goes to the first slot of the placeholder. When a relocation
\* does not resolve, the error return keeps the slot.
load_nem_v3(n, boot) ==
    /\ loader.pc = "idle" /\ loads < MaxLoads
    /\ LET free == {i \in Regions : regions[i].owner = -1}
           base == IF free = {} THEN Heap ELSE Lowest(free)
           r1 == IF free = {} THEN regions
                 ELSE [regions EXCEPT ![base].owner = Placeholder]
       IN /\ regions' = IF free = {} THEN r1
                        ELSE [r1 EXCEPT ![Lowest(Owned(Placeholder) \cup {base})].layout = TRUE]
          /\ \E relocated \in BOOLEAN :
                loader' = IF relocated
                          THEN [pc |-> "register", name |-> n, base |-> base,
                                id |-> 0, boot |-> boot]
                          ELSE IdleLoader
    /\ loads' = loads + 1
    /\ UNCHANGED <<drivers, driverCount, nextDriver, handlers, resources, devices,
                   hotEntries, unloaders>>

\* load_matched_drivers takes every matched driver once, reload_driver a driver
\* that is not there any more (its forced unload is unload_driver below).
LoadAtBoot(n) == /\ loads < Cardinality(DriverNames) /\ Named(n) = {}
                 /\ load_nem_v3(n, TRUE)
reload_driver(n) == /\ loads >= Cardinality(DriverNames) /\ Named(n) = {}
                    /\ load_nem_v3(n, FALSE)

\* Mutant: the slot to bind is looked up by the placeholder alone.
BindFirstPlaceholder(id, base) ==
    IF base = Heap THEN regions
    ELSE [regions EXCEPT ![Lowest(Owned(Placeholder))].owner = id]

bind_isolated_driver(id, base) ==
    IF base \in Owned(Placeholder) THEN [regions EXCEPT ![base].owner = id] ELSE regions

\* register_ext, bind_isolated_driver and register_load_result. A registration
\* that fails leaves the memory to the placeholder.
register_ext ==
    LET empty == {s \in Slots : drivers[s] = NoDriver}
    IN /\ loader.pc = "register"
       /\ nextDriver' = IF driverCount < MAX_DRIVERS THEN nextDriver + 1 ELSE nextDriver
       /\ IF driverCount < MAX_DRIVERS /\ empty # {}
          THEN /\ drivers' = [drivers EXCEPT ![Lowest(empty)] =
                      [id |-> nextDriver, name |-> loader.name, st |-> "Loaded", err |-> FALSE]]
               /\ driverCount' = driverCount + 1
               /\ regions' = bind_isolated_driver(nextDriver, loader.base)
               /\ hotEntries' = hotEntries \cup {[id |-> nextDriver, base |-> loader.base]}
               /\ loader' = [loader EXCEPT !.pc = "init", !.id = nextDriver]
          ELSE /\ loader' = IdleLoader
               /\ UNCHANGED <<drivers, driverCount, regions, hotEntries>>
    /\ UNCHANGED <<handlers, resources, devices, unloaders, loads>>

\* driver_init, with the device it registers while it is the current driver.
driver_init ==
    LET s == SlotOf(loader.id)
    IN /\ loader.pc = "init"
       /\ \E ok \in BOOLEAN :
            /\ drivers' = [drivers EXCEPT ![s] = IF ok
                    THEN try_transition(try_transition(@, "Initialized"), "Registered")
                    ELSE set_error(@)]
            /\ loader' = IF ok THEN [loader EXCEPT !.pc = "bind"] ELSE IdleLoader
       /\ IF loader.name = "disk"
          THEN /\ devices' = devices \cup {[owner |-> loader.id, refs |-> 0]}
               /\ resources' = resources \cup {loader.id}
          ELSE UNCHANGED <<devices, resources>>
       /\ UNCHANGED <<driverCount, nextDriver, regions, handlers, hotEntries, unloaders, loads>>

\* At boot the event handlers are registered by driver name (a full table is
\* not reported); reload_driver has no such step.
register_v3_event_bus_handler ==
    /\ loader.pc = "bind"
    /\ handlers' = IF loader.boot /\ loader.name = "rtc" /\ Len(handlers) < MAX_V3_HANDLERS
                   THEN Append(handlers, loader.id) ELSE handlers
    /\ drivers' = [drivers EXCEPT ![SlotOf(loader.id)] = try_transition(@, "Bound")]
    /\ loader' = [loader EXCEPT !.pc = "activate"]
    /\ UNCHANGED <<driverCount, nextDriver, regions, resources, devices, hotEntries,
                   unloaders, loads>>

driver_activate ==
    /\ loader.pc = "activate"
    /\ \E ok \in BOOLEAN : drivers' = [drivers EXCEPT ![SlotOf(loader.id)] =
                                 IF ok THEN certify_and_activate(@) ELSE set_error(@)]
    /\ loader' = IdleLoader
    /\ UNCHANGED <<driverCount, nextDriver, regions, handlers, resources, devices,
                   hotEntries, unloaders, loads>>

-----------------------------------------------------------------------------
(* Use and unloading.                                                       *)

\* A mount acquires a block device, an unmount releases it.
acquire_release ==
    /\ \E d \in devices : devices' = (devices \ {d}) \cup {[d EXCEPT !.refs = 1 - @]}
    /\ UNCHANGED <<drivers, driverCount, nextDriver, regions, handlers, resources,
                   hotEntries, loader, unloaders, loads>>

\* unload_driver up to the wait for the acknowledgement: the lookup by name,
\* the entry copied, the state Unloading (which a driver already Unloading
\* passes), driver_fini and the event.
unload_driver(u, n) ==
    /\ unloaders[u].pc = "idle" /\ Named(n) # {}
    /\ LET s == Lowest(Named(n))
           es == {e \in hotEntries : e.id = drivers[s].id}
       IN /\ is_valid_transition(drivers[s].st, "Unloading")
          /\ drivers' = [drivers EXCEPT ![s].st = "Unloading"]
          /\ unloaders' = [unloaders EXCEPT ![u] =
                 [pc |-> "wait", id |-> drivers[s].id,
                  base |-> (CHOOSE e \in es : TRUE).base]]
    /\ UNCHANGED <<driverCount, nextDriver, regions, handlers, resources, devices,
                   hotEntries, loader, loads>>

\* The wait is over (acknowledged, timed out or forced): the tracked resources
\* go, a block device in use stays registered, and the memory is freed.
free_driver_slot(u) ==
    LET id == unloaders[u].id
    IN /\ unloaders[u].pc = "wait"
       /\ resources' = resources \ {id}
       /\ devices' = IF id \in resources
                     THEN devices \ {[owner |-> id, refs |-> 0]} ELSE devices
       /\ regions' = [i \in Regions |->
              IF unloaders[u].base # Heap /\ regions[i].owner = id
              THEN NoRegion ELSE regions[i]]
       /\ unloaders' = [unloaders EXCEPT ![u].pc = "remove"]
       /\ UNCHANGED <<drivers, driverCount, nextDriver, handlers, hotEntries, loader, loads>>

\* remove: not found is an error return, before the hot-reload entry goes.
remove(u) ==
    LET id == unloaders[u].id
    IN /\ unloaders[u].pc = "remove"
       /\ IF id \in Ids
          THEN /\ drivers' = [drivers EXCEPT ![SlotOf(id)] = Blank]
               /\ driverCount' = driverCount - 1
               /\ hotEntries' = {e \in hotEntries : e.id # id}
          ELSE UNCHANGED <<drivers, driverCount, hotEntries>>
       /\ unloaders' = [unloaders EXCEPT ![u] = IdleUnloader]
       /\ UNCHANGED <<nextDriver, regions, handlers, resources, devices, loader, loads>>

NemInit ==
    /\ drivers = [s \in Slots |-> NoDriver] /\ driverCount = 0 /\ nextDriver = 1
    /\ regions = [i \in Regions |-> NoRegion]
    /\ handlers = <<>> /\ resources = {} /\ devices = {} /\ hotEntries = {}
    /\ loader = IdleLoader /\ unloaders = [u \in Unloaders |-> IdleUnloader] /\ loads = 0

NemNext ==
    \/ \E n \in DriverNames : LoadAtBoot(n) \/ reload_driver(n)
    \/ register_ext \/ driver_init \/ register_v3_event_bus_handler \/ driver_activate
    \/ acquire_release
    \/ \E u \in Unloaders :
          (\E n \in DriverNames : unload_driver(u, n)) \/ free_driver_slot(u) \/ remove(u)

NemSpec == NemInit /\ [][NemNext]_nemVars

-----------------------------------------------------------------------------
\* The registries agree, whatever loads failed on the way and however many
\* callers unload the same driver at once: the count is the number of drivers
\* registered, a tracked resource and a hot-reload entry belong to one of them,
\* and a driver loaded into the isolated region owns the slot it was loaded at
\* until an unload of it frees that slot (so that no second driver is put there).
RegistriesAgree ==
    /\ driverCount = Cardinality(Ids)
    /\ resources \subseteq Ids
    /\ \A e \in hotEntries :
          /\ e.id \in Ids
          /\ (e.base # Heap /\ \A u \in Unloaders : ~(unloaders[u].pc = "remove" /\ unloaders[u].id = e.id))
                 => Owned(e.id) = {e.base}
    /\ \A i \in Regions : regions[i].owner \in Ids \cup {-1, Placeholder}

\* The event handler table holds handlers of loaded drivers only: unloading a
\* driver takes its handlers away with its memory.
HandlersAreLoaded == \A i \in 1..Len(handlers) : handlers[i] \in Ids
=============================================================================
