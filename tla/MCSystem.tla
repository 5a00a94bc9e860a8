------------------------------ MODULE MCSystem ------------------------------
(***************************************************************************)
(* The parts of the system above the kernel's mechanisms on small          *)
(* instances: loadable drivers, services, the registry, memory and the     *)
(* translation tables.  A behaviour exercises the component named by       *)
(* focus; the others stay in their initial states.                         *)
(***************************************************************************)
EXTENDS NemDrivers, Services, TLC

CONSTANT Components

VARIABLES focus,
          hives, files, keys, flush, loading, tree, cmOps, cmLoad, strayed, raced, moved,
          memLoad, bud, held, slab, pt, tlb, proc, cpu, shoot, memHist,
          nltLoad, nltFile, disk, lang, tables, res, nltSteps

\* "app" depends on "net".
ServiceChain == [s \in {"net", "app"} |-> IF s = "app" THEN <<"net", "app">> ELSE <<"net">>]
ServicePolicy == [s \in {"net", "app"} |-> IF s = "app" THEN "OnCrash" ELSE "Always"]

R == INSTANCE Registry WITH
       KeyNames <- {"a", "b"}, Data <- {1}, Paths <- {"A", "B"}, MAX_CELLS <- 3, MaxCells <- 4,
       MAX_HIVES <- 3, KeyHandles <- {1, 2}, Flushers <- {"f"}, MaxCmOps <- 6,
       CmLoads <- {{"keys", "values", "crash", "flush"}, {"keys", "mount", "flush"}}

Mem == INSTANCE Memory WITH
         load <- memLoad, hist <- memHist, Workloads <- {"buddy", "slab", "heap"},
         Frames <- 8, MAX_ORDER <- 2, MAX_FREE_SLOTS <- 2, PerPage <- 2, BATCH_SIZE <- 2, MaxOwned <- 3,
         Cpus <- {0, 1}, Procs <- {1, 2, 3}, SlotPages <- 2, MAX_HEAP_SLOTS <- 2,
         HeapFrames <- {4, 5}, MaxOps <- 4

\* Catalogues of three applications: names are 1, 2, 3, letters 1..9, plural forms
\* 0 (zero) to 5 (other).
Region == [fields |-> <<<<3>>, <<4>>, <<5, 6>>, <<7>>, <<7, 7>>, <<8>>>>, time_24h |-> TRUE,
           currency_before |-> FALSE, group_thousands |-> TRUE]
WithRegion == [none |-> FALSE, it |-> Region]
Regionless == [none |-> TRUE]
Catalogue(app, tag, ids, strings, plural, region) ==
  [app |-> app, lang |-> tag, ids |-> ids, strings |-> strings, plural |-> plural, region |-> region]
FileIds == 1 :> 7 @@ 2 :> 5 @@ 3 :> 6
Catalogues ==
  {Catalogue(1, <<"en", "US">>, FileIds, 1 :> <<1, 2, 3, 1, 2, 3, 1, 2>> @@ 2 :> <<2>>,
             3 :> (1 :> <<4>> @@ 5 :> <<4, 5>>), WithRegion),
   Catalogue(1, <<"ru", "RU">>, FileIds, 1 :> <<6, 9>> @@ 2 :> <<7>>,
             3 :> (1 :> <<4>> @@ 3 :> <<4, 6>> @@ 5 :> <<4, 5>>), Regionless),
   Catalogue(2, <<"en", "US">>, 1 :> 7, 1 :> <<3, 3, 3, 3, 3, 3>>, <<>>, Regionless),
   Catalogue(2, <<"ru", "RU">>, 1 :> 7, 1 :> <<8>>, <<>>, WithRegion),
   Catalogue(3, <<"ar", "SA">>, <<>>, 1 :> <<1, 2, 3, 4, 1, 2, 3, 5, 1, 2, 3, 4>> @@ 3 :> <<>>,
             2 :> (0 :> <<1>> @@ 2 :> <<2, 1, 2, 3, 4>> @@ 4 :> <<5>> @@ 5 :> <<6>>), Regionless)}

L == INSTANCE Nlt WITH
       load <- nltLoad, file <- nltFile, steps <- nltSteps, Workloads <- {"table", "i18n", "text"},
       Sources <- Catalogues, Tags <- {<<"en", "US">>, <<"ru", "UA">>, <<"pt", "BR">>},
       WINDOW_SIZE <- 40, MAX_MATCH <- 6, MAX_REL <- 40, MAX_FILE <- 64, MAX_TABLES <- 2,
       MAX_RUNS <- 2, MAX_RUN_CHARS <- 3, FMT_LEN <- 5, Counts <- {0, 1, 2, 3, 5, 11, 21},
       Amounts <- {0, 7, -7, 42, 999, 1000, -1000, 54321, -1234567, 1000000, -50},
       Parts <- {"{", "}", "0", "1", "a"}, MaxOps <- 3

ASSUME NemAssumption /\ ServicesAssumption

cmVars == <<hives, files, keys, flush, loading, tree, cmOps, cmLoad, strayed, raced, moved>>
memVars == <<memLoad, bud, held, slab, pt, tlb, proc, cpu, shoot, memHist>>
nltVars == <<nltLoad, nltFile, disk, lang, tables, res, nltSteps>>
vars == <<focus, nemVars, svcVars, cmVars, memVars, nltVars>>

Init ==
    /\ focus \in Components
    /\ NemInit
    /\ SvcInit /\ (focus # "services" => svcLoad = {"stop", "crash"})
    /\ R!CmInit /\ (focus # "registry" => "mount" \in cmLoad)
    /\ Mem!Init /\ (focus # "memory" => memLoad = "heap")
    /\ L!Init /\ (focus # "locale" => nltLoad = "text")

Next ==
    /\ UNCHANGED focus
    /\ \/ focus = "drivers" /\ NemNext /\ UNCHANGED <<svcVars, cmVars, memVars, nltVars>>
       \/ focus = "services" /\ SvcNext /\ UNCHANGED <<nemVars, cmVars, memVars, nltVars>>
       \/ focus = "registry" /\ R!CmNext /\ UNCHANGED <<nemVars, svcVars, memVars, nltVars>>
       \/ focus = "memory" /\ Mem!Next /\ UNCHANGED <<nemVars, svcVars, cmVars, nltVars>>
       \/ focus = "locale" /\ L!Next /\ UNCHANGED <<nemVars, svcVars, cmVars, memVars>>

Spec == Init /\ [][Next]_vars
-----------------------------------------------------------------------------
\* The cells of a hive form a tree of keys and values with no cell both free and
\* linked, after any sequence of creates and deletes, and a hive that is not marked
\* dirty is the hive in its file, whatever flushes fail.
HivesSound == focus = "registry" => R!HiveIsTree /\ R!CleanIsOnDisk

\* No frame, heap page or slab object has two owners, and no CPU keeps a stale
\* translation to a frame that was freed: buddy splits and merges, the slab's
\* per-CPU caches, heaps growing and shrinking on two CPUs.
FramesOwnedOnce == focus = "memory" => Mem!FramesOwnedOnce

\* What nltc compiles from a catalogue is what a program reads back: every text of
\* the nearest language with a sound table, plural forms included, after loads,
\* unloads and changes of language; and the formatting helpers lose nothing of what
\* they format.
TranslationsRight == focus = "locale" => L!TranslationsRight
=============================================================================
