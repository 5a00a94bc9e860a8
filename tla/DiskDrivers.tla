---------------------------- MODULE DiskDrivers ----------------------------
(***************************************************************************)
(* The block drivers: the boot AHCI, NVMe, virtio and ATA drivers of the   *)
(* kernel, and the loadable ahci.nem, ata.nem and virtio-blk.nem.  All of  *)
(* them are polled: a request writes a command into memory shared with the *)
(* controller, rings it, and spins until the controller shows completion   *)
(* or a loop bound runs out.  The block device table's lock is held all    *)
(* along, so one request runs at a time; what interleaves with it is the   *)
(* controller, which may be slow, fail, or answer after the driver gave up.*)
(*                                                                         *)
(* A transfer is one block.  `load' fixes the controller and the drivers   *)
(* that use it.  Register layouts, PCI discovery and the DMA buffers'      *)
(* allocation are left out.                                                *)
(***************************************************************************)
EXTENDS Naturals, Sequences, FiniteSets, SequencesExt

CONSTANTS Workloads,   \* the controllers to explore
          Vals,        \* block contents
          Sectors,     \* blocks of the disk, partition included
          PartBase,    \* the partition's first block
          Tags,        \* NCQ tags of a port (NCQ_MAX_TAGS)
          QSize,       \* entries of an NVMe queue
          UsedMod,     \* the virtio index wraps here (2^16)
          MaxReqs      \* bound: requests made

VARIABLES load, disk, buf, port, drv, req, hist
vars == <<load, disk, buf, port, drv, req, hist>>

NoVal == "empty"
NoCmd == [op |-> "none", lba |-> 0, b |-> 0]
Lbas == 0..(Sectors - 1)
Slots == 0..(Tags - 1)
DMA == Tags                      \* index of the port's single DMA buffer
Owners == {"boot", "nem"}
Rings == {"admin", "io"}

Untranslated(lba) == lba

(* IoStack::translate_lba: a partition's block on the whole device.        *)
translate_lba(lba) == PartBase + lba

-----------------------------------------------------------------------------
(* The drivers' own memory.                                                *)

DrvInit(atapi, ncq, shifted) ==
           [atapi |-> atapi /\ load \in {"ahci", "nem"},
            ncq |-> (ncq /\ ~atapi /\ load = "nem") \/ load = "ncq",
            shifted |-> shifted /\ load = "nem",  \* phys_port differs from the index
            next |-> 0,            \* BootAhci.next_slot
            busy |-> {},           \* tags handed out (IrpTagMap, tag_busy)
            hint |-> 0,            \* IrpTagMap.next_tag_hint
            tail |-> [r \in Rings |-> 0], head |-> [r \in Rings |-> 0],
            phase |-> [r \in Rings |-> TRUE],
            last |-> 0,            \* SplitVring.last_used_idx
            probe |-> "none",      \* how far NvmeDriver::probe_all got
            nem |-> "off"]         \* the loadable driver: off, on, reclaimed

(* VirtIoBlk::probe names its queue to the device.                         *)
QueueKnown == TRUE

(* The controller as the boot drivers' probes leave it.                    *)
PortInit == [clb |-> "boot", ci |-> {}, err |-> FALSE,
             list |-> [o \in Owners |-> [s \in 0..Tags |-> NoCmd]],
             sq |-> [r \in Rings |-> [i \in 0..(QSize - 1) |-> NoCmd]],
             sqhead |-> [r \in Rings |-> 0], sqtail |-> [r \in Rings |-> 0],
             cq |-> [r \in Rings |-> [i \in 0..(QSize - 1) |->
                        [cid |-> 0, phase |-> FALSE, status |-> "ok"]]],
             ctail |-> [r \in Rings |-> 0], cphase |-> [r \in Rings |-> TRUE],
             chead |-> [r \in Rings |-> 0],
             avail |-> 0, used |-> 0, status |-> "ok", queue |-> QueueKnown,
             active |-> FALSE, drive |-> "ok"]

Idle == [st |-> "idle", by |-> "boot", via |-> "dma", cmds |-> <<>>,
         tags |-> <<>>, tries |-> 0, oks |-> <<>>, data |-> <<>>]

Init == /\ load \in Workloads
        /\ disk = [i \in Lbas |-> NoVal]
        /\ buf = [o \in Owners |-> [b \in 0..Tags |-> NoVal]]
        /\ port = PortInit
        /\ \E a, n, w \in BOOLEAN : drv = DrvInit(a, n, w)
        /\ req = Idle
        /\ hist = [reqs |-> 0, blind |-> {}]

(* Inputs of a driver: one block to read or write, with the caller's data. *)
Op(op, lba, val) == [op |-> op, lba |-> lba, val |-> val]
Reads == {Op("read", i, NoVal) : i \in 0..(Sectors - PartBase - 1)}
Writes == {Op("write", i, v) : i \in 0..(Sectors - PartBase - 1), v \in Vals}

(* A request enters a driver.                                              *)
Begin(by, via, cmds, tags) ==
    /\ req.st = "idle" /\ hist.reqs < MaxReqs
    /\ req' = [Idle EXCEPT !.st = "wait", !.by = by, !.via = via,
                           !.cmds = cmds, !.tags = tags]
    /\ hist' = [hist EXCEPT !.reqs = @ + 1,
                   !.blind = @ \cup (IF port.clb # by /\ load = "both" THEN {"other list"} ELSE {})]

(* It returns: per command a result and, for a read, the caller's buffer.  *)
Return(oks, data) ==
    req' = [req EXCEPT !.st = "done", !.oks = oks, !.data = data]

Fail == Return([i \in DOMAIN req.cmds |-> FALSE],
               [i \in DOMAIN req.cmds |-> NoVal])

(* Something the drivers do not look at: a command left with the           *)
(* controller, a port that follows the other driver's command list, an     *)
(* error bit a write does not read.                                        *)
Blind(why) == hist' = [hist EXCEPT !.blind = @ \cup {why}]

Cmd(op, b) == [op |-> op.op, lba |-> translate_lba(op.lba), b |-> b]

(* Copy of a write's data into the bounce buffer the controller reads.     *)
Bounced(by, op, b) ==
    IF op.op = "write" THEN [buf EXCEPT ![by][b] = op.val] ELSE buf

-----------------------------------------------------------------------------
(* The controllers (hardware, modelled from how the drivers use them).     *)

(* What executing c does to the disk and to the memory of c's owner.       *)
Moves(c, o, ok) ==
    /\ disk' = IF ok /\ c.op = "write" THEN [disk EXCEPT ![c.lba] = buf[o][c.b]] ELSE disk
    /\ buf' = IF ok /\ c.op = "read" THEN [buf EXCEPT ![o][c.b] = disk[c.lba]] ELSE buf

(* An AHCI port runs the command its list holds at an issued slot; after   *)
(* an error, with the slot shown as finished or not, it halts until it is  *)
(* restarted.                                                              *)
AhciDevice(s, ok) ==
    /\ s \in port.ci /\ ~port.err
    /\ (drv.atapi /\ port.list[port.clb][s].op = "write") => ~ok
    /\ Moves(port.list[port.clb][s], port.clb, ok)
    /\ \E fin \in {{s}} \cup (IF ok THEN {} ELSE {{}}) :
          port' = [port EXCEPT !.ci = @ \ fin, !.err = ~ok]
    /\ UNCHANGED <<load, drv, req, hist>>

(* An NVMe controller takes the next submission and posts its completion,  *)
(* unless the completion queue is full.                                    *)
NvmeDevice(r, ok) ==
    LET i == port.sqhead[r]  c == port.sq[r][i]  t == port.ctail[r] IN
    /\ i # port.sqtail[r] /\ (t + 1) % QSize # port.chead[r]
    /\ Moves(c, "boot", ok)
    /\ port' = [port EXCEPT !.sqhead[r] = (i + 1) % QSize,
                  !.cq[r][t] = [cid |-> i, phase |-> port.cphase[r],
                                status |-> IF ok THEN "ok" ELSE "error"],
                  !.ctail[r] = (t + 1) % QSize,
                  !.cphase[r] = IF t + 1 = QSize THEN ~@ ELSE @]
    /\ UNCHANGED <<load, drv, req, hist>>

(* A virtio device serves the chain at descriptor 0 of a queue it knows.   *)
VirtioDevice(ok) ==
    /\ port.queue /\ port.avail # port.used
    /\ Moves(port.list["boot"][0], "boot", ok)
    /\ port' = [port EXCEPT !.used = (@ + 1) % UsedMod,
                            !.status = IF ok THEN "ok" ELSE "error"]
    /\ UNCHANGED <<load, drv, req, hist>>

(* The IDE bus master finishes the transfer it was started on; an error    *)
(* shows in the drive's status, and in the bus master's when `seen'.       *)
AtaDevice(ok, seen) ==
    /\ port.active
    /\ Moves(port.list["nem"][0], "nem", ok)
    /\ port' = [port EXCEPT !.active = FALSE, !.err = ~ok /\ seen,
                            !.drive = IF ok THEN "ok" ELSE "error"]
    /\ UNCHANGED <<load, drv, req, hist>>

-----------------------------------------------------------------------------
(* BootAhci.                                                               *)

(* The port restarts: ST off drops what was issued, ST on resumes.         *)
Restarted(p) == [p EXCEPT !.ci = {}, !.err = FALSE]

(* All slots of dma_xfer share one command table.                          *)
Issued(p, o, slot, c) ==
    [p EXCEPT !.ci = @ \cup {slot},
              !.list[o] = [s \in DOMAIN @ |->
                             IF s = slot \/ (s \in 0..1 /\ @[s] # NoCmd /\ c.b = DMA)
                             THEN c ELSE @[s]]]

dma_xfer(op) ==
    LET slot == drv.next IN
    /\ load \in {"ahci", "both"} \/ (load = "ncq" /\ op.op = "write")
    /\ drv' = [drv EXCEPT !.next = (slot + 1) % 2]
    /\ IF drv.atapi
       THEN /\ req.st = "idle" /\ hist.reqs < MaxReqs
            /\ req' = [Idle EXCEPT !.st = "done", !.cmds = <<op>>, !.oks = <<FALSE>>,
                                   !.data = <<NoVal>>]
            /\ hist' = [hist EXCEPT !.reqs = @ + 1]
            /\ UNCHANGED <<buf, port>>
       ELSE /\ Begin("boot", "dma", <<op>>, <<slot>>)
            /\ buf' = Bounced("boot", op, DMA)
            /\ port' = Issued(port, "boot", slot, Cmd(op, DMA))
    /\ UNCHANGED <<load, disk>>

Waiting(by, via) == req.st = "wait" /\ req.by = by /\ req.via = via

Got(by, b, op) == IF op.op = "read" THEN buf[by][b] ELSE NoVal

DmaDone ==
    /\ Waiting("boot", "dma") /\ req.tags[1] \notin port.ci
    /\ IF port.err THEN Fail ELSE Return(<<TRUE>>, <<Got("boot", DMA, req.cmds[1])>>)
    /\ UNCHANGED <<load, disk, buf, port, drv, hist>>

(* The first timeout restarts the port and issues the command again.       *)
RetriesStale ==
    /\ Waiting("boot", "dma") /\ req.tags[1] \in port.ci
    /\ Fail
    /\ UNCHANGED <<load, disk, buf, port, drv, hist>>

DmaTimeout ==
    /\ Waiting("boot", "dma") /\ req.tags[1] \in port.ci
    /\ IF req.tries = 0
       THEN /\ req' = [req EXCEPT !.tries = 1]
            /\ port' = Issued(Restarted(port), "boot", req.tags[1], Cmd(req.cmds[1], DMA))
       ELSE Fail /\ port' = Restarted(port)
    /\ UNCHANGED <<load, disk, buf, drv, hist>>

(* IrpTagMap::alloc_tag: the first free tag from the hint on.              *)
alloc_tag(d) ==
    LET k == CHOOSE i \in Slots : /\ (d.hint + i) % Tags \notin d.busy
                                  /\ \A j \in 0..(i - 1) : (d.hint + j) % Tags \in d.busy
        t == (d.hint + k) % Tags
    IN [d EXCEPT !.busy = @ \cup {t}, !.hint = (t + 1) % Tags]

KeepsTags(d, tags) == d

(* IrpTagMap::free, for the tags of a request.                             *)
FreeTags(d, tags) == [d EXCEPT !.busy = @ \ Range(tags)]

(* ncq_batch_xfer puts command i at hardware slot i - 1, with that slot's  *)
(* own table and buffer.                                                   *)
ncq_batch_xfer(ops) ==
    LET n == Len(ops) IN
    /\ buf' = [buf EXCEPT !["boot"] = [b \in DOMAIN @ |->
                 IF b < n /\ ops[b + 1].op = "write" THEN ops[b + 1].val ELSE @[b]]]
    /\ port' = [port EXCEPT !.ci = @ \cup 0..(n - 1),
                 !.list["boot"] = [s \in DOMAIN @ |->
                    IF s < n THEN Cmd(ops[s + 1], s) ELSE @[s]]]

(* submit_irp reads one block with NCQ; ncq_submit_irp_batch several IRPs. *)
ncq_submit_irp_batch(ops) ==
    /\ load = "ncq" /\ req.st = "idle" /\ Cardinality(Slots \ drv.busy) >= Len(ops)
    /\ LET d == IF Len(ops) = 1 THEN alloc_tag(drv) ELSE alloc_tag(alloc_tag(drv))
       IN /\ drv' = d
          /\ Begin("boot", "ncq", ops, SetToSeq(d.busy \ drv.busy))
    /\ ncq_batch_xfer(ops)
    /\ UNCHANGED <<load, disk>>

(* The count of completed commands says how many IRPs succeed, not which.  *)
BatchEnds(left) ==
    LET n == Len(req.cmds)
        fin(i) == (i - 1) \notin left /\ ~port.err
        completed == Cardinality({i \in 1..n : fin(i)})
    IN /\ Return([i \in 1..n |-> i <= completed],
                 [i \in 1..n |-> IF fin(i) THEN Got("boot", i - 1, req.cmds[i]) ELSE NoVal])
       /\ drv' = FreeTags(drv, req.tags)

BatchDone ==
    /\ Waiting("boot", "ncq") /\ port.ci \cap 0..(Len(req.cmds) - 1) = {}
    /\ BatchEnds({})
    /\ UNCHANGED <<load, disk, buf, port, hist>>

BatchTimeout ==
    /\ Waiting("boot", "ncq") /\ port.ci \cap 0..(Len(req.cmds) - 1) # {}
    /\ BatchEnds(port.ci)
    /\ Blind("abandoned")
    /\ UNCHANGED <<load, disk, buf, port>>

-----------------------------------------------------------------------------
(* ahci.nem.                                                               *)

(* port_init: the port restarts on the loadable driver's command list.     *)
port_init(p) == [p EXCEPT !.ci = {}, !.clb = "nem", !.err = FALSE]

(* port_reset is called with the port's index among those found, which     *)
(* need not be its number on the controller.                               *)
port_reset(p) == IF drv.shifted THEN p ELSE port_init(p)

nem_driver_init ==
    /\ load \in {"nem", "both"} /\ drv.nem = "off" /\ req.st = "idle"
    /\ port' = port_init(port)
    /\ drv' = [drv EXCEPT !.nem = "on"]
    /\ UNCHANGED <<load, disk, buf, req, hist>>

(* BootAhci::reclaim_ahci_port, once the loadable drivers are in.          *)
reclaim_ahci_port ==
    /\ load = "both" /\ drv.nem = "on" /\ req.st = "idle"
    /\ port' = [Restarted(port) EXCEPT !.clb = "boot"]
    /\ drv' = [drv EXCEPT !.nem = "reclaimed"]
    /\ UNCHANGED <<load, disk, buf, req, hist>>

ncq_tag_alloc(d) == [d EXCEPT !.busy = @ \cup {CHOOSE t \in Slots \ @ : \A u \in Slots \ @ : t <= u}]

(* dma_xfer and dma_packet: the single table and buffer, slot 0.           *)
nem_dma_xfer(op) ==
    /\ ~drv.ncq
    /\ Begin("nem", "dma", <<op>>, <<0>>)
    /\ buf' = Bounced("nem", op, DMA)
    /\ port' = Issued(port, "nem", 0, Cmd(op, DMA))
    /\ UNCHANGED <<load, disk, drv>>

(* ncq_dma_xfer: the lowest free tag's table and buffer.                   *)
ncq_dma_xfer(op) ==
    /\ drv.ncq /\ Slots \ drv.busy # {}
    /\ LET d == ncq_tag_alloc(drv)
           t == CHOOSE t \in d.busy \ drv.busy : TRUE
       IN /\ drv' = d
          /\ Begin("nem", "ncq", <<op>>, <<t>>)
          /\ buf' = Bounced("nem", op, t)
          /\ port' = Issued(port, "nem", t, Cmd(op, t))
    /\ UNCHANGED <<load, disk>>

ahci_read(op) == drv.nem # "off" /\ (nem_dma_xfer(op) \/ ncq_dma_xfer(op))

ahci_write(op) == drv.nem # "off" /\ (nem_dma_xfer(op) \/ ncq_dma_xfer(op))

NemBuf(i) == IF req.via = "dma" THEN DMA ELSE req.tags[i]

(* A finished command: an error resets the port and fails.                 *)
NemDone ==
    /\ req.st = "wait" /\ req.by = "nem" /\ req.via \in {"dma", "ncq"} /\ load \in {"nem", "both"}
    /\ req.tags[1] \notin port.ci
    /\ drv' = IF req.via = "ncq" THEN FreeTags(drv, req.tags) ELSE drv
    /\ IF port.err THEN Fail /\ port' = port_reset(port)
       ELSE Return(<<TRUE>>, <<Got("nem", NemBuf(1), req.cmds[1])>>) /\ UNCHANGED port
    /\ UNCHANGED <<load, disk, buf, hist>>

NemTimeout ==
    /\ req.st = "wait" /\ req.by = "nem" /\ req.via \in {"dma", "ncq"} /\ load \in {"nem", "both"}
    /\ req.tags[1] \in port.ci
    /\ drv' = IF req.via = "ncq" THEN FreeTags(drv, req.tags) ELSE drv
    /\ Fail /\ port' = port_reset(port)
    /\ IF port'.ci = {} THEN UNCHANGED hist ELSE Blind("abandoned")
    /\ UNCHANGED <<load, disk, buf>>

(* ahci_ncq_batch_read: consecutive blocks, one tag each.                  *)
ahci_ncq_batch_read(base) ==
    /\ drv.nem # "off" /\ drv.ncq /\ drv.busy = {}
    /\ LET d == ncq_tag_alloc(ncq_tag_alloc(drv))
           tags == SetToSortSeq(d.busy, <)
           ops == [i \in 1..2 |-> Op("read", base + i - 1, NoVal)]
       IN /\ drv' = d
          /\ Begin("nem", "batch", ops, tags)
          /\ port' = Issued(Issued(port, "nem", tags[1], Cmd(ops[1], tags[1])),
                            "nem", tags[2], Cmd(ops[2], tags[2]))
    /\ UNCHANGED <<load, disk, buf>>

(* Each tag has its own verdict; tags still issued stay with the port.     *)
NemBatchEnds ==
    LET ok(i) == req.tags[i] \notin port.ci /\ ~port.err IN
    /\ req.st = "wait" /\ req.via = "batch"
    /\ Return([i \in 1..2 |-> ok(i)],
              [i \in 1..2 |-> IF ok(i) THEN buf["nem"][req.tags[i]] ELSE NoVal])
    /\ drv' = FreeTags(drv, req.tags)
    /\ IF Range(req.tags) \cap port.ci = {} THEN UNCHANGED hist ELSE Blind("abandoned")
    /\ UNCHANGED <<load, disk, buf, port>>

-----------------------------------------------------------------------------
(* ata.nem (bus master or programmed I/O) and BootAta (programmed I/O).    *)

(* ata_read_dma, ata_write_dma: stopping the bus master ends what it did;  *)
(* a drive that stays busy refuses.                                        *)
ata_dma(op, busy) ==
    /\ load = "ata"
    /\ busy => port.active
    /\ Begin("nem", IF busy THEN "refused" ELSE "ide", <<op>>, <<0>>)
    /\ buf' = Bounced("nem", op, DMA)
    /\ port' = [port EXCEPT !.active = ~busy, !.err = FALSE, !.drive = "ok",
                   !.list["nem"][0] = IF busy THEN @ ELSE Cmd(op, DMA)]
    /\ UNCHANGED <<load, disk, drv>>

AtaRefused == /\ Waiting("nem", "refused") /\ Fail
              /\ UNCHANGED <<load, disk, buf, port, drv, hist>>

(* A read looks at both error bits, a write only at the bus master's.      *)
AtaDone ==
    /\ Waiting("nem", "ide") /\ ~port.active
    /\ LET op == req.cmds[1]
           bad == port.err \/ (op.op = "read" /\ port.drive = "error")
       IN /\ IF bad THEN Fail ELSE Return(<<TRUE>>, <<Got("nem", DMA, op)>>)
          /\ IF ~bad /\ port.drive = "error" THEN Blind("write error") ELSE UNCHANGED hist
    /\ UNCHANGED <<load, disk, buf, port, drv>>

AtaTimeout ==
    /\ Waiting("nem", "ide") /\ port.active
    /\ Fail /\ Blind("abandoned")
    /\ UNCHANGED <<load, disk, buf, port, drv>>

(* Programmed I/O moves the words itself: no command outlives the call.    *)
ata_pio(op, ok) ==
    /\ load = "pio" /\ req.st = "idle" /\ hist.reqs < MaxReqs
    /\ disk' = IF ok /\ op.op = "write" THEN [disk EXCEPT ![translate_lba(op.lba)] = op.val] ELSE disk
    /\ req' = [Idle EXCEPT !.st = "done", !.cmds = <<op>>, !.oks = <<ok \/ op.op = "write">>,
                 !.data = <<IF op.op = "read" /\ ok THEN disk[translate_lba(op.lba)] ELSE NoVal>>]
    /\ hist' = [reqs |-> hist.reqs + 1,
                blind |-> hist.blind \cup (IF ~ok /\ op.op = "write" THEN {"write error"} ELSE {})]
    /\ UNCHANGED <<load, buf, port, drv>>

-----------------------------------------------------------------------------
(* NvmeDriver: a submission and a completion ring for admin commands and   *)
(* one pair for I/O.                                                       *)

(* The command id is the entry's index; the tail is rung.                  *)
Submitted(p, r, c) ==
    [p EXCEPT !.sq[r][drv.tail[r]] = c, !.sqtail[r] = (drv.tail[r] + 1) % QSize]

TailMoved(d, r) == [d EXCEPT !.tail[r] = (@ + 1) % QSize]

(* The entry at the head is ours: right phase, right command.              *)
Posted(r, cid) == LET e == port.cq[r][drv.head[r]]
                  IN e.phase = drv.phase[r] /\ e.cid = cid

SamePhase(d, r) == [d EXCEPT !.head[r] = (@ + 1) % QSize]

(* The head moves; the expected phase turns at the wrap.                   *)
Consumed(d, r) == [d EXCEPT !.head[r] = (@ + 1) % QSize,
                            !.phase[r] = IF d.head[r] + 1 = QSize THEN ~@ ELSE @]

(* probe_all: identify the controller, list namespaces (may fail),         *)
(* identify one, create the I/O completion and submission queues.          *)
AfterAdmin(step, ok) ==
    CASE step = "identify" -> IF ok THEN "list" ELSE "failed"
      [] step = "list" -> "ns"
      [] step = "ns" -> IF ok THEN "cq" ELSE "failed"
      [] step = "cq" -> IF ok THEN "sq" ELSE "failed"
      [] step = "sq" -> IF ok THEN "ready" ELSE "delete cq"
      [] step = "delete cq" -> "failed"

InAdmin == drv.probe \in {"identify", "list", "ns", "cq", "sq", "delete cq"}

(* The next admin command is submitted as the last one is judged.          *)
AdminGoes(d, step, p) ==
    /\ drv' = [(IF step \in {"ready", "failed"} THEN d ELSE TailMoved(d, "admin"))
                 EXCEPT !.probe = step]
    /\ port' = IF step \in {"ready", "failed"} THEN p ELSE Submitted(p, "admin", NoCmd)
    /\ UNCHANGED <<load, disk, buf, req, hist>>

probe_all == load = "nvme" /\ drv.probe = "none" /\ AdminGoes(drv, "identify", port)

admin_cmd ==
    LET cid == (drv.tail["admin"] + QSize - 1) % QSize
        ok == port.cq["admin"][drv.head["admin"]].status = "ok"
        d == Consumed(drv, "admin")
    IN /\ InAdmin /\ Posted("admin", cid)
       /\ AdminGoes(d, AfterAdmin(drv.probe, ok), [port EXCEPT !.chead["admin"] = d.head["admin"]])

AdminTimeout == InAdmin /\ AdminGoes(drv, AfterAdmin(drv.probe, FALSE), port)

(* read_sectors, write_sectors: through the driver's one DMA page.         *)
io_cmd(op) ==
    /\ load = "nvme" /\ drv.probe = "ready"
    /\ Begin("boot", "nvme", <<op>>, <<drv.tail["io"]>>)
    /\ buf' = Bounced("boot", op, DMA)
    /\ port' = Submitted(port, "io", Cmd(op, DMA))
    /\ drv' = TailMoved(drv, "io")
    /\ UNCHANGED <<load, disk>>

IoDone ==
    /\ Waiting("boot", "nvme") /\ Posted("io", req.tags[1])
    /\ LET ok == port.cq["io"][drv.head["io"]].status = "ok"
           d == Consumed(drv, "io")
       IN /\ drv' = d
          /\ port' = [port EXCEPT !.chead["io"] = d.head["io"]]
          /\ IF ok THEN Return(<<TRUE>>, <<Got("boot", DMA, req.cmds[1])>>) ELSE Fail
    /\ UNCHANGED <<load, disk, buf, hist>>

IoTimeout ==
    /\ Waiting("boot", "nvme") /\ ~Posted("io", req.tags[1])
    /\ Fail /\ Blind("abandoned")
    /\ UNCHANGED <<load, disk, buf, port, drv>>

-----------------------------------------------------------------------------
(* VirtIoBlk: one chain at descriptor 0, one DMA page.                     *)

(* build_chain fills descriptor 0 and clears the status byte.              *)
build_chain(p, c) == [p EXCEPT !.list["boot"][0] = c, !.status = "ok"]

(* SplitVring::submit_chain: the ring's index is bumped.                   *)
Ring(p) == [p EXCEPT !.avail = (@ + 1) % UsedMod]

do_io(op) ==
    /\ load = "virtio"
    /\ Begin("boot", "virtio", <<op>>, <<0>>)
    /\ buf' = Bounced("boot", op, DMA)
    /\ port' = Ring(build_chain(port, Cmd(op, DMA)))
    /\ UNCHANGED <<load, disk, drv>>

PollsAvail == port.avail # drv.last

poll_completed == port.used # drv.last

complete_io ==
    /\ Waiting("boot", "virtio") /\ poll_completed
    /\ drv' = [drv EXCEPT !.last = (@ + 1) % UsedMod]
    /\ IF port.status # "ok" THEN Fail
       ELSE Return(<<TRUE>>, <<Got("boot", DMA, req.cmds[1])>>)
    /\ UNCHANGED <<load, disk, buf, port, hist>>

VirtioTimeout ==
    /\ Waiting("boot", "virtio") /\ ~poll_completed
    /\ Fail /\ Blind("abandoned")
    /\ UNCHANGED <<load, disk, buf, port, drv>>

(* virtio-blk.nem resets the device it finds and never names its own       *)
(* queue to it: neither driver's requests are served afterwards.           *)
init_virtio ==
    /\ load = "virtio" /\ drv.nem = "off" /\ req.st = "idle"
    /\ port' = [port EXCEPT !.queue = FALSE]
    /\ drv' = [drv EXCEPT !.nem = "on"]
    /\ UNCHANGED <<load, disk, buf, req, hist>>

vio_request(op) ==
    /\ load = "virtio" /\ drv.nem = "on"
    /\ Begin("nem", "vio", <<op>>, <<0>>)
    /\ buf' = Bounced("nem", op, DMA)
    /\ UNCHANGED <<load, disk, port, drv>>

VioTimeout ==
    /\ Waiting("nem", "vio") /\ Fail /\ Blind("abandoned")
    /\ UNCHANGED <<load, disk, buf, port, drv>>

-----------------------------------------------------------------------------
(* The caller takes the result.                                            *)
Taken == /\ req.st = "done" /\ req' = Idle
         /\ UNCHANGED <<load, disk, buf, port, drv, hist>>

Ahci == load \in {"ahci", "ncq", "nem", "both"}

Devices ==
    \E ok \in BOOLEAN :
        \/ Ahci /\ \E s \in Slots : AhciDevice(s, ok)
        \/ load = "nvme" /\ \E r \in Rings : NvmeDevice(r, ok)
        \/ load = "virtio" /\ VirtioDevice(ok)
        \/ load = "ata" /\ \E seen \in BOOLEAN : AtaDevice(ok, seen)

Drivers ==
    \/ \E op \in Reads \cup Writes :
          \/ dma_xfer(op) \/ io_cmd(op) \/ do_io(op) \/ vio_request(op)
          \/ \E b \in BOOLEAN : ata_dma(op, b) \/ ata_pio(op, b)
          \/ ncq_submit_irp_batch(<<op>>)
    \/ \E op \in Reads : ahci_read(op)
    \/ \E op \in Writes : ahci_write(op)
    \/ \E a, b \in Reads \cup Writes : a.lba # b.lba /\ ncq_submit_irp_batch(<<a, b>>)
    \/ ahci_ncq_batch_read(0)
    \/ DmaDone \/ DmaTimeout \/ BatchDone \/ BatchTimeout
    \/ nem_driver_init \/ reclaim_ahci_port \/ NemDone \/ NemTimeout \/ NemBatchEnds
    \/ AtaRefused \/ AtaDone \/ AtaTimeout
    \/ probe_all \/ admin_cmd \/ AdminTimeout \/ IoDone \/ IoTimeout
    \/ complete_io \/ VirtioTimeout \/ init_virtio \/ VioTimeout
    \/ Taken

Next == Devices \/ Drivers

Spec == Init /\ [][Next]_vars

-----------------------------------------------------------------------------
TypeOK == /\ load \in Workloads /\ disk \in [Lbas -> Vals \cup {NoVal}]
          /\ port.ci \subseteq 0..Tags /\ drv.busy \subseteq Slots
          /\ req.st \in {"idle", "wait", "done"} /\ hist.reqs \in 0..MaxReqs

(* A request that a driver reports as done was done: a read delivered what *)
(* the disk holds at the partition's block, a write is on the disk there,  *)
(* no other partition's block changed, and no tag is kept for the next     *)
(* request; as long as the controller did nothing the drivers never look   *)
(* at (hist.blind).  For BootAhci this spans timeouts: dma_xfer restarts   *)
(* the port before it issues the command again.                            *)
TransfersRight ==
    hist.blind = {} =>
      /\ \A i \in 0..(PartBase - 1) : disk[i] = NoVal
      /\ req.st = "idle" => drv.busy = {}
      /\ req.st = "done" =>
           \A i \in DOMAIN req.cmds :
              LET at == disk[PartBase + req.cmds[i].lba] IN
              req.oks[i] => IF req.cmds[i].op = "read" THEN req.data[i] = at
                            ELSE at = req.cmds[i].val
=============================================================================
