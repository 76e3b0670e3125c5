--------------------------------- MODULE Usb ---------------------------------
(* The USB stack of the 32-bit kernel: usb_core_init scans the ports of the EHCI and
   UHCI controllers, enumerates the devices and probes the mass storage driver, which
   then reads and writes sectors with SCSI commands over the bulk-only transport.

   The kernel runs one call at a time and polls; the hazards are on the wire.  A packet
   or its acknowledgement may be lost until the controller gives up, a device may answer
   just after the driver stopped looking, refuse a command or stall, and after each the
   two ends may disagree about the data toggles and about the command in progress.

   The devices are external.  They follow the USB and bulk-only transport
   specifications as far as the driver relies on them: a packet with the wrong toggle is
   acknowledged and dropped, and a command that arrives while another is in progress
   halts both endpoints.  A sector is a sequence of 64-byte blocks. *)
EXTENDS Integers, Sequences, FiniteSets

CONSTANTS
    Port,              \* the root ports, 1..N in the order usb_core_init scans them
    UhciPort,          \* those of the UHCI controller, the last ones
    Attached(_),       \* the kinds of devices that may be attached to a port
    USB_MAX_DEVICES,
    MSC_MAX,           \* storage devices the driver has callbacks for (2)
    Retries,           \* TEST UNIT READY is tried this often (5)
    Lba, Block,        \* sector numbers and contents of a 64-byte block
    SectorSize,        \* bytes, a multiple of 64 (512)
    MaxCalls,          \* bound on the sector reads and writes
    MaxFaults,         \* bound on the faults of wire and devices
    NULL

ASSUME UsbAssumption ==
    /\ Port = 1..Cardinality(Port) /\ Port # {}
    /\ UhciPort \subseteq Port /\ \A p \in Port, q \in UhciPort : p > q => p \in UhciPort
    /\ USB_MAX_DEVICES \in Nat /\ MSC_MAX \in Nat /\ Retries \in Nat
    /\ SectorSize \in 64..512 /\ SectorSize % 64 = 0
    /\ MaxCalls \in Nat /\ MaxFaults \in Nat

VARIABLES
    up,                \* whether a controller is initialized, NULL before it was tried
    pc, port,          \* where usb_core_init is, and at which port
    dev,               \* the slot being filled by usb_enumerate_device_on_hc, or NULL
    usb_devices,       \* the devices counted so far
    usb_next_address,
    msc_devices,       \* the storage devices of the driver
    tries,             \* tries of TEST UNIT READY left
    call,              \* the SCSI command in progress, or NULL
    xfer,              \* the bulk transfer in progress, or NULL
    done,              \* the outcome of the last command, or NULL
    gadget,            \* the devices' own state, by port
    faults, calls,
    crowded,           \* a device left at address 0 listened while another was enumerated
    torn               \* a device took a command that the driver gave up sending

core == <<up, port, dev, usb_devices, usb_next_address, crowded>>
msc == <<msc_devices, tries, call, xfer, done, calls, torn>>
vars == <<core, msc, pc, gadget, faults>>

hc(p) == IF p \in UhciPort THEN "uhci" ELSE "ehci"

Blocks == 1..(SectorSize \div 64)
Zeros == [b \in Blocks |-> CHOOSE v \in Block : TRUE]

\* A device that was just reset, with what it stores.
Fresh(g) ==
    [g EXCEPT !.on = TRUE, !.address = 0, !.configured = FALSE, !.phase = "cbw",
              !.tin = 0, !.tout = 0]

Init ==
    /\ up = [c \in {"ehci", "uhci"} |-> NULL] /\ pc = "scan" /\ port = 0 /\ dev = NULL
    /\ usb_devices = <<>> /\ usb_next_address = 1 /\ crowded = FALSE
    /\ msc_devices = <<>> /\ tries = 0
    /\ call = NULL /\ xfer = NULL /\ done = NULL /\ calls = 0 /\ torn = FALSE
    /\ \E kind \in [Port -> UNION {Attached(p) : p \in Port}] :
          /\ \A p \in Port : kind[p] \in Attached(p)
          /\ gadget = [p \in Port |->
                [kind |-> kind[p], on |-> FALSE, address |-> 0, configured |-> FALSE,
                 tin |-> 0, tout |-> 0, phase |-> "cbw", cmd |-> NULL, ok |-> TRUE,
                 queue |-> <<>>, received |-> 0, disk |-> [l \in Lba |-> Zeros]]]
    /\ faults = 0
-----------------------------------------------------------------------------
\* Control transfers.  The devices that listen to a request, and what may come of it:
\* with one listener it is done, or fails before or after it took effect; with more all
\* answer at once and anything may happen.
Listeners(c, a) == {p \in Port : hc(p) = c /\ gadget[p].on /\ gadget[p].address = a}

Outcome(ok, took, cost) == [ok |-> ok, took |-> took, cost |-> cost]

Transfers(L) ==
    IF L = {} THEN {Outcome(FALSE, {}, 0)}
    ELSE IF Cardinality(L) = 1
         THEN {Outcome(TRUE, L, 0)} \cup {Outcome(FALSE, T, 1) : T \in SUBSET L}
         ELSE {Outcome(ok, T, 0) : ok \in BOOLEAN, T \in SUBSET L}

\* All that is told apart of the descriptors' sizes: the controller's transfer
\* descriptors limit a transfer to 16 of 8 bytes, two of them for set-up and status.
ehci_control_transfer(a, len) == Transfers(Listeners("ehci", a))

uhci_control_transfer(a, len) ==
    IF 1 + (len + 7) \div 8 + 1 > 16 THEN {Outcome(FALSE, {}, 0)} ELSE Transfers(Listeners("uhci", a))

usb_control_msg(len) ==
    {t \in IF hc(dev.port) = "uhci" THEN uhci_control_transfer(dev.address, len)
                                    ELSE ehci_control_transfer(dev.address, len) :
        faults + t.cost <= MaxFaults}

\* The request with outcome t: the listeners that took it become as after says.
Requested(t, after) ==
    /\ gadget' = [p \in Port |-> IF p \in t.took THEN after[p] ELSE gadget[p]]
    /\ faults' = faults + t.cost
    /\ UNCHANGED <<up, port, crowded, msc>>

\* usb_core_init brings up the controllers, EHCI first, or does without them.
Initialize(c) ==
    /\ pc = "scan" /\ up[c] = NULL
    /\ \A p \in Port : p <= port <=> (c = "uhci" /\ hc(p) = "ehci")
    /\ up' \in {[up EXCEPT ![c] = TRUE], [up EXCEPT ![c] = FALSE]}
    /\ UNCHANGED <<port, pc, dev, usb_devices, usb_next_address, crowded, msc, gadget, faults>>

ehci_init == Initialize("ehci")
uhci_init == up["ehci"] # NULL /\ Initialize("uhci")

\* usb_enumerate_device_on_hc returns, and usb_core_init goes on with the next port.
NextPort == pc' = "scan" /\ dev' = NULL

\* The loop of usb_core_init over the ports: those without a controller or a device are
\* passed over, as are all once the table is full.
usb_core_init ==
    LET p == port + 1
        skip == ~up[hc(p)] \/ gadget[p].kind = "none" \/ Len(usb_devices) >= USB_MAX_DEVICES
    IN  /\ pc = "scan" /\ p \in Port /\ up[hc(p)] # NULL
        /\ port' = p
        /\ pc' = IF skip THEN "scan" ELSE "reset"
        /\ UNCHANGED <<up, dev, usb_devices, usb_next_address, crowded, msc, gadget, faults>>

boot_done ==
    /\ pc = "scan" /\ port + 1 \notin Port /\ \A c \in DOMAIN up : up[c] # NULL
    /\ pc' = "ready"
    /\ UNCHANGED <<core, msc, gadget, faults>>

\* A port after its reset: enabled, or not (EHCI: the device is not a high-speed one;
\* UHCI: ten tries were not enough, or the device is gone).
Disabled(g) == [Fresh(g) EXCEPT !.on = FALSE]
ehci_port_reset(g) == {Fresh(g), Disabled(g)}
uhci_port_reset(g) == {Fresh(g), Disabled(g)}

\* Reset of the port and of the slot, unless the device is gone afterwards.  That the
\* port is enabled is not looked at.
port_reset ==
    /\ pc = "reset"
    /\ \E g \in IF hc(port) = "uhci" THEN uhci_port_reset(gadget[port])
                                  ELSE ehci_port_reset(gadget[port]) :
          /\ faults' = IF g.on THEN faults ELSE faults + 1
          /\ faults' <= MaxFaults
          /\ gadget' = [gadget EXCEPT ![port] = g]
          /\ \/ /\ dev' = [port |-> port, address |-> 0, configured |-> FALSE, bulk |-> FALSE,
                             if_class |-> 0, tin |-> 0, tout |-> 0]
                /\ pc' = "descriptor"
             \/ ~g.on /\ NextPort
          /\ crowded' = (crowded \/ Listeners(hc(port), 0) \ {port} # {})
    /\ UNCHANGED <<up, port, usb_devices, usb_next_address, msc>>

\* GET_DESCRIPTOR for 8 and for 18 bytes; the first goes to the default address.
usb_get_descriptor ==
    /\ pc \in {"descriptor", "full descriptor"}
    /\ \E t \in usb_control_msg(IF pc = "descriptor" THEN 8 ELSE 18) :
          /\ Requested(t, gadget)
          /\ IF t.ok
             THEN /\ pc' = IF pc = "descriptor" THEN "address" ELSE "configuration"
                  /\ UNCHANGED dev
             ELSE NextPort
    /\ UNCHANGED <<usb_devices, usb_next_address>>

\* Mutant: an address is used again if the request seemed to fail.
usb_set_address_Mutant ==
    LET addr == usb_next_address
        addressed == [p \in Port |-> [gadget[p] EXCEPT !.address = addr]]
    IN  /\ pc = "address"
        /\ \E t \in usb_control_msg(0) :
              /\ Requested(t, addressed)
              /\ usb_next_address' = IF t.ok THEN (addr + 1) % 256 ELSE addr
              /\ IF t.ok
                 THEN pc' = "full descriptor" /\ dev' = [dev EXCEPT !.address = addr]
                 ELSE NextPort
        /\ UNCHANGED usb_devices

\* SET_ADDRESS: the address is spent even if the request fails.
usb_set_address ==
    LET addr == usb_next_address
        addressed == [p \in Port |-> [gadget[p] EXCEPT !.address = addr]]
    IN  /\ pc = "address"
        /\ usb_next_address' = (addr + 1) % 256
        /\ \E t \in usb_control_msg(0) :
              /\ Requested(t, addressed)
              /\ IF t.ok
                 THEN pc' = "full descriptor" /\ dev' = [dev EXCEPT !.address = addr]
                 ELSE NextPort
        /\ UNCHANGED usb_devices

\* The configuration descriptor's header, without which the device is counted as it is.
get_configuration ==
    /\ pc = "configuration"
    /\ \E t \in usb_control_msg(9) :
          /\ Requested(t, gadget)
          /\ pc' = IF t.ok THEN "interfaces" ELSE "probe"
    /\ UNCHANGED <<dev, usb_devices, usb_next_address>>

\* wTotalLength: the descriptors of a "big" device do not fit into UHCI's 16.
TotalLength(kind) == IF kind = "big" THEN 120 ELSE 32

\* What is found in the descriptors: class 8 is storage, "bare" without bulk endpoints.
usb_parse_config(d, kind) ==
    [d EXCEPT !.if_class = IF kind = "other" THEN 3 ELSE 8,
              !.bulk = kind \in {"disk", "big"}]

get_interfaces ==
    /\ pc = "interfaces" /\ pc' = "configure"
    /\ \E q \in {port} \cup Listeners(hc(port), dev.address) :
          \E t \in usb_control_msg(TotalLength(gadget[q].kind)) :
              /\ Requested(t, gadget)
              /\ dev' = IF t.ok THEN usb_parse_config(dev, gadget[q].kind) ELSE dev
    /\ UNCHANGED <<usb_devices, usb_next_address>>

\* SET_CONFIGURATION resets the toggles of the device; its result is not looked at.
usb_set_configuration ==
    LET configured == [p \in Port |-> [gadget[p] EXCEPT !.configured = TRUE, !.tin = 0, !.tout = 0]]
    IN  /\ pc = "configure" /\ pc' = "probe"
        /\ \E t \in usb_control_msg(0) :
              /\ Requested(t, configured)
              /\ dev' = [dev EXCEPT !.configured = t.ok]
        /\ UNCHANGED <<usb_devices, usb_next_address>>

\* The mass storage driver takes a device that has both bulk endpoints if it has room.
msc_probe ==
    IF Len(msc_devices) < MSC_MAX /\ dev.bulk
    THEN /\ msc_devices' = Append(msc_devices, [dev |-> Len(usb_devices) + 1, size |-> 0])
         /\ pc' = "ready?" /\ tries' = Retries /\ done' = NULL
    ELSE pc' = "scan" /\ UNCHANGED <<msc_devices, tries, done>>

\* The device is counted and offered to the driver of its class.
usb_probe_device ==
    /\ pc = "probe"
    /\ usb_devices' = Append(usb_devices, dev)
    /\ dev' = NULL
    /\ IF dev.if_class = 8 THEN msc_probe ELSE pc' = "scan" /\ UNCHANGED <<msc_devices, tries, done>>
    /\ UNCHANGED <<up, port, usb_next_address, crowded, call, xfer, calls, torn, gadget, faults>>
-----------------------------------------------------------------------------
\* Bulk transfers.  Both drivers split a transfer into packets, of up to 512 bytes
\* (EHCI) or 64 (UHCI), and take the number of packets for what the toggle moved by.
Lengths(len, max_pkt) ==
    [i \in 1..((len + max_pkt - 1) \div max_pkt) |->
        IF len - (i - 1) * max_pkt > max_pkt THEN max_pkt ELSE len - (i - 1) * max_pkt]

ehci_bulk_transfer(len) == Lengths(len, 512)
uhci_bulk_transfer(len) == Lengths(len, 64)

bulk_transfer(c, len) == IF c = "uhci" THEN uhci_bulk_transfer(len) ELSE ehci_bulk_transfer(len)

\* The packets of a sector; the blocks of a packet are consecutive.
SectorPackets(c, sector) ==
    [i \in DOMAIN bulk_transfer(c, SectorSize) |->
        LET n == bulk_transfer(c, SectorSize)[i] \div 64
            first == IF c = "uhci" THEN i ELSE 1
        IN  [kind |-> "data", len |-> 64 * n, blocks |-> SubSeq(sector, first, first + n - 1)]]

\* usb_bulk_msg on slot d: the controller gets the packets to send, or the lengths of
\* those it may receive, and the toggle of the endpoint.
Out(d, packets) == [dir |-> "out", toggle |-> d.tout, left |-> packets, n |-> Len(packets), got |-> <<>>]
In(d, lengths) == [dir |-> "in", toggle |-> d.tin, left |-> lengths, n |-> Len(lengths), got |-> <<>>]

DataLength == [tur |-> 0, inquiry |-> 36, capacity |-> 8, read |-> SectorSize, write |-> SectorSize]

\* The transfer of a phase of command c on slot d.
msc_send_cbw(d, c) == Out(d, <<[kind |-> "cbw", len |-> 31, op |-> c.op, lba |-> c.lba]>>)
msc_bulk_out(d, c) == Out(d, SectorPackets(hc(d.port), c.sector))
msc_bulk_in(d, c) == In(d, bulk_transfer(hc(d.port), DataLength[c.op]))
msc_recv_csw(d) == In(d, bulk_transfer(hc(d.port), 13))

\* msc_scsi_command on storage device i: its first phase.  The command's tag is left out,
\* for the driver never compares it with the tag of the status.
msc_scsi_command(i, op, lba, sector) ==
    LET c == [msc |-> i, op |-> op, lba |-> lba, sector |-> sector, phase |-> "cbw", got |-> <<>>]
    IN  /\ call = NULL /\ call' = c
        /\ xfer' = msc_send_cbw(usb_devices[msc_devices[i].dev], c)
        /\ done' = NULL
        /\ UNCHANGED <<core, msc_devices, torn, gadget, faults>>

\* It returns, with what came in its data phase.
Return(ok) ==
    /\ call' = NULL /\ xfer' = NULL
    /\ done' = [call EXCEPT !.phase = IF ok THEN "ok" ELSE "error"]

Slot == msc_devices[call.msc].dev

\* Mutant: the toggle moves once per transfer instead of once per packet.
Toggled_Mutant(x) == 1 - x.toggle

\* The toggle of the endpoint after transfer x.
Toggled(x) == (x.toggle + x.n) % 2

\* Mutant: the status byte is not looked at.
Passed_Mutant(csw) == csw.kind = "csw"

\* The status that ends a command successfully.
Passed(csw) == csw.kind = "csw" /\ csw.ok

\* A transfer completed: usb_bulk_msg keeps the toggle, the next phase begins.
usb_bulk_msg ==
    LET end == IF xfer.dir = "in" THEN "tin" ELSE "tout"
        d   == [usb_devices[Slot] EXCEPT ![end] = Toggled(xfer)]
        got == IF call.phase = "data" THEN xfer.got ELSE call.got
        Continue(phase, x) ==
            /\ call' = [call EXCEPT !.phase = phase, !.got = got] /\ xfer' = x
            /\ UNCHANGED done
    IN  /\ xfer # NULL /\ xfer.left = <<>>
        /\ usb_devices' = [usb_devices EXCEPT ![Slot] = d]
        /\ CASE call.phase = "csw" -> Return(Passed(xfer.got[1]))
             [] call.phase = "data" \/ (call.phase = "cbw" /\ call.op = "tur") -> Continue("csw", msc_recv_csw(d))
             [] call.phase = "cbw" /\ call.op = "write" -> Continue("data", msc_bulk_out(d, call))
             [] call.phase = "cbw" /\ call.op \in {"inquiry", "capacity", "read"} ->
                    Continue("data", msc_bulk_in(d, call))
        /\ UNCHANGED <<up, port, dev, usb_next_address, crowded>>
        /\ UNCHANGED <<msc_devices, tries, calls, torn, pc, gadget, faults>>
-----------------------------------------------------------------------------
\* The device end of a bulk transfer.  A device answers if it is configured and alone at
\* the address.
Target == usb_devices[Slot].port
Answers == Listeners(hc(Target), usb_devices[Slot].address) = {Target} /\ gadget[Target].configured

Halted(g) == [g EXCEPT !.phase = "halted"]

\* A new command: data to send or to receive, then the status.  A command that fails is
\* answered by an empty packet, if by any, and the status.
Command(g, cbw, ok) ==
    LET packets == CASE cbw.op = "tur" \/ cbw.op = "write" -> <<>>
                     [] ~ok                       -> <<[kind |-> "empty", len |-> 0]>>
                     [] cbw.op = "inquiry"        -> <<[kind |-> "inquiry", len |-> 36]>>
                     [] cbw.op = "capacity"       -> <<[kind |-> "capacity", len |-> 8]>>
                     [] cbw.op = "read"           -> SectorPackets(hc(Target), g.disk[cbw.lba])
    IN  [g EXCEPT !.phase = IF cbw.op = "write" THEN "out" ELSE "in", !.cmd = cbw, !.ok = ok,
                  !.tout = 1 - @, !.received = 0,
                  !.queue = Append(packets, [kind |-> "csw", len |-> 13, ok |-> ok])]

\* Data of a write goes to the sector as it comes.
Data(g, blocks) ==
    LET n == g.received + Len(blocks)
    IN  [g EXCEPT !.tout = 1 - @, !.received = n,
                  !.phase = IF n = Cardinality(Blocks) THEN "in" ELSE "out",
                  !.disk[g.cmd.lba] =
                      [b \in Blocks |->
                          IF g.ok /\ b > g.received /\ b <= n THEN blocks[b - g.received] ELSE @[b]]]

\* The data phase of a write ends early: the status says so.
CutShort(g) == [g EXCEPT !.tout = 1 - @, !.phase = "in", !.queue = <<[@[1] EXCEPT !.ok = FALSE]>>]

Reply(g, ack, cost) == [g |-> g, ack |-> ack, cost |-> cost]

\* What a device does with a packet.  One with the wrong toggle is taken for a copy of
\* the last one.
Receive(g, packet, toggle) ==
    IF g.phase = "halted" THEN {Reply(g, FALSE, 0)}
    ELSE IF toggle # g.tout THEN {Reply(g, TRUE, 0)}
    ELSE IF g.phase = "cbw" /\ packet.kind = "cbw"
         THEN {Reply(Command(g, packet, TRUE), TRUE, 0), Reply(Command(g, packet, FALSE), TRUE, 1)}
    ELSE IF g.phase = "out" /\ packet.kind = "data"
            /\ g.received + Len(packet.blocks) <= Cardinality(Blocks)
         THEN {Reply(Data(g, packet.blocks), TRUE, 0)}
    ELSE IF g.phase = "out" THEN {Reply(CutShort(g), TRUE, 0), Reply(Halted(g), FALSE, 0)}
    ELSE {Reply(Halted(g), FALSE, 0)}

\* A packet was acknowledged to the device, which goes on to the next.
Sent(g) ==
    [g EXCEPT !.tin = 1 - @, !.queue = Tail(@), !.phase = IF Len(g.queue) = 1 THEN "cbw" ELSE "in"]

Moved == [xfer EXCEPT !.left = Tail(@)]
Toggle == (xfer.toggle + xfer.n - Len(xfer.left)) % 2
Busy(dir) == xfer # NULL /\ xfer.left # <<>> /\ xfer.dir = dir
Offers(g) == g.phase = "in" /\ g.queue # <<>>
wire == <<core, msc_devices, tries, calls, pc>>

\* The controller sends a packet.
send_packet ==
    /\ Busy("out") /\ Answers
    /\ \E r \in Receive(gadget[Target], Head(xfer.left), Toggle) :
          /\ faults + r.cost <= MaxFaults /\ faults' = faults + r.cost
          /\ gadget' = [gadget EXCEPT ![Target] = r.g]
          /\ IF r.ack THEN xfer' = Moved /\ UNCHANGED <<call, done>> ELSE Return(FALSE)
    /\ UNCHANGED <<wire, torn>>

\* The controller receives a packet: one with the wrong toggle is acknowledged and
\* dropped, a longer one than was asked for is an error.  If the acknowledgement is
\* lost the device will send the packet again.
receive_packet ==
    LET g == gadget[Target]
        packet == Head(g.queue)
    IN  /\ Busy("in") /\ Answers /\ Offers(g)
        /\ IF g.tin # Toggle
           THEN gadget' = [gadget EXCEPT ![Target] = Sent(g)] /\ UNCHANGED <<xfer, call, done, faults>>
           ELSE IF packet.len > Head(xfer.left)
           THEN Return(FALSE) /\ UNCHANGED <<gadget, faults>>
           ELSE /\ xfer' = [Moved EXCEPT !.got = Append(@, packet)]
                /\ \/ gadget' = [gadget EXCEPT ![Target] = Sent(g)] /\ UNCHANGED faults
                   \/ faults < MaxFaults /\ faults' = faults + 1 /\ UNCHANGED gadget
                /\ UNCHANGED <<call, done>>
    /\ UNCHANGED <<wire, torn>>

\* Nobody answers, or the device is halted or has nothing to send: the controller
\* reports an error or the driver stops polling.
no_answer ==
    /\ \/ Busy("out") /\ ~Answers
       \/ Busy("in") /\ (~Answers \/ ~Offers(gadget[Target]))
    /\ Return(FALSE)
    /\ UNCHANGED <<wire, torn, gadget, faults>>

\* The controller gives a packet up after three errors, or the driver stops polling: the
\* device may have taken the packet, or still take it, all the same.
give_up ==
    LET g == gadget[Target]
        late == IF xfer.dir = "in" THEN {Sent(h) : h \in {x \in {g} : Offers(x)}}
                ELSE {r.g : r \in {x \in Receive(g, Head(xfer.left), Toggle) : x.ack /\ x.cost = 0}}
    IN  /\ xfer # NULL /\ xfer.left # <<>> /\ Answers /\ g.phase # "halted"
        /\ faults < MaxFaults /\ faults' = faults + 1
        /\ \E h \in {g} \cup late :
              /\ gadget' = [gadget EXCEPT ![Target] = h]
              /\ torn' = (torn \/ (call.phase = "cbw" /\ h # g))
        /\ Return(FALSE)
        /\ UNCHANGED wire
-----------------------------------------------------------------------------
\* msc_probe, after the endpoints were found: TEST UNIT READY until it succeeds, INQUIRY
\* and READ CAPACITY, whose failures are ignored.
Probed == Len(msc_devices)
Succeeded == done # NULL /\ done.phase = "ok"
idle == <<tries, calls>>

\* Mutant: the tries are not counted.
msc_test_unit_ready_Mutant ==
    /\ pc = "ready?" /\ tries > 0 /\ ~Succeeded
    /\ msc_scsi_command(Probed, "tur", NULL, NULL)
    /\ UNCHANGED <<pc, calls, tries>>

msc_test_unit_ready ==
    /\ pc = "ready?" /\ tries > 0 /\ ~Succeeded
    /\ tries' = tries - 1
    /\ msc_scsi_command(Probed, "tur", NULL, NULL)
    /\ UNCHANGED <<pc, calls>>

msc_inquiry ==
    /\ pc = "ready?" /\ (tries = 0 \/ Succeeded) /\ pc' = "inquiry"
    /\ msc_scsi_command(Probed, "inquiry", NULL, NULL)
    /\ UNCHANGED idle

msc_read_capacity ==
    /\ pc = "inquiry" /\ pc' = "capacity"
    /\ msc_scsi_command(Probed, "capacity", NULL, NULL)
    /\ UNCHANGED idle

\* The block device is registered, of size 0 if READ CAPACITY failed; the partition
\* scan and the mount that follow read sectors.
block_dev_register ==
    /\ pc = "capacity" /\ call = NULL /\ pc' = "mount"
    /\ msc_devices' = [msc_devices EXCEPT ![Probed].size = IF Succeeded THEN Cardinality(Lba) ELSE 0]
    /\ UNCHANGED <<core, call, xfer, done, tries, calls, torn, gadget, faults>>

msc_probe_done ==
    /\ pc = "mount" /\ call = NULL /\ pc' = "scan"
    /\ UNCHANGED <<core, msc, gadget, faults>>

\* Reads by the partition scan and the mount, then reads and writes by the file system.
Client(i) == pc = "ready" \/ (pc = "mount" /\ i = Probed)

msc_read_sector(i, lba) ==
    /\ Client(i) /\ calls < MaxCalls /\ calls' = calls + 1
    /\ msc_scsi_command(i, "read", lba, NULL)
    /\ UNCHANGED <<pc, tries>>

msc_write_sector(i, lba, sector) ==
    /\ pc = "ready" /\ calls < MaxCalls /\ calls' = calls + 1
    /\ msc_scsi_command(i, "write", lba, sector)
    /\ UNCHANGED <<pc, tries>>

\* No call is made any more.
at_rest == pc = "ready" /\ call = NULL /\ UNCHANGED vars
-----------------------------------------------------------------------------
Enumerate ==
    \/ ehci_init \/ uhci_init \/ usb_core_init \/ boot_done \/ port_reset
    \/ usb_get_descriptor \/ usb_set_address \/ get_configuration \/ get_interfaces
    \/ usb_set_configuration \/ usb_probe_device

Probe ==
    msc_test_unit_ready \/ msc_inquiry \/ msc_read_capacity \/ block_dev_register \/ msc_probe_done

Wire == usb_bulk_msg \/ send_packet \/ receive_packet \/ no_answer \/ give_up

Next ==
    \/ Enumerate \/ Probe \/ Wire \/ at_rest
    \/ \E i \in DOMAIN msc_devices, lba \in Lba :
          msc_read_sector(i, lba) \/ \E sector \in [Blocks -> Block] : msc_write_sector(i, lba, sector)

Spec == Init /\ [][Next]_vars

FairSpec == Spec /\ WF_vars(Enumerate \/ Probe \/ Wire)
-----------------------------------------------------------------------------
TypeOK ==
    /\ port \in Port \cup {0} /\ up \in [{"ehci", "uhci"} -> BOOLEAN \cup {NULL}]
    /\ usb_next_address \in 0..255 /\ Len(usb_devices) <= USB_MAX_DEVICES /\ Len(msc_devices) <= MSC_MAX
    /\ call = NULL <=> xfer = NULL
    /\ \A p \in Port : gadget[p].disk \in [Lba -> [Blocks -> Block]]

SectorOf(i, lba) == gadget[usb_devices[msc_devices[i].dev].port].disk[lba]

\* A read that succeeds returns the sector that was asked for, as it is on the device,
\* and a write that succeeds has written it, whatever failed before: unless a device
\* took a command that msc_send_cbw reported as failed (the tag of the status, which
\* would tell, is not compared).
SectorsTrue ==
    /\ TypeOK
    /\ ~torn /\ ~crowded /\ Succeeded =>
          LET disk == SectorOf(done.msc, done.lba)
              bus == hc(usb_devices[msc_devices[done.msc].dev].port)
          IN  /\ done.op = "read" => done.got = SectorPackets(bus, disk)
              /\ done.op = "write" => disk = done.sector

\* No two devices of a bus are given the same address, and the address in the table is
\* that of the device at the port in the table, whatever requests fail or take effect
\* late: unless the first GET_DESCRIPTOR failed for a device, which stays enabled at
\* address 0 and answers in place of the next one.
AddressesUnique ==
    ~crowded =>
        /\ \A p, q \in Port : p # q /\ gadget[p].on /\ gadget[q].on /\ hc(p) = hc(q)
                              /\ gadget[p].address # 0 => gadget[p].address # gadget[q].address
        /\ \A i \in DOMAIN usb_devices :
              gadget[usb_devices[i].port].address = usb_devices[i].address

\* Without a fault every command succeeds: the toggles of both ends stay in step
\* through all commands, directions and packet sizes.
FaultFree == faults = 0 /\ done # NULL => Succeeded

\* The boot ends, even if devices fall silent in any phase.
BootEnds == <>(pc = "ready")
=============================================================================
