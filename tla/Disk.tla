---------------------------------- MODULE Disk --------------------------------
(***************************************************************************)
(* The ATA driver (kernel/drv/disk.c): detection of the drives, then       *)
(* transfers by polling.  The drive is external: it takes the registers    *)
(* when the command is written, is busy until it chooses to answer, and    *)
(* may fail.  One request at a time: the driver has no lock, and a second  *)
(* CPU in it would mix the two transfers.                                  *)
(*                                                                         *)
(* "rep insw" moves the address on while the C code does not: the compiler *)
(* may reload it for the next sector.  In the build of the Makefile (-O)   *)
(* it stays in the register, so the sectors follow one another.            *)
(***************************************************************************)
EXTENDS Integers, Sequences

CONSTANTS Bays,      \* the configurations: <<channel, drive>> -> what is there
          Lbas,      \* the sectors that are looked at
          Requests,  \* what the callers ask for: [dir, lba, n]
          MAXREQS,   \* bound: requests made
          MAXFAULTS  \* bound: failures of the drive

VARIABLES bay,       \* what is at <<channel, drive>>
          probe,     \* the position ide_initialize looks at next, 4 at its end
          count,     \* its counter
          devices,   \* ide_devices
          lbacap,    \* the drive supports LBA (Capabilities & 0x200)
          pc,        \* where the driver is
          req,       \* the request
          done,      \* sectors transferred (i)
          mem,       \* the caller's buffer
          status,    \* what ide_read_sectors or ide_write_sectors returned
          drive,     \* the drive: busy, drq, err, df, cmd, lba, n
          medium,    \* the sectors
          reqs, faults,
          want       \* ghost: the sectors after the writes that were reported done

ide == <<bay, probe, count, devices>>
xfer == <<lbacap, pc, req, done, mem, status, drive, medium, reqs, faults, want>>
vars == <<ide, xfer>>

DISK_ID == 1
Position(k) == <<k \div 2, k % 2>>
NoDevice == [reserved |-> 0]
NoReq == [dir |-> 0, lba |-> 0, n |-> 0]
Idle == [busy |-> FALSE, drq |-> FALSE, err |-> FALSE, df |-> FALSE,
         cmd |-> "none", lba |-> 0, n |-> 0]

Init ==
    /\ bay \in Bays
    /\ probe = 0 /\ count = 0
    /\ devices = [k \in 0..3 |-> NoDevice]
    /\ lbacap \in BOOLEAN
    /\ pc = "off"
    /\ req = NoReq /\ done = 0 /\ mem = <<>> /\ status = 0
    /\ drive = Idle
    /\ medium = [l \in Lbas |-> 0] /\ want = medium
    /\ reqs = 0 /\ faults = 0

\* One turn of the loop of ide_initialize (): IDENTIFY is answered with status
\* 0 (nothing there), with data, or with an error, and then the signature
\* tells a packet device from something unknown.
Probe ==
    /\ probe < 4
    /\ LET at == Position(probe)
       IN IF bay[at] \in {"empty", "other"}
          THEN /\ devices' = [devices EXCEPT ![count] = NoDevice]
               /\ UNCHANGED count
          ELSE /\ devices' = [devices EXCEPT ![count] = [reserved |-> 1, type |-> bay[at], at |-> at]]
               /\ count' = count + 1
    /\ probe' = probe + 1
    /\ UNCHANGED <<bay, xfer>>

\* kernel_main () goes on when disk_init () returns.
Ready ==
    /\ probe = 4 /\ pc = "off"
    /\ pc' = "idle"
    /\ UNCHANGED <<ide, lbacap, req, done, mem, status, drive, medium, reqs, faults, want>>

---------------------------------------------------------------------------
(* The address of a sector as the registers carry it, and as the drive     *)
(* reads it back.                                                          *)

LBA48 == 268435456
Registers(lba) ==
    IF lba >= LBA48 THEN [mode |-> 2, lo |-> lba, head |-> 0]
    ELSE IF lbacap THEN [mode |-> 1, lo |-> lba % 16777216, head |-> lba \div 16777216]
    ELSE LET sect == (lba % 63) + 1
         IN [mode |-> 0, sect |-> sect, cyl |-> ((lba + 1 - sect) \div (16 * 63)) % 65536,
             head |-> ((lba + 1 - sect) % (16 * 63)) \div 63]

Address(r) == CASE r.mode = 2 -> r.lo
                [] r.mode = 1 -> r.lo + 16777216 * r.head
                [] r.mode = 0 -> (r.cyl * 16 + r.head) * 63 + r.sect - 1

---------------------------------------------------------------------------
(* The driver.                                                             *)

\* ide_read_sectors () and ide_write_sectors (): the checks, and the values
\* the first two of them return.  A packet device stops the kernel on a read
\* and is write protected.
\* A drive without LBA is at most 16383 cylinders of 16 heads of 63 sectors.
OnDisk == {l \in Lbas : lbacap \/ l < 16383 * 16 * 63}
Size == 1 + CHOOSE l \in OnDisk : \A k \in OnDisk : k =< l
Start(r) ==
    /\ pc = "idle" /\ reqs < MAXREQS
    /\ reqs' = reqs + 1
    /\ LET d == devices[DISK_ID]
       IN \/ /\ d.reserved = 0
             /\ status' = 1 /\ pc' = "idle" /\ UNCHANGED <<req, done, mem>>
          \/ /\ d.reserved = 1 /\ d.type = "ata" /\ r.lba + r.n > Size
             /\ status' = 2 /\ pc' = "idle" /\ UNCHANGED <<req, done, mem>>
          \/ /\ d.reserved = 1 /\ d.type = "atapi"
             /\ status' = IF r.dir = 1 THEN 8 ELSE status
             /\ pc' = IF r.dir = 1 THEN "idle" ELSE "panic"
             /\ UNCHANGED <<req, done, mem>>
          \/ /\ d.reserved = 1 /\ d.type = "ata" /\ r.lba + r.n =< Size
             /\ pc' = "wait" /\ req' = r /\ done' = 0
             /\ mem' = IF r.dir = 0 THEN <<>> ELSE [i \in 1..r.n |-> reqs']
             /\ UNCHANGED status
    /\ UNCHANGED <<ide, lbacap, drive, medium, faults, want>>

\* ide_ata_access (): wait for an idle drive, write the registers and the
\* command.  Writing it makes the drive busy.
Command ==
    /\ pc = "wait" /\ ~drive.busy
    /\ drive' = [busy |-> TRUE, drq |-> FALSE, err |-> FALSE, df |-> FALSE,
                 cmd |-> IF req.dir = 0 THEN "read" ELSE "write",
                 lba |-> Address(Registers(req.lba)), n |-> req.n]
    /\ pc' = "poll"
    /\ UNCHANGED <<ide, lbacap, req, done, mem, status, medium, reqs, faults, want>>

Return(s) ==
    /\ pc' = "idle" /\ status' = s
    /\ want' = IF req.dir = 1 /\ s = 0
               THEN [l \in Lbas |-> IF l >= req.lba /\ l < req.lba + req.n
                                    THEN mem[l - req.lba + 1] ELSE want[l]]
               ELSE want

\* Mutant of PollRead: the error bits are not looked at.
PollRead_NoCheck ==
    /\ pc = "poll" /\ req.dir = 0 /\ done < req.n /\ ~drive.busy
    /\ pc' = "data" /\ UNCHANGED <<status, want>>
    /\ UNCHANGED <<ide, lbacap, req, done, mem, drive, medium, reqs, faults>>

\* ide_polling () with the advanced check, then ide_print_error (): 2, 1 and 3
\* become the values the caller sees.
PollRead ==
    /\ pc = "poll" /\ req.dir = 0 /\ done < req.n /\ ~drive.busy
    /\ \/ drive.err /\ \E s \in {7, 3, 20, 21, 22, 13} : Return(s)
       \/ ~drive.err /\ drive.df /\ Return(19)
       \/ ~drive.err /\ ~drive.df /\ ~drive.drq /\ Return(23)
       \/ ~drive.err /\ ~drive.df /\ drive.drq /\ pc' = "data" /\ UNCHANGED <<status, want>>
    /\ UNCHANGED <<ide, lbacap, req, done, mem, drive, medium, reqs, faults>>

\* Mutant of PollWrite: the poll waits for DRQ.
PollWrite_Drq ==
    /\ pc = "poll" /\ req.dir = 1 /\ done < req.n /\ ~drive.busy /\ drive.drq
    /\ pc' = "data"
    /\ UNCHANGED <<ide, lbacap, req, done, mem, status, drive, medium, reqs, faults, want>>

\* ide_polling () without it.
PollWrite ==
    /\ pc = "poll" /\ req.dir = 1 /\ done < req.n /\ ~drive.busy
    /\ pc' = "data"
    /\ UNCHANGED <<ide, lbacap, req, done, mem, status, drive, medium, reqs, faults, want>>

Sector(lba) == IF lba \in Lbas THEN medium[lba] ELSE -1

\* rep insw, rep outsw: the drive gives or takes a sector if it asked for one.
Taken == [drive EXCEPT !.drq = FALSE, !.busy = drive.n > 1 \/ drive.cmd = "write",
                       !.n = @ - 1, !.lba = @ + 1]
Transfer ==
    /\ pc = "data"
    /\ IF drive.drq
       THEN /\ drive' = Taken
            /\ mem' = IF req.dir = 0 THEN Append(mem, Sector(drive.lba)) ELSE mem
            /\ medium' = IF req.dir = 1 THEN [medium EXCEPT ![drive.lba] = mem[done + 1]]
                         ELSE medium
       ELSE UNCHANGED <<drive, mem, medium>>
    /\ done' = done + 1
    /\ pc' = "poll"
    /\ UNCHANGED <<ide, lbacap, req, status, reqs, faults, want>>

\* The loop is over: return, or flush the cache of the drive first.  Nothing
\* waits for the drive before the flush command is written.
EndRead ==
    /\ pc = "poll" /\ req.dir = 0 /\ done = req.n
    /\ Return(0)
    /\ UNCHANGED <<ide, lbacap, req, done, mem, drive, medium, reqs, faults>>
Flush ==
    /\ pc = "poll" /\ req.dir = 1 /\ done = req.n
    /\ drive' = [drive EXCEPT !.busy = TRUE, !.drq = FALSE, !.err = FALSE, !.df = FALSE,
                              !.cmd = "flush"]
    /\ pc' = "flush"
    /\ UNCHANGED <<ide, lbacap, req, done, mem, status, medium, reqs, faults, want>>
EndWrite ==
    /\ pc = "flush" /\ ~drive.busy
    /\ Return(0)
    /\ UNCHANGED <<ide, lbacap, req, done, mem, drive, medium, reqs, faults>>

Driver == Command \/ PollRead \/ PollWrite \/ Transfer \/ EndRead \/ Flush \/ EndWrite

---------------------------------------------------------------------------
(* The drive.                                                              *)

Answer ==
    /\ drive.busy
    /\ drive' = [drive EXCEPT !.busy = FALSE, !.drq = drive.cmd # "flush" /\ drive.n > 0]
    /\ UNCHANGED <<ide, lbacap, pc, req, done, mem, status, medium, reqs, faults, want>>
Fail ==
    /\ drive.busy /\ faults < MAXFAULTS
    /\ \E e \in {"err", "df", "none"} :
         drive' = [drive EXCEPT !.busy = FALSE, !.drq = FALSE, !.n = 0,
                                !.err = e = "err", !.df = e = "df"]
    /\ faults' = faults + 1
    /\ UNCHANGED <<ide, lbacap, pc, req, done, mem, status, medium, reqs, want>>

Next == Probe \/ Ready \/ (\E r \in Requests : Start(r)) \/ Driver \/ Answer \/ Fail

Fairness == WF_vars(Driver) /\ WF_vars(Answer)

Spec == Init /\ [][Next]_vars /\ Fairness

---------------------------------------------------------------------------
\* Slot k of ide_devices is the k-th drive found, once; in particular slot 1,
\* which diskio.c takes for the primary slave ("just manipulate the hdb disk"),
\* is it when the primary channel has both its drives, and is another drive or
\* none when it has not.
SlotsRight ==
    probe = 4 =>
      /\ \A k \in 0..3 : devices[k].reserved = 1 <=> k < count
      /\ \A k, m \in 0..count-1 : k < m =>
            2 * devices[k].at[1] + devices[k].at[2] < 2 * devices[m].at[1] + devices[m].at[2]
      /\ \A p \in DOMAIN bay : bay[p] \in {"ata", "atapi"} =>
            \E k \in 0..count-1 : devices[k].at = p /\ devices[k].type = bay[p]
      /\ bay[<<0, 0>>] \in {"ata", "atapi"} /\ bay[<<0, 1>>] \in {"ata", "atapi"}
            => devices[DISK_ID].at = <<0, 1>>

\* A read that returns 0 has put the sectors asked for in the buffer, in their
\* order, whatever the drive did meanwhile.
ReadRight ==
    pc = "idle" /\ status = 0 /\ req.dir = 0 /\ req.n > 0 =>
        mem = [i \in 1..req.n |-> medium[req.lba + i - 1]]

\* While the drive does not fail, the sectors hold what the completed writes put
\* there and nothing else has changed.  (After a failure nothing is promised: the
\* write loop polls without the check for errors and the flush clears them.)
WriteRight == pc = "idle" /\ faults = 0 => medium = want

\* Every request ends: the driver waits only for a busy drive, and every busy
\* drive answers in the end, be it with an error.
RequestEnds == pc = "wait" ~> pc = "idle"
=============================================================================
