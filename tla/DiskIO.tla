------------------------------- MODULE DiskIO -------------------------------
(* The transfer half of drivers/disk.c: probing the drives, the polling    *)
(* ATA PIO commands ata_read_sectors and ata_write_sectors, and the byte   *)
(* wrappers disk_read and disk_write that split a request into commands.   *)
(* The drives are external: each serves one command a sector at a time and *)
(* fails in the ways the CONSTANT Faults allows.  The driver is            *)
(* sequential; it interleaves with the drives.                             *)
EXTENDS Integers, Sequences, FiniteSets, FiniteSetsExt

CONSTANTS Disks,            \* indices of disks[], 0 first
          total_sectors,    \* sectors of a drive
          sector_size,      \* bytes of a sector
          MAX_SECTORS_PER_CALL_SIZE,
          Lbas, Lens,       \* arguments of disk_read and disk_write
          Faults,           \* subset of {"error", "late", "stuck"}
          MaxWrites         \* bound: calls of disk_write

ASSUME DiskIOAssumption ==
  /\ \E n \in 0 .. 3 : Disks = 0 .. n
  /\ total_sectors \in 1 .. 2^28 /\ sector_size \in Nat \ {0}
  /\ MAX_SECTORS_PER_CALL_SIZE \in 1 .. 256
  /\ Lbas \subseteq Nat /\ Lens \subseteq Nat
  /\ Faults \subseteq {"error", "late", "stuck"}
  /\ MaxWrites \in Nat

VARIABLES media,     \* media[d][p]: byte p of disk d
          drive,     \* what each drive is doing
          valid,     \* disks identified
          lba_disks, \* disks with LBA support
          probed,    \* disks identify_drive has been tried on
          curr_disk,
          selected,  \* the drive each channel's drive-select register names
          call,      \* the disk_read or disk_write under way, or the last
          ata,       \* the ata_*_sectors call under way
          pc,        \* where the driver is
          temps,     \* temporary buffers allocated and not freed
          torn,      \* history: the disk_write calls that failed in their
                     \* partial last sector
          writes,    \* history: the disk_write calls so far
          late       \* history: a drive failed the last sector of a write

vars == <<media, drive, valid, lba_disks, probed, curr_disk, selected, call,
          ata, pc, temps, torn, writes, late>>

(* A byte is known by the write that brought it (0: there from the start)  *)
(* and its place in that write's buffer.                                   *)
Byte(w, i) == <<w, i>>
Unset == Byte(-1, 0)

Sector(s) == s * sector_size .. (s + 1) * sector_size - 1
DiskBytes == 0 .. total_sectors * sector_size - 1

(* Disks 0 and 1 are master and slave of one channel, 2 and 3 of another.  *)
Channel(d) == d \div 2

NoCommand == [op |-> "none", lba |-> 0, code |-> 0, count |-> 0, i |-> 0,
              tail |-> FALSE, flush |-> FALSE, temp |-> <<>>]
Idle == [st |-> "ready", op |-> "none", lba |-> 0, left |-> 0, data |-> <<>>]

Init ==
  /\ media = [d \in Disks |-> [p \in DiskBytes |-> Byte(0, p)]]
  /\ drive = [d \in Disks |-> Idle]
  /\ valid = {} /\ lba_disks = {} /\ probed = {}
  /\ curr_disk = 0
  /\ selected = [c \in {Channel(d) : d \in Disks} |-> 2 * c]
  /\ call = [op |-> "none", disk |-> 0, lba |-> 0, at |-> 0, len |-> 0,
             left |-> 0, total |-> 0, buf |-> <<>>, ret |-> 0]
  /\ ata = NoCommand
  /\ pc = "boot" /\ temps = 0 /\ torn = 0
  /\ writes = <<>> /\ late = FALSE

-----------------------------------------------------------------------------
(* identify_drive on the next disk: it is rejected when it is absent,      *)
(* stays busy, has a signature other than ATA's, or raises no DRQ.         *)
identify_drive(d, outcome, lba) ==
  /\ pc = "boot" /\ d \notin probed
  /\ \A e \in Disks : e < d => e \in probed
  /\ probed' = probed \cup {d}
  /\ selected' = [selected EXCEPT ![Channel(d)] = d]
  /\ valid' = IF outcome = "ok" THEN valid \cup {d} ELSE valid
  /\ lba_disks' = IF outcome = "ok" /\ lba THEN lba_disks \cup {d}
                                           ELSE lba_disks
  /\ \/ outcome # "timeout" /\ UNCHANGED drive
     \/ /\ outcome = "timeout" /\ "stuck" \in Faults
        /\ drive' = [drive EXCEPT ![d].st = "stuck"]
  /\ UNCHANGED <<media, curr_disk, call, ata, pc, temps, torn, writes, late>>

init_disk_driver_ends ==
  /\ pc = "boot" /\ probed = Disks
  /\ pc' = "idle"
  /\ UNCHANGED <<media, drive, valid, lba_disks, probed, curr_disk, selected,
                 call, ata, temps, torn, writes, late>>

switch_disk(d) ==
  /\ pc = "idle"
  /\ curr_disk' = IF d \in valid THEN d ELSE curr_disk
  /\ UNCHANGED <<media, drive, valid, lba_disks, probed, selected, call, ata,
                 pc, temps, torn, writes, late>>

-----------------------------------------------------------------------------
(* The registers hold 28 bits of the address. *)
get_lba_low(lba) == lba % 2^8
get_lba_mid(lba) == (lba \div 2^8) % 2^8
get_lba_high(lba) == (lba \div 2^16) % 2^8
get_lba_highest(lba) == (lba \div 2^24) % 2^4

(* The address the drive makes of its registers. *)
DriveLba(lba) == get_lba_low(lba) + 2^8 * get_lba_mid(lba)
                   + 2^16 * get_lba_high(lba) + 2^24 * get_lba_highest(lba)

(* The 8-bit sector count: 0 stands for MAX_SECTORS_PER_CALL_SIZE. *)
SectorCode(n) == IF n >= MAX_SECTORS_PER_CALL_SIZE THEN 0 ELSE n

(* disk_write's reading of the count, to advance by. *)
SectorsOf(code) == IF code = 0 THEN MAX_SECTORS_PER_CALL_SIZE ELSE code

(* Mutant of SectorsRead: the code 0 is taken for no sector. *)
CodeTakenForCount(code) == code

(* disk_read's reading of the count, to advance by. *)
SectorsRead(code) == IF code = 0 THEN MAX_SECTORS_PER_CALL_SIZE ELSE code

(* The commands' own reading of the count. *)
CommandCount(code) == IF code = 0 THEN MAX_SECTORS_PER_CALL_SIZE ELSE code

(* External: the drive's reading of its sector count register. *)
DriveCount(code) == IF code = 0 THEN MAX_SECTORS_PER_CALL_SIZE ELSE code

(* The checks at the head of ata_read_sectors and ata_write_sectors. *)
ata_accepts(lba, count) ==
  /\ curr_disk \in valid /\ curr_disk \in lba_disks
  /\ lba < total_sectors
  /\ count <= total_sectors - lba

-----------------------------------------------------------------------------
(* disk_read and disk_write are entered. *)
Entered(op, lba, len, sectors) ==
  /\ pc = "idle"
  /\ call' = [op |-> op, disk |-> curr_disk, lba |-> lba, at |-> lba,
              len |-> len, left |-> sectors, total |-> 0, ret |-> 0,
              buf |-> [i \in 1 .. len |->
                         IF op = "read" THEN Unset
                                        ELSE Byte(Len(writes) + 1, i - 1)]]
  /\ pc' = IF curr_disk \in valid THEN "loop" ELSE "idle"
  /\ UNCHANGED <<media, drive, valid, lba_disks, probed, curr_disk, selected,
                 ata, temps, torn, late>>

disk_read(lba, len) ==
  /\ Entered("read", lba, len, (len + sector_size - 1) \div sector_size)
  /\ UNCHANGED writes

disk_write(lba, len) ==
  /\ Len(writes) < MaxWrites
  /\ Entered("write", lba, len, len \div sector_size)
  /\ writes' = Append(writes, [disk |-> curr_disk, lba |-> lba, len |-> len])

(* The call returns n; its locals are gone. *)
Return(n) == /\ pc' = "idle"
             /\ call' = [call EXCEPT !.ret = n, !.left = 0, !.total = 0,
                                     !.at = call.lba]
             /\ ata' = NoCommand

(* What a step of a call leaves alone. *)
settings == <<valid, lba_disks, probed, curr_disk, writes, late>>

(* The bytes of the caller's buffer that fill the temporary buffer. *)
Chunk(bytes) == [i \in 1 .. bytes |-> call.buf[call.total + i]]

(* One turn of a wrapper's loop up to the call of ata_*_sectors: when the  *)
(* command's checks fail, the buffer is freed and the bytes done so far    *)
(* are returned.                                                           *)
StartCommand(temp) ==
  LET code == SectorCode(call.left) IN
  /\ pc = "loop" /\ call.left > 0
  /\ \/ /\ ata_accepts(call.at, CommandCount(code))
        /\ ata' = [op |-> call.op, lba |-> call.at, code |-> code,
                   count |-> CommandCount(code), i |-> 0, tail |-> FALSE,
                   flush |-> FALSE, temp |-> temp]
        /\ temps' = temps + 1
        /\ pc' = "wait"
        /\ UNCHANGED call
     \/ /\ ~ata_accepts(call.at, CommandCount(code))
        /\ Return(call.total)
        /\ UNCHANGED temps
  /\ UNCHANGED <<media, drive, selected, torn, settings>>

NextRead == call.op = "read" /\ StartCommand(<<>>)

NextWrite ==
  /\ call.op = "write"
  /\ StartCommand(Chunk(SectorsOf(SectorCode(call.left)) * sector_size))

HasTail == call.op = "write" /\ call.len % sector_size # 0

(* kmalloc gives no temporary buffer. *)
NoBuffer ==
  /\ pc = "loop"
  /\ call.left > 0 \/ HasTail
  /\ Return(call.total)
  /\ UNCHANGED <<media, drive, temps, torn, selected, settings>>

(* The loop is over, and disk_write has no partial sector to write. *)
Finish ==
  /\ pc = "loop" /\ call.left = 0 /\ ~HasTail
  /\ Return(IF call.op = "read" THEN call.total ELSE call.len)
  /\ UNCHANGED <<media, drive, temps, torn, selected, settings>>

(* disk_write's last, partial sector is read first; a refused read returns *)
(* without freeing the buffer.                                             *)
ReadTail ==
  /\ pc = "loop" /\ call.left = 0 /\ HasTail
  /\ temps' = temps + 1
  /\ \/ /\ ata_accepts(call.at, 1)
        /\ ata' = [op |-> "read", lba |-> call.at, code |-> 1, count |-> 1,
                   i |-> 0, tail |-> TRUE, flush |-> FALSE, temp |-> <<>>]
        /\ pc' = "wait"
        /\ UNCHANGED <<call, torn>>
     \/ /\ ~ata_accepts(call.at, 1)
        /\ Return(call.total)
        /\ torn' = torn + 1
  /\ UNCHANGED <<media, drive, selected, settings>>

-----------------------------------------------------------------------------
(* The drive whose status the port shows before the command selects its    *)
(* own: the one the channel's last command was for.                        *)
Answering == drive[selected[Channel(curr_disk)]]

(* Mutant of BsyClear: the command is sent without waiting. *)
NoWait == TRUE

BsyClear == Answering.st \in {"ready", "drq"}

(* BSY is clear there: the drive is selected, the registers are set and    *)
(* the command is sent.  A drive that is not ready would ignore it         *)
(* (CommandsReachReadyDrive says that it is).                              *)
SendCommand(op) ==
  /\ pc = "wait" /\ ata.op = op
  /\ BsyClear
  /\ selected' = [selected EXCEPT ![Channel(curr_disk)] = curr_disk]
  /\ drive' = IF drive[curr_disk].st # "ready" THEN drive ELSE
                [drive EXCEPT ![curr_disk] =
                   [st |-> "busy", op |-> op, lba |-> DriveLba(ata.lba),
                    left |-> DriveCount(ata.code), data |-> <<>>]]
  /\ pc' = "xfer"
  /\ UNCHANGED <<media, call, ata, temps, torn, settings>>

SendRead == SendCommand("read")
SendWrite == SendCommand("write")

(* One sector: DRQ is set, the sector comes through the data register.     *)
ReadSector ==
  LET d == drive[curr_disk] IN
  /\ pc = "xfer" /\ ata.op = "read" /\ ata.i < ata.count
  /\ d.st = "drq"
  /\ ata' = [ata EXCEPT !.i = @ + 1, !.temp = @ \o d.data]
  /\ drive' = [drive EXCEPT ![curr_disk] =
                 IF d.left = 0 THEN Idle ELSE [d EXCEPT !.st = "busy"]]
  /\ UNCHANGED <<media, call, pc, temps, torn, selected, settings>>

(* One sector to the drive; flush_cache is next. *)
WriteSector ==
  LET d == drive[curr_disk] IN
  /\ pc = "xfer" /\ ata.op = "write" /\ ata.i < ata.count /\ ~ata.flush
  /\ d.st = "drq"
  /\ ata' = [ata EXCEPT !.i = @ + 1, !.flush = TRUE]
  /\ drive' = [drive EXCEPT ![curr_disk] =
       [d EXCEPT !.st = "busy",
                 !.data = SubSeq(ata.temp, ata.i * sector_size + 1,
                                 (ata.i + 1) * sector_size)]]
  /\ UNCHANGED <<media, call, pc, temps, torn, selected, settings>>

(* flush_cache waits for nothing.  External: a drive that is ready starts  *)
(* to flush; one that still has the sector ignores the command.            *)
flush_cache ==
  IF drive[curr_disk].st = "ready"
    THEN [drive EXCEPT ![curr_disk] = [st |-> "busy", op |-> "flush", lba |-> 0,
                                       left |-> 0, data |-> <<>>]]
    ELSE drive

(* flush_cache after a sector.  External: a drive that already waits for   *)
(* the next sector ignores the command too, or drops the write.            *)
FlushSector ==
  /\ pc = "xfer" /\ ata.flush
  /\ ata' = [ata EXCEPT !.flush = FALSE]
  /\ \/ drive' = flush_cache
     \/ /\ drive[curr_disk].st = "drq" /\ "error" \in Faults
        /\ drive' = [drive EXCEPT ![curr_disk] = Idle]
  /\ UNCHANGED <<media, call, pc, temps, torn, selected, settings>>

(* A command has moved all its sectors and returns true. *)
Succeeded(op, tail) == /\ pc = "xfer" /\ ata.i = ata.count /\ ~ata.flush
                       /\ ata.op = op /\ ata.tail = tail

(* The wrapper's loop after n sectors and their bytes. *)
Advance(n, bytes, buf) ==
  /\ call' = [call EXCEPT !.buf = buf, !.total = @ + bytes, !.left = @ - n,
                          !.at = @ + n]
  /\ temps' = temps - 1
  /\ pc' = "loop"
  /\ UNCHANGED <<media, drive, ata, selected, torn, settings>>

(* The bytes disk_read takes of n sectors, cut to the length asked for. *)
BytesMoved(n) == Min({n * sector_size, call.len - call.total})

(* Mutant of Copied: every command's bytes go to the start of the buffer. *)
CopiedToStart(bytes) ==
  [i \in 1 .. call.len |->
     IF i <= bytes THEN ata.temp[i] ELSE call.buf[i]]

(* disk_read appends a command's bytes to those it has. *)
Copied(bytes) ==
  [i \in 1 .. call.len |->
     IF i \in call.total + 1 .. call.total + bytes
       THEN ata.temp[i - call.total] ELSE call.buf[i]]

ReadDone ==
  LET n == SectorsRead(SectorCode(call.left)) IN
  /\ Succeeded("read", FALSE)
  /\ Advance(n, BytesMoved(n), Copied(BytesMoved(n)))

WriteDone ==
  LET n == SectorsOf(SectorCode(call.left)) IN
  /\ Succeeded("write", FALSE)
  /\ Advance(n, n * sector_size, call.buf)

(* Mutant of TailBuffer: a whole sector is copied from the caller. *)
TailBufferWhole == [i \in 1 .. sector_size |->
                      Byte(Len(writes), call.total + i - 1)]

(* The partial sector: what was read, its head replaced. *)
TailBuffer == [i \in 1 .. sector_size |->
                 IF i <= call.len % sector_size
                   THEN call.buf[call.total + i] ELSE ata.temp[i]]

(* The partial sector has been read; it is changed and written back. *)
WriteTail ==
  /\ Succeeded("read", TRUE)
  /\ ata' = [ata EXCEPT !.op = "write", !.i = 0, !.temp = TailBuffer]
  /\ pc' = "wait"
  /\ UNCHANGED <<media, drive, call, temps, torn, selected, settings>>

(* Mutant of TempsAfterTail: the partial sector's buffer is kept. *)
TailKept == temps

TempsAfterTail == temps - 1

(* The partial sector is written; its buffer is freed, and the drive is    *)
(* told to flush once more.                                                *)
TailDone ==
  /\ Succeeded("write", TRUE)
  /\ temps' = TempsAfterTail
  /\ drive' = flush_cache
  /\ Return(call.len)
  /\ UNCHANGED <<media, selected, torn, settings>>

(* A failed command's buffer is freed, except the partial sector's. *)
TempsAfterFailure == IF ata.tail THEN temps ELSE temps - 1

(* Mutant of PartialResult: a failure is reported as a full transfer. *)
WholeLength == call.len

(* What the wrappers return after a failed command: the bytes so far.  For *)
(* disk_read its own comment says 0.                                       *)
PartialResult == call.total

(* ata_read_sectors and ata_write_sectors return false: BSY never clears,  *)
(* or DRQ does not come.  Only the first wait of a write has no way out.   *)
CommandFails ==
  /\ \/ pc = "wait" /\ Answering.st = "stuck" /\ ata.op = "read"
     \/ pc = "xfer" /\ ata.i < ata.count /\ ~ata.flush
                    /\ drive[curr_disk].st \in {"stuck", "ready"}
  /\ temps' = TempsAfterFailure
  /\ torn' = IF ata.tail THEN torn + 1 ELSE torn
  /\ Return(PartialResult)
  /\ UNCHANGED <<media, drive, selected, settings>>

(* ata_write_sectors repeats its first wait for as long as BSY is set. *)
WaitsForBsy == /\ pc = "wait" /\ ata.op = "write"
               /\ Answering.st = "stuck"
               /\ UNCHANGED vars

-----------------------------------------------------------------------------
(* External: a drive serves the next sector of its command.  The first     *)
(* sector of a write is asked for at once; later each sector received is   *)
(* put on the media before the next one is asked for.                      *)
DriveReads(d) ==
  /\ drive[d].st = "busy" /\ drive[d].op = "read"
  /\ LET r == drive[d] IN
       drive' = [drive EXCEPT ![d] =
         [r EXCEPT !.st = "drq", !.lba = r.lba + 1, !.left = r.left - 1,
            !.data = [i \in 1 .. sector_size |->
                        media[d][r.lba * sector_size + i - 1]]]]
  /\ UNCHANGED media

DriveWrites(d) ==
  /\ drive[d].st = "busy" /\ drive[d].op = "write"
  /\ LET r == drive[d] IN
       IF r.data = <<>>
         THEN /\ drive' = [drive EXCEPT ![d] = [r EXCEPT !.st = "drq"]]
              /\ UNCHANGED media
         ELSE /\ media' = [media EXCEPT ![d] = [p \in DiskBytes |->
                   IF p \in Sector(r.lba)
                     THEN r.data[p - r.lba * sector_size + 1] ELSE @[p]]]
              /\ drive' = [drive EXCEPT ![d] =
                   IF r.left = 1 THEN Idle
                     ELSE [r EXCEPT !.st = "drq", !.lba = r.lba + 1,
                                    !.left = r.left - 1]]

(* The cache is flushed.  What a drive has taken off its data register and *)
(* what its cache holds is on the media here: both are read back.          *)
DriveFlushes(d) ==
  /\ drive[d].st = "busy" /\ drive[d].op = "flush"
  /\ drive' = [drive EXCEPT ![d] = Idle]
  /\ UNCHANGED media

(* A write error on the last sector, which the driver has handed over. *)
OnLastSector(d) == drive[d].op = "write" /\ drive[d].left = 1
                                         /\ drive[d].data # <<>>

(* The drive ends the command with ERR. *)
DriveErrs(d) ==
  /\ drive[d].st = "busy"
  /\ (IF OnLastSector(d) THEN "late" ELSE "error") \in Faults
  /\ drive' = [drive EXCEPT ![d] = Idle]
  /\ late' = (late \/ OnLastSector(d))
  /\ UNCHANGED media

DriveSticks(d) ==
  /\ drive[d].st = "busy" /\ "stuck" \in Faults
  /\ drive' = [drive EXCEPT ![d] = [@ EXCEPT !.st = "stuck"]]
  /\ UNCHANGED media

DriveStep(d) ==
  /\ \/ DriveErrs(d)
     \/ DriveReads(d) /\ UNCHANGED late
     \/ DriveWrites(d) /\ UNCHANGED late
     \/ DriveFlushes(d) /\ UNCHANGED late
     \/ DriveSticks(d) /\ UNCHANGED late
  /\ UNCHANGED <<call, ata, pc, temps, torn, valid, lba_disks, probed, curr_disk,
                 selected, writes>>

Driver == \/ init_disk_driver_ends
          \/ NextRead \/ NextWrite \/ NoBuffer \/ Finish \/ ReadTail
          \/ SendRead \/ SendWrite \/ ReadSector \/ WriteSector \/ FlushSector
          \/ ReadDone \/ WriteDone \/ WriteTail \/ TailDone \/ CommandFails

Outcomes == {"ok", "absent", "timeout", "not_ata", "no_drq"}

Next ==
  \/ \E d \in Disks, o \in Outcomes, lba \in BOOLEAN : identify_drive(d, o, lba)
  \/ \E d \in Disks : switch_disk(d)
  \/ \E lba \in Lbas, len \in Lens : disk_read(lba, len) \/ disk_write(lba, len)
  \/ Driver \/ WaitsForBsy
  \/ \E d \in Disks : DriveStep(d)

Spec == Init /\ [][Next]_vars

(* The driver runs to the end of a call; a drive that is not stuck serves  *)
(* or fails its command.                                                   *)
FairSpec == Spec /\ WF_vars(Driver) /\ \A d \in Disks : WF_vars(DriveStep(d))

-----------------------------------------------------------------------------
Bytes == Int \X Int
Op == {"none", "read", "write"}
DriveState == [st : {"ready", "busy", "drq", "stuck"}, op : Op \cup {"flush"},
               lba : Nat, left : Nat, data : Seq(Bytes)]
Call == [op : Op, disk : Disks, lba : Nat, at : Nat, len : Nat, left : Nat,
         total : Nat, buf : Seq(Bytes), ret : Nat]
Command == [op : Op, lba : Nat, code : Nat, count : Nat, i : Nat,
            tail : BOOLEAN, flush : BOOLEAN, temp : Seq(Bytes)]

(* Every variable has its type. *)
TypeOK ==
  /\ media \in [Disks -> [DiskBytes -> Bytes]]
  /\ drive \in [Disks -> DriveState]
  /\ lba_disks \subseteq valid /\ valid \subseteq probed
  /\ probed \subseteq Disks /\ curr_disk \in Disks
  /\ selected \in [{Channel(d) : d \in Disks} -> Disks]
  /\ call \in Call /\ ata \in Command
  /\ pc \in {"boot", "idle", "loop", "wait", "xfer"}
  /\ temps \in Nat /\ torn \in Nat /\ late \in BOOLEAN
  /\ writes \in Seq([disk : Disks, lba : Nat, len : Nat])

(* Byte b at place p of disk d is what was there from the start, or the    *)
(* byte that one of the writes ws asked to put there.                      *)
PutThere(ws, d, p, b) ==
  IF b[1] = 0 THEN b[2] = p
  ELSE /\ b[1] \in 1 .. Len(ws) /\ ws[b[1]].disk = d
       /\ b[2] < ws[b[1]].len /\ p = ws[b[1]].lba * sector_size + b[2]

(* Nothing but what a caller asked for is ever on the media, at any step   *)
(* of a split write and whatever fails: a byte of the w-th disk_write is   *)
(* on the disk that was current, at its place, and inside the length; the  *)
(* read-modify-write of the last sector keeps every other byte.            *)
BytesWherePut ==
  \A d \in Disks, p \in DiskBytes : PutThere(writes, d, p, media[d][p])

(* The call that ended last, if it was op. *)
Ended(op) == pc = "idle" /\ call.op = op

(* What disk_read returns is how many bytes of the caller's buffer it has  *)
(* filled, all from the place asked for, and the others are as they were,  *)
(* whichever of its commands fails: a caller may rely on the count.  The   *)
(* comment of disk_read promises more, 0 when an error is encountered; the *)
(* code returns the bytes of the commands before the one that failed.      *)
ReadsReturnMedia ==
  Ended("read") =>
    /\ Len(call.buf) = call.len
    /\ \A i \in 1 .. call.len :
         call.buf[i] =
           IF i <= call.ret
             THEN media[call.disk][call.lba * sector_size + i - 1]
             ELSE Unset

(* READ and WRITE are only sent to a drive that has ended the command      *)
(* before, a flush included, though BSY is tested before the drive is      *)
(* selected and so tells of the drive the channel served last, master or   *)
(* slave.  FLUSH itself is sent without a test: it does meet busy drives.  *)
CommandsReachReadyDrive ==
  [][SendRead \/ SendWrite => drive[curr_disk].st = "ready"]_vars

(* "Returns the number of bytes written": once the drive has finished,     *)
(* what disk_write returned is how much of the buffer is on the media.     *)
WriteResultHonest ==
  Ended("write") /\ (\A d \in Disks : drive[d].st = "ready") =>
    \A i \in 1 .. call.ret :
       LET w == writes[Len(writes)] IN
       media[w.disk][w.lba * sector_size + i - 1] = Byte(Len(writes), i - 1)

(* The same, as far as the driver can know: every error a drive reports    *)
(* while ata_write_sectors still polls it is in disk_write's result.       *)
WriteHonestUnlessLate == ~late => WriteResultHonest

(* No call keeps a temporary buffer, except a disk_write that failed in    *)
(* its partial last sector, one buffer each: a transfer that succeeds, and *)
(* one that fails in a whole sector, frees what it took.                   *)
TempsFreed == pc = "idle" => temps <= torn

-----------------------------------------------------------------------------
(* disk_read and disk_write return, whichever commands fail, as long as no *)
(* drive stays busy for ever.                                              *)
EveryCallReturns ==
  (pc \in {"loop", "wait", "xfer"})
    ~> (pc = "idle" \/ \E d \in Disks : drive[d].st = "stuck")
=============================================================================
