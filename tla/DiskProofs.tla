----------------------------- MODULE DiskProofs -----------------------------
(* Proofs about drivers/disk.c: first its slot allocator (DiskSlots), for  *)
(* every bitmap size and every set of run lengths, then its transfers      *)
(* (DiskIO), for up to four drives, every sector size, command limit, set  *)
(* of requests and kind of drive faults.                                   *)
EXTENDS DiskIO, DiskSlots, FiniteSetTheorems, SequenceTheorems, TLAPS

-----------------------------------------------------------------------------
(* The inductive invariant of DiskSlots. *)
SlotsIInv == SlotsTypeOK /\ RunsDisjoint /\ OwnedIsMarked /\ LeakIsLastRun

-----------------------------------------------------------------------------
(* The inductive invariants of DiskIO: where the driver and the drives     *)
(* are in a call, and what their buffers hold there.                       *)
InCall == pc \in {"loop", "wait", "xfer"}
InCommand == pc \in {"wait", "xfer"}

(* How far a call is: total bytes in at - lba sectors, left sectors to go, *)
(* the last of a read and the one after a write's perhaps in part.         *)
CallSound ==
  /\ Len(call.buf) = call.len
  /\ InCall =>
       LET done == call.at - call.lba IN
       /\ call.op \in {"read", "write"}
       /\ call.disk = curr_disk /\ curr_disk \in valid
       /\ done >= 0 /\ call.ret = 0
       /\ call.op = "read" =>
            /\ call.left = 0 => call.total = call.len
            /\ call.left > 0 => /\ call.total = done * sector_size
                                /\ (done + call.left - 1) * sector_size < call.len
            /\ call.len <= (done + call.left) * sector_size
       /\ call.op = "write" =>
            /\ call.total = done * sector_size
            /\ call.len = (done + call.left) * sector_size
                            + (call.len % sector_size)

(* The command under way is the next one of its call, inside the disk, and *)
(* its buffer is as long as what it has read or is to write.               *)
CommandSound ==
  InCommand =>
    /\ ata.op \in {"read", "write"} /\ ata.lba = call.at
    /\ ata.count >= 1 /\ ata.count = CommandCount(ata.code)
    /\ ata.lba + ata.count <= total_sectors
    /\ ata.i <= ata.count /\ (pc = "wait" => ata.i = 0)
    /\ IF ata.tail THEN call.left = 0 /\ HasTail /\ ata.count = 1
       ELSE ata.op = call.op /\ call.left > 0 /\ ata.code = SectorCode(call.left)
    /\ Len(ata.temp) = (IF ata.op = "read" THEN ata.i ELSE ata.count) * sector_size

(* A sector handed over to drive d and not yet on its media. *)
Writing(d) == drive[d].st = "busy" /\ drive[d].op = "write"
                                   /\ drive[d].data # <<>>

(* A drive that flushes its cache. *)
Flushing(d) == drive[d].st = "busy" /\ drive[d].op = "flush"

(* A drive that is not in a command is at most putting away its last       *)
(* sector or flushing; and a disk in use that is not ready is the one      *)
(* selected.                                                               *)
AtRest(d) == \/ drive[d].st \in {"ready", "stuck"}
             \/ Writing(d) /\ drive[d].left = 1
             \/ Flushing(d)

DrivesSound ==
  /\ \A d \in Disks \ probed : drive[d] = Idle
  /\ pc = "boot" => \A d \in Disks : /\ drive[d].st \in {"ready", "stuck"}
                                     /\ d \in valid => drive[d].st = "ready"
  /\ \A d \in valid : drive[d].st = "ready" \/ selected[Channel(d)] = d
  /\ pc = "xfer" => selected[Channel(curr_disk)] = curr_disk
  /\ \A d \in Disks : AtRest(d) \/ (pc = "xfer" /\ d = curr_disk)
  /\ \A d \in Disks : Writing(d) => /\ Len(drive[d].data) = sector_size
                                    /\ drive[d].lba < total_sectors

(* The drive and the driver agree on the sector they are at. *)
InStep ==
  LET D == drive[curr_disk] IN
  pc = "xfer" /\ D.st \in {"busy", "drq"} /\ ~Flushing(curr_disk) =>
    /\ D.op = ata.op
    /\ D.op = "read" =>
         /\ ata.i < ata.count
         /\ D.st = "busy" => /\ D.lba = ata.lba + ata.i
                             /\ D.left = ata.count - ata.i
         /\ D.st = "drq" => /\ D.left = ata.count - ata.i - 1
                            /\ D.lba = ata.lba + ata.i + 1
                            /\ Len(D.data) = sector_size
    /\ D.op = "write" =>
         IF Writing(curr_disk)
           THEN /\ ata.i >= 1 /\ D.lba = ata.lba + ata.i - 1
                /\ D.left = ata.count - ata.i + 1
           ELSE /\ ata.i < ata.count /\ D.lba = ata.lba + ata.i
                /\ D.left = ata.count - ata.i
                /\ D.st = "busy" => ata.i = 0

(* A buffer is allocated for the command under way; the others were lost   *)
(* in partial sectors.                                                     *)
TempsSound == /\ InCommand => temps >= 1 /\ temps <= torn + 1
              /\ ~InCommand => temps <= torn

IInv == TypeOK /\ CallSound /\ CommandSound /\ DrivesSound /\ InStep /\ TempsSound

(* The last disk_write, as its call remembers it. *)
WriteKnown ==
  call.op = "write" =>
    /\ writes # <<>>
    /\ writes[Len(writes)] = [disk |-> call.disk, lba |-> call.lba, len |-> call.len]
    /\ \A i \in 1 .. call.len : call.buf[i] = Byte(Len(writes), i - 1)

(* What has been read so far is what is on the media. *)
ReadingSound ==
  pc = "xfer" /\ ata.op = "read" =>
    /\ \A j \in 1 .. ata.i * sector_size :
         ata.temp[j] = media[curr_disk][ata.lba * sector_size + j - 1]
    /\ drive[curr_disk].st = "drq" =>
         \A j \in 1 .. sector_size :
            drive[curr_disk].data[j]
              = media[curr_disk][(ata.lba + ata.i) * sector_size + j - 1]

(* What a drive is about to put on its media is right at its place. *)
HandedSound ==
  \A d \in Disks : Writing(d) =>
    \A j \in 1 .. sector_size :
       PutThere(writes, d, drive[d].lba * sector_size + j - 1, drive[d].data[j])

(* And so is what the driver is about to hand over. *)
BufferSound ==
  InCommand /\ ata.op = "write" =>
    \A j \in 1 .. ata.count * sector_size :
       PutThere(writes, curr_disk, ata.lba * sector_size + j - 1, ata.temp[j])

PlaceInv == BytesWherePut /\ WriteKnown /\ ReadingSound /\ HandedSound /\ BufferSound

(* The bytes a call has moved so far, or in all. *)
Moved == IF pc = "idle" THEN call.ret ELSE call.total

(* The caller's buffer of a disk_read; its disk is not being written to.   *)
ReadInv ==
  /\ pc = "boot" => call.op = "none"
  /\ call.op = "read" =>
       /\ Moved <= call.len
       /\ \A i \in 1 .. call.len :
            call.buf[i] = IF i <= Moved
                            THEN media[call.disk][call.lba * sector_size + i - 1]
                            ELSE Unset
       /\ Moved > 0 => ~Writing(call.disk)

(* Byte b is at place p of the media m of a drive in state r, or will be   *)
(* unless the drive fails.                                                 *)
Landed(r, m, p, b) ==
  /\ p \in DiskBytes
  /\ \/ r.st = "stuck"
     \/ IF /\ r.st = "busy" /\ r.op = "write" /\ r.data # <<>>
           /\ p \in Sector(r.lba)
          THEN r.data[p - r.lba * sector_size + 1] = b
          ELSE m[p] = b

(* The bytes that a disk_write counts as written have landed. *)
CountedLanded ==
  call.op = "write" =>
    \A i \in 1 .. Moved : Landed(drive[call.disk], media[call.disk],
                                call.lba * sector_size + i - 1,
                                Byte(Len(writes), i - 1))

(* The buffer of a write's command holds the caller's next bytes. *)
BufferNext ==
  InCommand /\ ata.op = "write" =>
    \A j \in 1 .. ata.count * sector_size :
       call.total + j <= call.len
         => ata.temp[j] = Byte(Len(writes), call.total + j - 1)

(* The sectors handed over have landed, unless the drive has ended the     *)
(* command early, which the driver is then about to find out, if not       *)
(* before the drive has flushed.                                           *)
HandedLanded ==
  pc = "xfer" /\ ata.op = "write" =>
    \/ /\ drive[curr_disk].st \in {"ready", "stuck"} \/ Flushing(curr_disk)
       /\ ata.i < ata.count
    \/ \A j \in 1 .. ata.i * sector_size :
         Landed(drive[curr_disk], media[curr_disk],
                ata.lba * sector_size + j - 1, ata.temp[j])

HonestInv == ~late => CountedLanded /\ BufferNext /\ HandedLanded

-----------------------------------------------------------------------------
(* The run a scan finds is free, lies in the bitmap and starts at a slot.  *)
LEMMA FitIsFree ==
  ASSUME NEW s \in Slot, NEW count \in SlotCounts \ {0},
         are_slots_free(s, count)
  PROVE  /\ SlotsOf(s, count) \subseteq Slot
         /\ SlotsOf(s, count) \cap disk_bitmap = {}
         /\ s + count <= Limit
         /\ s \in SlotsOf(s, count)
BY SlotsAssumption DEF are_slots_free, SlotsOf, Slot, Limit

(* Together the two loops visit every slot. *)
LEMMA ScanCoversSlots ==
  ASSUME SlotsTypeOK
  PROVE  Forward \cup Wrapped = Slot
<1>1. ASSUME NEW s \in Slot PROVE s \in Forward \cup Wrapped
  BY <1>1, SlotsAssumption DEF Forward, Wrapped, Slot, Limit, SlotsTypeOK
<1> QED
  BY <1>1 DEF Forward, Wrapped

(* A run is a non-empty interval of slots. *)
LEMMA RunShape ==
  ASSUME SlotsTypeOK, NEW r \in runs
  PROVE  /\ r.start \in Slot /\ r.count \in SlotCounts \ {0}
         /\ r.start \in Nat /\ r.count \in Nat \ {0}
         /\ r.start + r.count <= Limit
<1>1. r \in [start : Slot, count : SlotCounts \ {0}]
  BY DEF SlotsTypeOK
<1>2. r.start + r.count <= Limit
  BY DEF SlotsTypeOK
<1>3. r.start \in Slot /\ r.count \in SlotCounts \ {0}
  BY <1>1
<1>4. r.start \in Nat
  BY <1>3, SlotsAssumption DEF Slot, Limit
<1>5. r.count \in Nat \ {0}
  <2>1. r.count \in 0 .. 255 /\ r.count # 0
    BY <1>3, SlotsAssumption
  <2> QED
    BY <2>1
<1> QED
  BY <1>2, <1>3, <1>4, <1>5

(* Removing a live run removes exactly its slots from the owned ones.      *)
LEMMA OwnedAfterFree ==
  ASSUME SlotsTypeOK, RunsDisjoint, NEW r \in runs, runs' = runs \ {r}
  PROVE  Owned' = Owned \ SlotsOf(r.start, r.count)
<1>1. ASSUME NEW x \in Owned' PROVE x \in Owned \ SlotsOf(r.start, r.count)
  <2>1. PICK q \in runs \ {r} : x \in SlotsOf(q.start, q.count)
    BY <1>1 DEF Owned
  <2> QED
    BY <2>1 DEF Owned, RunsDisjoint
<1>2. ASSUME NEW x \in Owned \ SlotsOf(r.start, r.count) PROVE x \in Owned'
  <2>1. PICK q \in runs : x \in SlotsOf(q.start, q.count)
    BY <1>2 DEF Owned
  <2>2. q # r
    BY <1>2, <2>1
  <2> QED
    BY <2>1, <2>2 DEF Owned
<1> QED
  BY <1>1, <1>2

(* The empty bitmap satisfies the invariant. *)
LEMMA SlotsInitIInv == SlotsInit => SlotsIInv
<1> SUFFICES ASSUME SlotsInit PROVE SlotsIInv
  OBVIOUS
<1>1. SlotsTypeOK
  BY SlotsAssumption
     DEF SlotsInit, SlotsTypeOK, Limit, Slot, DISK_NO_SLOT_AVAILABLE
<1>2. Owned = {} /\ disk_bitmap = {} /\ runs = {}
  BY DEF SlotsInit, Owned
<1> QED
  BY <1>1, <1>2 DEF SlotsIInv, RunsDisjoint, OwnedIsMarked, LeakIsLastRun, Leaked

(* Every call preserves the invariant. *)
LEMMA SlotsNextIInv == SlotsIInv /\ [SlotsNext]_slot_vars => SlotsIInv'
<1> SUFFICES ASSUME SlotsIInv, [SlotsNext]_slot_vars PROVE SlotsIInv'
  OBVIOUS
<1> USE DEF SlotsIInv
<1>1. ASSUME NEW count \in SlotCounts, disk_alloc_slots(count) PROVE SlotsIInv'
  <2>1. PICK s \in Slot :
          /\ are_slots_free(s, count)
          /\ disk_bitmap' = disk_bitmap \cup SlotsOf(s, count)
          /\ last_alloc_index' = (s + count) \div 8
          /\ runs' = runs \cup {Run(s, count)}
          /\ last' = [op |-> "alloc", count |-> count, slot |-> s]
    BY <1>1 DEF disk_alloc_slots, FirstFit, mark_slots_used
  <2>2. count \in SlotCounts \ {0} /\ count \in 1 .. 255
    BY <1>1, SlotsAssumption DEF disk_alloc_slots
  <2>3. /\ SlotsOf(s, count) \subseteq Slot
        /\ SlotsOf(s, count) \cap disk_bitmap = {}
        /\ s + count <= Limit
    BY <2>1, <2>2, FitIsFree
  <2>4. Owned' = Owned \cup SlotsOf(s, count)
    <3>1. /\ runs' = runs \cup {Run(s, count)}
          /\ Run(s, count).start = s /\ Run(s, count).count = count
      BY <2>1 DEF Run
    <3> QED
      BY <3>1 DEF Owned
  <2>5. SlotsTypeOK'
    <3>1. last_alloc_index' \in 0 .. DISK_BITMAP_SIZE
      BY <2>1, <2>2, <2>3, SlotsAssumption DEF Limit, Slot
    <3>2. runs' \subseteq [start : Slot, count : SlotCounts \ {0}]
      BY <2>1, <2>2 DEF SlotsTypeOK, Run
    <3>3. \A r \in runs' : r.start + r.count <= Limit
      BY <2>1, <2>3 DEF SlotsTypeOK, Run
    <3>4. last' \in [op : {"init", "alloc", "free"}, count : 0 .. 255,
                     slot : Slot \cup {DISK_NO_SLOT_AVAILABLE}]
      BY <2>1, <2>2
    <3>5. disk_bitmap' \subseteq Slot
      BY <2>1, <2>3 DEF SlotsTypeOK
    <3> QED
      BY <3>1, <3>2, <3>3, <3>4, <3>5 DEF SlotsTypeOK, Slot, Limit
  <2>6. RunsDisjoint'
    <3>1. ASSUME NEW r \in runs
          PROVE  SlotsOf(r.start, r.count) \cap SlotsOf(s, count) = {}
      BY <2>3, <3>1 DEF OwnedIsMarked, Owned
    <3>2. ASSUME NEW r \in runs', NEW q \in runs', r # q
          PROVE  SlotsOf(r.start, r.count) \cap SlotsOf(q.start, q.count) = {}
      <4>1. CASE r \in runs /\ q \in runs
        BY <4>1, <3>2 DEF RunsDisjoint
      <4>2. CASE r \notin runs
        BY <4>2, <3>1, <3>2, <2>1 DEF Run
      <4>3. CASE q \notin runs
        BY <4>3, <3>1, <3>2, <2>1 DEF Run
      <4> QED
        BY <4>1, <4>2, <4>3
    <3> QED
      BY <3>2 DEF RunsDisjoint, SlotsOf
  <2>7. OwnedIsMarked'
    BY <2>1, <2>4 DEF OwnedIsMarked
  <2>8. LeakIsLastRun'
    <3>1. Leaked' = Leaked
      BY <2>1, <2>3, <2>4 DEF Leaked
    <3> QED
      BY <3>1 DEF LeakIsLastRun, SlotsOf, Limit
  <2> QED
    BY <2>5, <2>6, <2>7, <2>8
<1>2. ASSUME NEW count \in SlotCounts, disk_alloc_slots_none(count)
      PROVE  SlotsIInv'
  <2>1. /\ UNCHANGED <<disk_bitmap, last_alloc_index, runs>>
        /\ last' = [op |-> "alloc", count |-> count,
                    slot |-> DISK_NO_SLOT_AVAILABLE]
    BY <1>2 DEF disk_alloc_slots_none
  <2>2. SlotsTypeOK'
    <3>1. last' \in [op : {"init", "alloc", "free"}, count : 0 .. 255,
                     slot : Slot \cup {DISK_NO_SLOT_AVAILABLE}]
      BY <2>1, SlotsAssumption
    <3> QED
      BY <2>1, <3>1 DEF SlotsTypeOK, Slot, Limit
  <2>3. (RunsDisjoint /\ OwnedIsMarked /\ LeakIsLastRun)'
    BY <2>1 DEF RunsDisjoint, OwnedIsMarked, LeakIsLastRun, Leaked, Owned,
                SlotsOf, Limit
  <2> QED
    BY <2>2, <2>3
<1>3. ASSUME NEW r \in runs, disk_free_slots(r) PROVE SlotsIInv'
  <2>1. /\ runs' = runs \ {r}
        /\ disk_bitmap' = IF IsFreed(r)
                            THEN disk_bitmap \ SlotsOf(r.start, r.count)
                            ELSE disk_bitmap
        /\ last' = [op |-> "free", count |-> r.count, slot |-> r.start]
        /\ last_alloc_index' = last_alloc_index
    BY <1>3 DEF disk_free_slots
  <2>2. /\ r.start \in Slot /\ r.count \in SlotCounts \ {0}
        /\ r.start \in Nat /\ r.count \in Nat \ {0}
        /\ r.start + r.count <= Limit
    BY RunShape
  <2>3. Owned' = Owned \ SlotsOf(r.start, r.count)
    BY <2>1, OwnedAfterFree
  <2>4. SlotsTypeOK'
    <3>1. last' \in [op : {"init", "alloc", "free"}, count : 0 .. 255,
                     slot : Slot \cup {DISK_NO_SLOT_AVAILABLE}]
      BY <2>1, <2>2, SlotsAssumption
    <3> QED
      BY <2>1, <3>1 DEF SlotsTypeOK, Slot, Limit
  <2>5. RunsDisjoint' /\ OwnedIsMarked'
    BY <2>1, <2>3 DEF RunsDisjoint, OwnedIsMarked, SlotsOf
  <2>6. LeakIsLastRun'
    <3>1. CASE IsFreed(r)
      <4>1. Leaked' = Leaked
        <5>1. SlotsOf(r.start, r.count) \subseteq Owned
          BY DEF Owned
        <5> QED
          BY <2>1, <2>3, <3>1, <5>1 DEF Leaked
      <4> QED
        BY <4>1 DEF LeakIsLastRun, SlotsOf, Limit
    <3>2. CASE ~IsFreed(r)
      <4>1. /\ r.start = Limit - r.count
            /\ r.count <= Limit
            /\ Limit - 1 \in SlotsOf(r.start, r.count)
        BY <2>2, <3>2, SlotsAssumption DEF IsFreed, SlotsOf, Limit
      <4>2. Limit - 1 \in Owned
        BY <4>1 DEF Owned
      <4>3. Leaked = {}
        <5>1. ASSUME NEW n \in SlotCounts \ {0}, n <= Limit,
                     Leaked = SlotsOf(Limit - n, n)
              PROVE  Limit - 1 \in Leaked
          BY <5>1, SlotsAssumption DEF SlotsOf, Limit
        <5> QED
          BY <5>1, <4>2 DEF LeakIsLastRun, Leaked
      <4>4. Leaked' = SlotsOf(r.start, r.count)
        <5>1. SlotsOf(r.start, r.count) \subseteq Owned
          BY DEF Owned
        <5> QED
          BY <2>1, <2>3, <3>2, <4>3, <5>1 DEF Leaked, OwnedIsMarked
      <4> QED
        BY <2>2, <4>1, <4>4 DEF LeakIsLastRun, SlotsOf, Limit
    <3> QED
      BY <3>1, <3>2
  <2> QED
    BY <2>4, <2>5, <2>6
<1>4. ASSUME NEW r \in runs, disk_free_slot(r) PROVE SlotsIInv'
  <2>1. /\ runs' = runs \ {r}
        /\ r.count = 1
        /\ disk_bitmap' = disk_bitmap \ {r.start}
        /\ last' = [op |-> "free", count |-> 1, slot |-> r.start]
        /\ last_alloc_index' = last_alloc_index
    BY <1>4 DEF disk_free_slot
  <2>2. r.start \in Slot /\ r.start \in Nat
    BY RunShape
  <2>3. SlotsOf(r.start, r.count) = {r.start}
    BY <2>1, <2>2 DEF SlotsOf
  <2>4. Owned' = Owned \ {r.start}
    BY <2>1, <2>3, OwnedAfterFree
  <2>5. SlotsTypeOK'
    <3>1. last' \in [op : {"init", "alloc", "free"}, count : 0 .. 255,
                     slot : Slot \cup {DISK_NO_SLOT_AVAILABLE}]
      BY <2>1, <2>2
    <3> QED
      BY <2>1, <3>1 DEF SlotsTypeOK, Slot, Limit
  <2>6. RunsDisjoint' /\ OwnedIsMarked'
    BY <2>1, <2>4 DEF RunsDisjoint, OwnedIsMarked, SlotsOf
  <2>7. LeakIsLastRun'
    <3>1. r.start \in Owned
      BY <2>3 DEF Owned
    <3>2. Leaked' = Leaked
      BY <2>1, <2>4, <3>1 DEF Leaked
    <3> QED
      BY <3>2 DEF LeakIsLastRun, SlotsOf, Limit
  <2> QED
    BY <2>5, <2>6, <2>7
<1>5. CASE UNCHANGED slot_vars
  BY <1>5 DEF slot_vars, SlotsTypeOK, RunsDisjoint, OwnedIsMarked, LeakIsLastRun,
              Leaked, Owned, SlotsOf, Slot, Limit
<1> QED
  BY <1>1, <1>2, <1>3, <1>4, <1>5 DEF SlotsNext

(* The whole inductive invariant holds in every reachable state. *)
THEOREM SlotsInvariant == SlotsSpec => []SlotsIInv
<1> QED
  BY SlotsInitIInv, SlotsNextIInv, PTL DEF SlotsSpec

(* No two live runs of swap slots overlap. *)
THEOREM NoOverlap == SlotsSpec => []RunsDisjoint
<1>1. SlotsIInv => RunsDisjoint
  BY DEF SlotsIInv
<1> QED
  BY <1>1, SlotsInvariant, PTL

(* The early return of disk_free_slots leaks at most the last run.         *)
THEOREM BoundedLeak == SlotsSpec => []LeakIsLastRun
<1>1. SlotsIInv => LeakIsLastRun
  BY DEF SlotsIInv
<1> QED
  BY <1>1, SlotsInvariant, PTL

(* disk_alloc_slots refuses a request only when no run of its length is    *)
(* free.                                                                   *)
THEOREM RefusalIsHonest == SlotsSpec => RefusesOnlyWhenExhausted
<1> DEFINE Honest == (last'.op = "alloc" /\ last'.count # 0
                       /\ last'.slot = DISK_NO_SLOT_AVAILABLE)
                        => Exhausted(last'.count)
<1>1. SlotsIInv /\ SlotsNext => Honest
  <2> SUFFICES ASSUME SlotsIInv, SlotsNext PROVE Honest
    OBVIOUS
  <2>1. ASSUME NEW count \in SlotCounts, disk_alloc_slots(count) PROVE Honest
    BY <2>1 DEF disk_alloc_slots, Slot, DISK_NO_SLOT_AVAILABLE
  <2>2. ASSUME NEW count \in SlotCounts, disk_alloc_slots_none(count)
        PROVE Honest
    BY <2>2, ScanCoversSlots DEF disk_alloc_slots_none, NoFit, Exhausted, SlotsIInv
  <2>3. ASSUME NEW r \in runs, disk_free_slots(r) \/ disk_free_slot(r)
        PROVE Honest
    BY <2>3 DEF disk_free_slots, disk_free_slot
  <2> QED
    BY <2>1, <2>2, <2>3 DEF SlotsNext
<1>2. SlotsIInv /\ [SlotsNext]_slot_vars => [Honest]_slot_vars
  BY <1>1
<1> QED
  BY <1>2, SlotsInvariant, PTL DEF SlotsSpec, RefusesOnlyWhenExhausted

-----------------------------------------------------------------------------
(* The sizes are positive. *)
LEMMA Sizes ==
  /\ sector_size \in Nat /\ sector_size >= 1
  /\ total_sectors \in Nat /\ total_sectors >= 1
  /\ MAX_SECTORS_PER_CALL_SIZE \in Nat /\ MAX_SECTORS_PER_CALL_SIZE >= 1
BY DiskIOAssumption, SMT

(* Bytes of sectors: products are natural, distribute and are monotone. *)
LEMMA Products ==
  ASSUME NEW s \in Nat, NEW a \in Nat, NEW b \in Nat
  PROVE  /\ a * s \in Nat /\ (a + b) * s = a * s + b * s
         /\ a <= b => a * s <= b * s
         /\ 0 * s = 0 /\ 1 * s = s
<1>1. a * s \in Nat /\ b * s \in Nat /\ (a + b) * s = a * s + b * s
  BY SMT
<1>2. ASSUME a <= b PROVE a * s <= b * s
  <2>1. b - a \in Nat /\ b = a + (b - a)
    BY <1>2
  <2>2. (b - a) * s \in Nat /\ (a + (b - a)) * s = a * s + (b - a) * s
    BY <2>1, SMT
  <2> QED
    BY <1>1, <2>1, <2>2
<1>3. 0 * s = 0 /\ 1 * s = s
  BY SMT
<1> QED
  BY <1>1, <1>2, <1>3

(* The drive makes the sector of its registers that the driver meant. *)
LEMMA LbaKept ==
  ASSUME NEW lba \in Nat, lba < total_sectors
  PROVE  DriveLba(lba) = lba
<1>1. lba < 268435456
  BY DiskIOAssumption, SMT
<1>2. 2^4 = 16 /\ 2^8 = 256 /\ 2^16 = 65536 /\ 2^24 = 16777216
  BY SMT
<1>3. (lba % 256) + 256 * ((lba \div 256) % 256)
        + 65536 * ((lba \div 65536) % 256)
        + 16777216 * ((lba \div 16777216) % 16) = lba
  BY <1>1, SMT
<1> QED
  BY <1>2, <1>3, SMT
  DEF DriveLba, get_lba_low, get_lba_mid, get_lba_high, get_lba_highest

(* A command's sectors, as both wrappers, the commands and the drive read  *)
(* the count: at least one, no more than are left.                         *)
LEMMA Counts ==
  ASSUME NEW n \in Nat, n > 0
  PROVE  LET code == SectorCode(n) count == CommandCount(code) IN
         /\ code \in Nat /\ count \in 1 .. n
         /\ SectorsOf(code) = count /\ SectorsRead(code) = count
         /\ DriveCount(code) = count
BY Sizes DEF SectorCode, CommandCount, SectorsOf, SectorsRead, DriveCount

(* The lesser of two numbers. *)
LEMMA MinOfTwo ==
  ASSUME NEW a \in Int, NEW b \in Int
  PROVE  Min({a, b}) = IF a <= b THEN a ELSE b
<1> DEFINE m == IF a <= b THEN a ELSE b
<1>1. m \in {a, b} /\ \A y \in {a, b} : m =< y
  OBVIOUS
<1>2. ASSUME NEW x \in {a, b}, \A y \in {a, b} : x =< y PROVE x = m
  BY <1>2
<1> HIDE DEF m
<1>3. Min({a, b}) = m
  BY <1>1, <1>2 DEF Min
<1> QED
  BY <1>3 DEF m

(* The registers of a channel. *)
LEMMA Channels ==
  ASSUME NEW d \in Disks
  PROVE  /\ d \in Nat /\ Channel(d) \in {Channel(e) : e \in Disks}
         /\ 2 * Channel(d) \in Disks /\ Channel(d) \in Nat
<1>1. PICK n \in 0 .. 3 : Disks = 0 .. n
  BY DiskIOAssumption
<1> QED
  BY <1>1 DEF Channel

(* At boot the drives are at rest and the driver is in no call. *)
LEMMA InitIInv == Init => IInv
<1> SUFFICES ASSUME Init PROVE IInv
  OBVIOUS
<1>1. 0 \in Disks
  BY DiskIOAssumption
<1>2. Idle \in DriveState /\ NoCommand \in Command
  BY DEF Idle, NoCommand, DriveState, Command, Op
<1>3. \A w \in Int : \A i \in Int : Byte(w, i) \in Bytes
  BY DEF Byte, Bytes
<1>4. media \in [Disks -> [DiskBytes -> Bytes]]
  BY <1>3 DEF Init, DiskBytes
<1>5. selected \in [{Channel(d) : d \in Disks} -> Disks]
  BY Channels DEF Init
<1>6. call \in Call
  BY <1>1 DEF Init, Call, Op
<1>7. TypeOK
  BY <1>1, <1>2, <1>4, <1>5, <1>6 DEF Init, TypeOK
<1>8. CallSound /\ CommandSound /\ InStep
  BY DEF Init, CallSound, CommandSound, InStep, Flushing, InCall, InCommand
<1>9. DrivesSound
  BY DEF Init, DrivesSound, AtRest, Writing, Flushing, Idle
<1>10. TempsSound
  BY DEF Init, TempsSound, InCommand
<1> QED
  BY <1>7, <1>8, <1>9, <1>10 DEF IInv

(* Probing, the end of probing and switch_disk. *)
LEMMA SetupKeeps ==
  ASSUME IInv,
         \/ \E d \in Disks, o \in Outcomes, lba \in BOOLEAN :
               identify_drive(d, o, lba)
         \/ init_disk_driver_ends
         \/ \E d \in Disks : switch_disk(d)
  PROVE  IInv'
<1> USE DEF IInv
<1>1. /\ UNCHANGED <<media, call, ata, temps, torn, writes, late>>
      /\ pc \in {"boot", "idle"} /\ pc' \in {"boot", "idle"}
  BY DEF identify_drive, init_disk_driver_ends, switch_disk
<1>2. CommandSound' /\ InStep'
  BY <1>1 DEF CommandSound, InStep, Flushing, InCommand
<1>3. CallSound'
  BY <1>1 DEF CallSound, InCall
<1>4. TempsSound'
  BY <1>1 DEF TempsSound, InCommand
<1>5. CASE \E d \in Disks, o \in Outcomes, lba \in BOOLEAN :
              identify_drive(d, o, lba)
  <2>1. PICK d \in Disks, o \in Outcomes, lba \in BOOLEAN :
               identify_drive(d, o, lba)
    BY <1>5
  <2>2. /\ pc = "boot" /\ pc' = "boot" /\ d \notin probed
        /\ probed' = probed \cup {d} /\ curr_disk' = curr_disk
        /\ selected' = [selected EXCEPT ![Channel(d)] = d]
        /\ IF o = "ok" THEN valid' = valid \cup {d} ELSE valid' = valid
        /\ lba_disks' = IF o = "ok" /\ lba THEN lba_disks \cup {d} ELSE lba_disks
        /\ \/ drive' = drive
           \/ o = "timeout" /\ drive' = [drive EXCEPT ![d].st = "stuck"]
    BY <2>1 DEF identify_drive
  <2>3. drive[d] = Idle /\ d \notin valid
    BY <2>2 DEF DrivesSound, TypeOK
  <2>4. drive' \in [Disks -> DriveState]
    <3>1. drive \in [Disks -> DriveState] /\ drive[d] \in DriveState
      BY DEF TypeOK
    <3>2. [drive[d] EXCEPT !.st = "stuck"] \in DriveState
      BY <3>1 DEF DriveState
    <3> QED
      BY <2>2, <3>1, <3>2
  <2>5. selected' \in [{Channel(e) : e \in Disks} -> Disks]
    BY <2>2, Channels DEF TypeOK
  <2>6. TypeOK'
    <3>1. lba_disks' \subseteq valid' /\ valid' \subseteq probed'
      BY <2>2 DEF TypeOK
    <3> QED
      BY <1>1, <2>2, <2>4, <2>5, <3>1 DEF TypeOK
  <2>7. \A e \in Disks : e # d => drive'[e] = drive[e]
    BY <2>2 DEF TypeOK
  <2>8. drive'[d].st \in {"ready", "stuck"} /\ (d \in valid' => drive'[d].st = "ready")
    BY <2>2, <2>3 DEF TypeOK, Idle, DriveState
  <2>9. \A e \in Disks : /\ drive'[e].st \in {"ready", "stuck"}
                         /\ e \in valid' => drive'[e].st = "ready"
    BY <2>2, <2>7, <2>8 DEF DrivesSound
  <2>10. \A e \in Disks \ probed' : drive'[e] = Idle
    BY <2>2, <2>7 DEF DrivesSound
  <2>11. \A e \in Disks : AtRest(e)' /\ ~Writing(e)'
    BY <2>9 DEF AtRest, Flushing, Writing
  <2>12. valid' \subseteq Disks
    BY <2>6 DEF TypeOK
  <2>13. DrivesSound'
    BY <2>2, <2>9, <2>10, <2>11, <2>12 DEF DrivesSound
  <2> QED
    BY <1>2, <1>3, <1>4, <2>6, <2>13
<1>6. CASE init_disk_driver_ends \/ \E d \in Disks : switch_disk(d)
  <2>1. UNCHANGED <<drive, valid, lba_disks, probed, selected>> /\ curr_disk' \in Disks
        /\ (pc' = "boot" => pc = "boot")
    BY <1>6 DEF init_disk_driver_ends, switch_disk, TypeOK
  <2>2. TypeOK'
    BY <1>1, <2>1 DEF TypeOK
  <2>3. \A d \in Disks : (AtRest(d)' = AtRest(d)) /\ (Writing(d)' = Writing(d))
    BY <2>1 DEF AtRest, Flushing, Writing
  <2>4. DrivesSound'
    BY <1>1, <2>1, <2>3 DEF DrivesSound
  <2> QED
    BY <1>2, <1>3, <1>4, <2>2, <2>4
<1> QED
  BY <1>5, <1>6

(* Sectors of a request: disk_read rounds up, disk_write down. *)
LEMMA SectorsOfLength ==
  ASSUME NEW len \in Nat
  PROVE  LET s == sector_size
             up == (len + s - 1) \div s
             down == len \div s
         IN  /\ up \in Nat /\ down \in Nat
             /\ len <= up * s /\ (up > 0 => (up - 1) * s < len)
             /\ up = 0 => len = 0
             /\ len = down * s + (len % s) /\ len % s \in 0 .. s - 1
<1>1. ASSUME NEW s \in Nat, s >= 1, NEW x \in Nat
      PROVE  x \div s \in Nat /\ x = s * (x \div s) + (x % s) /\ x % s \in 0 .. s - 1
  BY <1>1
<1>2. ASSUME NEW s \in Nat, s >= 1, NEW q \in Nat
      PROVE  s * q = q * s /\ (q > 0 => (q - 1) * s = q * s - s)
  BY <1>2
<1> DEFINE s == sector_size
           up == (len + s - 1) \div s
           down == len \div s
<1>3. s \in Nat /\ s >= 1 /\ len + s - 1 \in Nat
  BY Sizes
<1>4. /\ up \in Nat /\ len + s - 1 = s * up + ((len + s - 1) % s)
      /\ (len + s - 1) % s \in 0 .. s - 1
  BY <1>1, <1>3
<1>5. /\ down \in Nat /\ len = s * down + (len % s) /\ len % s \in 0 .. s - 1
  BY <1>1, <1>3
<1>6. /\ s * up = up * s /\ (up > 0 => (up - 1) * s = up * s - s)
      /\ s * down = down * s /\ up * s \in Nat
  BY <1>2, <1>3, <1>4, <1>5, Products
<1>7. up = 0 => up * s = 0
  BY <1>3, Products
<1> HIDE DEF up, down, s
<1>8. /\ len <= up * s /\ (up > 0 => (up - 1) * s < len)
      /\ up = 0 => len = 0
      /\ len = down * s + (len % s)
  BY <1>3, <1>4, <1>5, <1>6, <1>7
<1> QED
  BY <1>4, <1>5, <1>8 DEF up, down, s

(* A call of disk_read or disk_write is entered. *)
LEMMA EnteredKeeps ==
  ASSUME IInv, NEW lba \in Lbas, NEW len \in Lens,
         disk_read(lba, len) \/ disk_write(lba, len)
  PROVE  IInv'
<1> USE DEF IInv
<1>1. lba \in Nat /\ len \in Nat
  BY DiskIOAssumption
<1> DEFINE sectors == call'.left
<1>2. PICK op \in {"read", "write"} :
        /\ op = "read" => call'.left = (len + sector_size - 1) \div sector_size
                          /\ writes' = writes
        /\ op = "write" => call'.left = len \div sector_size
             /\ writes' = Append(writes, [disk |-> curr_disk, lba |-> lba, len |-> len])
        /\ Entered(op, lba, len, call'.left)
  BY DEF disk_read, disk_write, Entered
<1>3. sectors \in Nat
  BY <1>1, <1>2, SectorsOfLength
<1>4. /\ pc = "idle" /\ pc' = IF curr_disk \in valid THEN "loop" ELSE "idle"
      /\ call' = [op |-> op, disk |-> curr_disk, lba |-> lba, at |-> lba,
                  len |-> len, left |-> sectors, total |-> 0, ret |-> 0,
                  buf |-> [i \in 1 .. len |->
                             IF op = "read" THEN Unset
                                            ELSE Byte(Len(writes) + 1, i - 1)]]
      /\ UNCHANGED <<media, drive, valid, lba_disks, probed, curr_disk, selected,
                     ata, temps, torn, late>>
  BY <1>2 DEF Entered
<1> HIDE DEF sectors
<1>5. /\ call'.op = op /\ call'.disk = curr_disk /\ call'.lba = lba /\ call'.at = lba
      /\ call'.len = len /\ call'.left = sectors /\ call'.total = 0 /\ call'.ret = 0
      /\ call'.buf = [i \in 1 .. len |-> IF op = "read" THEN Unset
                                            ELSE Byte(Len(writes) + 1, i - 1)]
  BY <1>4
<1>6. call'.buf \in Seq(Bytes) /\ Len(call'.buf) = len
  <2>1. Len(writes) \in Nat
    BY DEF TypeOK
  <2>2. \A i \in 1 .. len : (IF op = "read" THEN Unset
                               ELSE Byte(Len(writes) + 1, i - 1)) \in Bytes
    BY <1>1, <2>1 DEF Byte, Unset, Bytes
  <2> QED
    BY <1>1, <1>5, <2>2
<1>7. TypeOK'
  <2>1. call' \in Call
    BY <1>1, <1>3, <1>4, <1>6 DEF TypeOK, Call, Op
  <2>2. writes' \in Seq([disk : Disks, lba : Nat, len : Nat])
    <3>1. [disk |-> curr_disk, lba |-> lba, len |-> len]
            \in [disk : Disks, lba : Nat, len : Nat]
      BY <1>1 DEF TypeOK
    <3>2. writes \in Seq([disk : Disks, lba : Nat, len : Nat])
      BY DEF TypeOK
    <3>3. CASE op = "read"
      BY <1>2, <3>2, <3>3
    <3>4. CASE op = "write"
      <4>1. writes' = Append(writes, [disk |-> curr_disk, lba |-> lba, len |-> len])
        BY <1>2, <3>4
      <4> QED
        BY <3>1, <3>2, <4>1, AppendProperties
    <3> QED
      BY <3>3, <3>4
  <2> QED
    BY <1>4, <2>1, <2>2 DEF TypeOK
<1>8. CallSound'
  <2>0. pc' = "loop" => curr_disk' \in valid'
    BY <1>4
  <2> curr_disk' = curr_disk /\ pc' \in {"loop", "idle"}
    BY <1>4
  <2>1. CASE op = "read"
    <3>1. /\ len <= sectors * sector_size
          /\ sectors > 0 => (sectors - 1) * sector_size < len
          /\ sectors = 0 => len = 0
      BY <1>1, <1>2, <2>1, SectorsOfLength DEF sectors
    <3>2. lba - lba = 0 /\ 0 + sectors = sectors /\ 0 + sectors - 1 = sectors - 1
          /\ 0 * sector_size = 0
      BY <1>1, <1>3, Sizes, Products
    <3> QED
      BY <1>1, <1>3, <1>5, <1>6, <2>0, <2>1, <3>1, <3>2, Sizes DEF CallSound, InCall
  <2>2. CASE op = "write"
    <3>1. len = sectors * sector_size + (len % sector_size)
      BY <1>1, <1>2, <2>2, SectorsOfLength DEF sectors
    <3>2. lba - lba = 0 /\ 0 + sectors = sectors /\ 0 * sector_size = 0
      BY <1>1, <1>3, Sizes, Products
    <3> QED
      BY <1>1, <1>3, <1>5, <1>6, <2>0, <2>2, <3>1, <3>2, Sizes DEF CallSound, InCall
  <2> QED
    BY <2>1, <2>2
<1>9. CommandSound' /\ InStep'
  BY <1>4 DEF CommandSound, InStep, Flushing, InCommand
<1>10. DrivesSound'
  <2>1. \A d \in Disks : (AtRest(d)' = AtRest(d)) /\ (Writing(d)' = Writing(d))
    BY <1>4 DEF AtRest, Flushing, Writing
  <2> QED
    BY <1>4, <2>1 DEF DrivesSound
<1>11. TempsSound'
  BY <1>4 DEF TempsSound, InCommand
<1> QED
  BY <1>7, <1>8, <1>9, <1>10, <1>11

(* A call returns from wherever its drive is at rest, its buffer accounted *)
(* for.                                                                    *)
LEMMA ReturnFields ==
  ASSUME TypeOK, NEW n \in Nat, Return(n)
  PROVE  /\ pc' = "idle" /\ ata' = NoCommand /\ call' \in Call
         /\ call'.op = call.op /\ call'.disk = call.disk /\ call'.lba = call.lba
         /\ call'.len = call.len /\ call'.buf = call.buf /\ call'.ret = n
         /\ call'.left = 0 /\ call'.total = 0 /\ call'.at = call.lba
<1>1. call \in Call /\ call' = [call EXCEPT !.ret = n, !.left = 0, !.total = 0,
                                           !.at = call.lba]
  BY DEF TypeOK, Return
<1>2. call.lba \in Nat
  BY <1>1 DEF Call
<1>3. call' \in Call
  BY <1>1, <1>2 DEF Call
<1> QED
  BY <1>1, <1>3 DEF Return, Call

(* flush_cache starts a flush on a ready drive and does nothing to one     *)
(* that has a sector, which stays as it was.                               *)
LEMMA FlushCache ==
  ASSUME IInv, pc = "xfer", drive' = flush_cache,
         UNCHANGED <<valid, probed, curr_disk, selected>>
  PROVE  /\ drive' \in [Disks -> DriveState]
         /\ \A d \in Disks : /\ AtRest(d) => AtRest(d)'
                             /\ Writing(d)' = Writing(d)
                             /\ d # curr_disk => drive'[d] = drive[d]
         /\ \/ drive' = drive
            \/ drive[curr_disk].st = "ready" /\ Flushing(curr_disk)'
         /\ \A d \in valid : drive'[d].st = "ready" \/ selected[Channel(d)] = d
         /\ \A d \in Disks \ probed : drive'[d] = Idle
<1> DEFINE X == [st |-> "busy", op |-> "flush", lba |-> 0, left |-> 0, data |-> <<>>]
<1>1. /\ curr_disk \in Disks /\ curr_disk \in valid /\ curr_disk \in probed
      /\ drive \in [Disks -> DriveState] /\ valid \subseteq Disks
      /\ selected[Channel(curr_disk)] = curr_disk
  <2>1. curr_disk \in valid
    BY DEF IInv, CallSound, InCall
  <2>2. selected[Channel(curr_disk)] = curr_disk
    BY DEF IInv, DrivesSound
  <2> QED
    BY <2>1, <2>2 DEF IInv, TypeOK
<1>2. X \in DriveState /\ X.st = "busy" /\ X.op = "flush"
  BY DEF DriveState
<1> HIDE DEF X
<1>3. CASE drive[curr_disk].st = "ready"
  <2>1. drive' = [drive EXCEPT ![curr_disk] = X]
    BY <1>3 DEF flush_cache, X
  <2>2. /\ drive' \in [Disks -> DriveState] /\ drive'[curr_disk] = X
        /\ \A d \in Disks : d # curr_disk => drive'[d] = drive[d]
    BY <1>1, <1>2, <2>1
  <2>3. Flushing(curr_disk)' /\ ~Writing(curr_disk)' /\ ~Writing(curr_disk)
    BY <1>2, <1>3, <2>2 DEF Flushing, Writing
  <2>4. \A d \in Disks : d # curr_disk => /\ AtRest(d)' = AtRest(d)
                                          /\ Writing(d)' = Writing(d)
    BY <2>2 DEF AtRest, Flushing, Writing
  <2>5. \A d \in Disks : d = curr_disk => /\ AtRest(d)'
                                          /\ ~Writing(d)' /\ ~Writing(d)
    BY <1>2, <1>3, <2>2 DEF AtRest, Flushing, Writing
  <2>6. \A d \in valid : drive'[d].st = "ready" \/ selected[Channel(d)] = d
    <3>1. \A d \in valid : drive[d].st = "ready" \/ selected[Channel(d)] = d
      BY DEF IInv, DrivesSound
    <3> QED
      BY <1>1, <2>2, <3>1
  <2>7. \A d \in Disks \ probed : drive'[d] = Idle
    BY <1>1, <2>2 DEF IInv, DrivesSound
  <2>8. \A d \in Disks : /\ AtRest(d) => AtRest(d)'
                         /\ Writing(d)' = Writing(d)
                         /\ d # curr_disk => drive'[d] = drive[d]
    <3> TAKE d \in Disks
    <3>1. CASE d = curr_disk
      BY <2>5, <3>1 DEF Writing
    <3>2. CASE d # curr_disk
      BY <2>2, <2>4, <3>2
    <3> QED
      BY <3>1, <3>2
  <2> QED
    BY <1>3, <2>2, <2>3, <2>6, <2>7, <2>8
<1>4. CASE drive[curr_disk].st # "ready"
  <2>1. drive' = drive
    BY <1>4 DEF flush_cache
  <2>2. \A d \in Disks : (AtRest(d)' = AtRest(d)) /\ (Writing(d)' = Writing(d))
    BY <2>1 DEF AtRest, Flushing, Writing
  <2> QED
    BY <1>1, <2>1, <2>2 DEF IInv, DrivesSound
<1> QED
  BY <1>3, <1>4

(* A return from disk_read or disk_write keeps the invariant when the      *)
(* drives are at rest and the buffers are accounted for.                   *)
LEMMA ReturnKeeps ==
  ASSUME IInv, NEW n \in Nat, Return(n),
         UNCHANGED <<media, selected, settings>>,
         drive' = drive \/ (pc = "xfer" /\ drive' = flush_cache),
         pc = "xfer" => AtRest(curr_disk), pc # "boot",
         temps' \in Nat, torn' \in Nat, temps' <= torn'
  PROVE  IInv'
<1> USE DEF IInv
<1>1. UNCHANGED <<valid, lba_disks, probed, curr_disk, writes, late>>
  BY DEF settings
<1>2. /\ pc' = "idle" /\ ata' = NoCommand /\ call' \in Call
      /\ call'.len = call.len /\ call'.buf = call.buf
  BY ReturnFields
<1>3. NoCommand \in Command
  BY DEF NoCommand, Command, Op
<1>a. /\ drive' \in [Disks -> DriveState]
      /\ \A d \in Disks : (AtRest(d) => AtRest(d)') /\ (Writing(d)' = Writing(d))
      /\ \A d \in Disks : Writing(d) => drive'[d] = drive[d]
      /\ \A d \in valid : drive'[d].st = "ready" \/ selected[Channel(d)] = d
      /\ \A d \in Disks \ probed : drive'[d] = Idle
  <2>1. CASE drive' = drive
    <3>1. \A d \in Disks : (AtRest(d)' = AtRest(d)) /\ (Writing(d)' = Writing(d))
      BY <2>1 DEF AtRest, Flushing, Writing
    <3> QED
      BY <2>1, <3>1 DEF TypeOK, DrivesSound
  <2>2. CASE pc = "xfer" /\ drive' = flush_cache
    <3>1. Writing(curr_disk) => drive' = drive
      BY <2>2 DEF flush_cache, Writing
    <3> QED
      BY <1>1, <2>2, <3>1, FlushCache
  <2> QED
    BY <2>1, <2>2
<1>4. TypeOK'
  BY <1>1, <1>2, <1>3, <1>a DEF TypeOK
<1>5. CallSound' /\ CommandSound' /\ InStep'
  BY <1>2 DEF CallSound, CommandSound, InStep, InCall, InCommand
<1>6. DrivesSound'
  <2>1. \A d \in Disks : AtRest(d)'
    BY <1>a DEF DrivesSound
  <2>2. \A d \in Disks : Writing(d)' => /\ Len(drive'[d].data) = sector_size
                                        /\ drive'[d].lba < total_sectors
    BY <1>a DEF DrivesSound
  <2>3. \A d \in valid' : drive'[d].st = "ready" \/ selected'[Channel(d)] = d
    BY <1>1, <1>a
  <2>4. \A d \in Disks \ probed' : drive'[d] = Idle
    BY <1>1, <1>a
  <2> QED
    BY <1>2, <2>1, <2>2, <2>3, <2>4 DEF DrivesSound
<1>7. TempsSound'
  BY <1>2 DEF TempsSound, InCommand
<1> QED
  BY <1>4, <1>5, <1>6, <1>7

(* A command that has moved its last sector leaves its drive at rest. *)
LEMMA DoneAtRest ==
  ASSUME IInv, pc = "xfer", ata.i = ata.count
  PROVE  AtRest(curr_disk)
<1> DEFINE D == drive[curr_disk]
<1>1. /\ ata.i \in Nat /\ ata.op \in {"read", "write"}
      /\ D.st \in {"ready", "busy", "drq", "stuck"}
  BY DEF IInv, TypeOK, Command, CommandSound, InCommand, DriveState
<1>2. CASE D.st \in {"busy", "drq"} /\ ~Flushing(curr_disk)
  <2>1. D.op = "write" /\ Writing(curr_disk)
    BY <1>1, <1>2 DEF IInv, InStep, CommandSound, InCommand
  <2>2. D.left = 1
    BY <1>1, <1>2, <2>1 DEF IInv, InStep
  <2> QED
    BY <2>1, <2>2 DEF AtRest
<1> QED
  BY <1>1, <1>2 DEF AtRest

(* The ways a call returns. *)
LEMMA ReturnsKeep ==
  ASSUME IInv,
         \/ /\ pc = "loop" /\ UNCHANGED <<media, drive, temps, torn, selected, settings>>
            /\ \/ Return(call.total)
               \/ Return(call.len)
         \/ ReadTail /\ ~ata_accepts(call.at, 1)
         \/ TailDone \/ CommandFails
  PROVE  IInv'
<1>1. /\ call.total \in Nat /\ call.len \in Nat /\ temps \in Nat
      /\ torn \in Nat
  BY DEF IInv, TypeOK, Call
<1>2. CASE /\ pc = "loop" /\ UNCHANGED <<media, drive, temps, torn, selected, settings>>
           /\ Return(call.total) \/ Return(call.len)
  <2>1. temps' \in Nat /\ torn' \in Nat /\ temps' <= torn'
    BY <1>1, <1>2 DEF IInv, TempsSound, InCommand
  <2> QED
    BY <1>1, <1>2, <2>1, ReturnKeeps
<1>3. CASE ReadTail /\ ~ata_accepts(call.at, 1)
  <2>1. /\ pc = "loop" /\ temps' = temps + 1 /\ torn' = torn + 1
        /\ Return(call.total) /\ UNCHANGED <<media, drive, selected, settings>>
    BY <1>3 DEF ReadTail
  <2>2. temps' \in Nat /\ torn' \in Nat /\ temps' <= torn'
    BY <1>1, <2>1 DEF IInv, TempsSound, InCommand
  <2> QED
    BY <1>1, <2>1, <2>2, ReturnKeeps
<1>4. CASE TailDone
  <2>1. /\ pc = "xfer" /\ ata.i = ata.count /\ temps' = temps - 1 /\ Return(call.len)
        /\ drive' = flush_cache /\ UNCHANGED <<media, selected, torn, settings>>
    BY <1>4 DEF TailDone, TempsAfterTail, Succeeded
  <2>2. temps' \in Nat /\ torn' \in Nat /\ temps' <= torn'
    BY <1>1, <2>1 DEF IInv, TempsSound, InCommand
  <2>3. AtRest(curr_disk)
    BY <2>1, DoneAtRest
  <2> QED
    BY <1>1, <2>1, <2>2, <2>3, ReturnKeeps
<1>5. CASE CommandFails
  <2>1. /\ InCommand /\ temps' = TempsAfterFailure /\ Return(call.total)
        /\ torn' = IF ata.tail THEN torn + 1 ELSE torn
        /\ UNCHANGED <<media, drive, selected, settings>>
        /\ pc = "xfer" => drive[curr_disk].st \in {"stuck", "ready"}
    BY <1>5 DEF CommandFails, InCommand, PartialResult
  <2>2. temps' \in Nat /\ torn' \in Nat /\ temps' <= torn'
    <3>1. temps >= 1 /\ temps <= torn + 1
      BY <1>1, <2>1 DEF IInv, TempsSound
    <3> QED
      BY <1>1, <2>1, <3>1 DEF TempsAfterFailure
  <2>3. pc = "xfer" => AtRest(curr_disk)
    BY <2>1 DEF AtRest, Flushing
  <2>4. pc # "boot"
    BY <2>1 DEF InCommand
  <2> QED
    BY <1>1, <2>1, <2>2, <2>3, <2>4, ReturnKeeps
<1> QED
  BY <1>2, <1>3, <1>4, <1>5

(* A command is begun: the call, the drives and the media stay. *)
LEMMA BeginKeeps ==
  ASSUME IInv, pc \in {"loop", "xfer"}, pc = "xfer" => AtRest(curr_disk),
         InCall, pc' = "wait", ata' \in Command, temps' \in Nat,
         temps' = IF pc = "loop" THEN temps + 1 ELSE temps,
         CommandSound',
         UNCHANGED <<media, drive, call, selected, torn, settings>>
  PROVE  IInv'
<1>1. UNCHANGED <<valid, lba_disks, probed, curr_disk, writes, late>>
  BY DEF settings
<1>2. TypeOK'
  BY <1>1 DEF IInv, TypeOK
<1>3. CallSound' /\ InStep'
  BY <1>1 DEF IInv, CallSound, InStep, Flushing, InCall
<1>4. DrivesSound'
  <2>1. \A d \in Disks : (AtRest(d)' = AtRest(d)) /\ (Writing(d)' = Writing(d))
    BY DEF AtRest, Flushing, Writing
  <2>2. \A d \in Disks : AtRest(d)
    BY DEF IInv, DrivesSound
  <2> QED
    BY <1>1, <2>1, <2>2 DEF IInv, DrivesSound
<1>5. TempsSound'
  <2>1. temps \in Nat /\ torn \in Nat
    BY DEF IInv, TypeOK
  <2> QED
    BY <2>1 DEF IInv, TempsSound, InCommand
<1> QED
  BY <1>2, <1>3, <1>4, <1>5 DEF IInv

(* The bytes of the caller's buffer that a write's command sends. *)
LEMMA ChunkInside ==
  ASSUME IInv, InCall, call.op = "write", NEW n \in Nat, n <= call.left
  PROVE  /\ call.total + n * sector_size <= call.len
         /\ n * sector_size \in Nat
         /\ Chunk(n * sector_size) \in Seq(Bytes)
         /\ Len(Chunk(n * sector_size)) = n * sector_size
<1> DEFINE done == call.at - call.lba
           b == n * sector_size
<1>1. /\ done \in Nat /\ call.total = done * sector_size
      /\ call.len = (done + call.left) * sector_size + (call.len % sector_size)
      /\ call.left \in Nat /\ call.len \in Nat /\ call.total \in Nat
      /\ call.buf \in Seq(Bytes) /\ Len(call.buf) = call.len
  BY DEF IInv, CallSound, TypeOK, Call
<1>2. call.len % sector_size \in Nat
  <2>1. call.len % sector_size \in 0 .. sector_size - 1
    BY <1>1, SectorsOfLength
  <2> QED
    BY <2>1, Sizes
<1>3. /\ b \in Nat /\ (done + n) * sector_size = call.total + b
      /\ (done + n) * sector_size <= (done + call.left) * sector_size
      /\ (done + call.left) * sector_size \in Nat
  <2>1. done + n \in Nat /\ done + call.left \in Nat /\ done + n <= done + call.left
    BY <1>1
  <2>2. b \in Nat /\ (done + n) * sector_size = done * sector_size + b
    BY <1>1, Products, Sizes
  <2>3. /\ (done + n) * sector_size <= (done + call.left) * sector_size
        /\ (done + call.left) * sector_size \in Nat
    BY <2>1, Products, Sizes
  <2> QED
    BY <1>1, <2>2, <2>3
<1> HIDE DEF b, done
<1>4. call.total + b <= call.len
  BY <1>1, <1>2, <1>3
<1>5. \A i \in 1 .. b : call.buf[call.total + i] \in Bytes
  BY <1>1, <1>3, <1>4
<1>6. Chunk(b) \in Seq(Bytes) /\ Len(Chunk(b)) = b
  BY <1>3, <1>5 DEF Chunk
<1> QED
  BY <1>3, <1>4, <1>6 DEF b

(* The next command of a call is started, or refused. *)
LEMMA StartKeeps ==
  ASSUME IInv, NextRead \/ NextWrite
  PROVE  IInv'
<1> DEFINE code == SectorCode(call.left)
           n == CommandCount(code)
<1>1. call \in Call /\ call.left \in Nat /\ call.at \in Nat /\ temps \in Nat
  BY DEF IInv, TypeOK, Call
<1>2. PICK temp : /\ StartCommand(temp)
                  /\ \/ call.op = "read" /\ temp = <<>>
                     \/ call.op = "write" /\ temp = Chunk(SectorsOf(code) * sector_size)
  BY DEF NextRead, NextWrite
<1>3. /\ pc = "loop" /\ call.left > 0 /\ InCall
      /\ UNCHANGED <<media, drive, selected, torn, settings>>
  BY <1>2 DEF StartCommand, InCall
<1>4. code \in Nat /\ n \in 1 .. call.left /\ SectorsOf(code) = n
  BY <1>1, <1>3, Counts
<1>5. CASE ~ata_accepts(call.at, n)
  BY <1>2, <1>3, <1>5, ReturnsKeep DEF StartCommand
<1>6. CASE ata_accepts(call.at, n)
  <2>1. /\ ata' = [op |-> call.op, lba |-> call.at, code |-> code, count |-> n,
                   i |-> 0, tail |-> FALSE, flush |-> FALSE, temp |-> temp]
        /\ temps' = temps + 1 /\ pc' = "wait" /\ call' = call
    BY <1>2, <1>6 DEF StartCommand
  <2>2. call.at < total_sectors /\ n <= total_sectors - call.at
    BY <1>6 DEF ata_accepts
  <2>3. /\ temp \in Seq(Bytes)
        /\ Len(temp) = (IF call.op = "read" THEN 0 ELSE n) * sector_size
    <3>1. 0 * sector_size = 0
      BY Sizes, Products
    <3>2. CASE call.op = "read"
      BY <1>2, <3>1, <3>2
    <3>3. CASE call.op = "write"
      BY <1>2, <1>3, <1>4, <3>3, ChunkInside
    <3> QED
      BY <1>2, <3>2, <3>3
  <2> HIDE DEF n, code
  <2>4. /\ ata'.op = call.op /\ ata'.lba = call.at /\ ata'.code = code
        /\ ata'.count = n /\ ata'.i = 0 /\ ata'.tail = FALSE /\ ata'.temp = temp
    BY <2>1
  <2>5. ata' \in Command
    BY <1>1, <1>2, <1>4, <2>1, <2>3 DEF Command, Op
  <2>6. CommandSound'
    <3>1. call.op \in {"read", "write"} /\ n = CommandCount(code) /\ n \in Nat /\ n >= 1
          /\ code = SectorCode(call.left)
      BY <1>2, <1>4 DEF n, code
    <3>2. call.at + n <= total_sectors
      BY <1>1, <2>2, <3>1, Sizes
    <3> QED
      BY <1>3, <2>1, <2>3, <2>4, <3>1, <3>2 DEF CommandSound, CommandCount
  <2> QED
    BY <1>1, <1>3, <2>1, <2>5, <2>6, BeginKeeps
<1> QED
  BY <1>5, <1>6

(* The read of a write's partial last sector is started. *)
LEMMA ReadTailKeeps ==
  ASSUME IInv, ReadTail
  PROVE  IInv'
<1>1. /\ pc = "loop" /\ call.left = 0 /\ HasTail /\ temps' = temps + 1
      /\ UNCHANGED <<media, drive, selected, settings>> /\ InCall
  BY DEF ReadTail, InCall
<1>2. CASE ~ata_accepts(call.at, 1)
  BY <1>2, ReturnsKeep
<1>3. CASE ata_accepts(call.at, 1)
  <2>1. /\ ata' = [op |-> "read", lba |-> call.at, code |-> 1, count |-> 1,
                   i |-> 0, tail |-> TRUE, flush |-> FALSE, temp |-> <<>>]
        /\ pc' = "wait" /\ call' = call /\ torn' = torn
    BY <1>3 DEF ReadTail
  <2>2. /\ ata'.op = "read" /\ ata'.lba = call.at /\ ata'.code = 1
        /\ ata'.count = 1 /\ ata'.i = 0 /\ ata'.tail = TRUE /\ ata'.temp = <<>>
    BY <2>1
  <2>3. call.at \in Nat /\ temps \in Nat /\ call.at + 1 <= total_sectors
    BY <1>3, Sizes DEF ata_accepts, IInv, TypeOK, Call
  <2>4. ata' \in Command
    BY <2>1, <2>3 DEF Command, Op
  <2>5. 0 * sector_size = 0 /\ CommandCount(1) = 1 /\ HasTail'
    BY <1>1, <2>1, Sizes, Products DEF CommandCount, HasTail
  <2>6. CommandSound'
    BY <1>1, <2>1, <2>2, <2>3, <2>5 DEF CommandSound, CommandCount
  <2> QED
    BY <1>1, <2>1, <2>3, <2>4, <2>6, BeginKeeps
<1> QED
  BY <1>2, <1>3

(* What a step of a drive that is serving does to the state of the drives. *)
LEMMA ServingDrives ==
  ASSUME IInv, NEW d \in Disks, drive[d].st \in {"busy", "drq"},
         NEW X \in DriveState, drive' = [drive EXCEPT ![d] = X],
         X.st \in {"ready", "stuck"} \/ (pc = "xfer" /\ d = curr_disk),
         X.st = "busy" /\ X.op = "write" /\ X.data # <<>>
           => Len(X.data) = sector_size /\ X.lba < total_sectors,
         UNCHANGED <<pc, valid, probed, curr_disk, selected>>
  PROVE  /\ drive' \in [Disks -> DriveState] /\ drive'[d] = X
         /\ \A e \in Disks : e # d => drive'[e] = drive[e]
         /\ DrivesSound'
<1>1. /\ drive' \in [Disks -> DriveState] /\ drive'[d] = X
      /\ \A e \in Disks : e # d => drive'[e] = drive[e]
  BY DEF IInv, TypeOK
<1>2. \A e \in Disks : e # d => /\ AtRest(e)' = AtRest(e)
                                /\ Writing(e)' = Writing(e)
  BY <1>1 DEF AtRest, Flushing, Writing
<1>3. d \in probed /\ pc # "boot"
  BY DEF IInv, DrivesSound, Idle
<1>4. AtRest(d)' \/ (pc' = "xfer" /\ d = curr_disk')
  BY <1>1 DEF AtRest, Flushing
<1>5. Writing(d)' => Len(drive'[d].data) = sector_size /\ drive'[d].lba < total_sectors
  BY <1>1 DEF Writing
<1>6. d \in valid => selected[Channel(d)] = d
  BY DEF IInv, DrivesSound
<1>7. DrivesSound'
  BY <1>1, <1>2, <1>3, <1>4, <1>5, <1>6 DEF IInv, DrivesSound, TypeOK
<1> QED
  BY <1>1, <1>7

(* BSY is tested on the drive the channel served last; the drive the       *)
(* command is for is ready all the same, and so is its neighbour.          *)
LEMMA ReadyToSend ==
  ASSUME IInv, pc = "wait", BsyClear
  PROVE  /\ drive[curr_disk].st = "ready"
         /\ \A d \in valid : Channel(d) = Channel(curr_disk) => drive[d].st = "ready"
<1>1. curr_disk \in valid /\ valid \subseteq Disks
  BY DEF IInv, CallSound, InCall, TypeOK
<1>2. \A d \in valid : AtRest(d) /\ (drive[d].st = "ready" \/ selected[Channel(d)] = d)
  BY <1>1 DEF IInv, DrivesSound
<1>3. ASSUME NEW d \in valid, Channel(d) = Channel(curr_disk)
      PROVE  drive[d].st = "ready"
  BY <1>2, <1>3 DEF BsyClear, Answering, AtRest, Flushing, Writing
<1> QED
  BY <1>1, <1>3

(* The command is sent: the drive selected is the one the call is for,     *)
(* and it starts where the driver does.                                    *)
LEMMA SendKeeps ==
  ASSUME IInv, NEW op \in {"read", "write"}, SendCommand(op)
  PROVE  IInv'
<1> DEFINE X == [st |-> "busy", op |-> op, lba |-> ata.lba, left |-> ata.count,
                 data |-> <<>>]
<1>1. /\ pc = "wait" /\ ata.op = op /\ BsyClear /\ pc' = "xfer"
      /\ selected' = [selected EXCEPT ![Channel(curr_disk)] = curr_disk]
      /\ UNCHANGED <<media, call, ata, temps, torn, valid, lba_disks, probed, curr_disk,
                     writes, late>>
  BY DEF SendCommand, settings
<1>2. /\ curr_disk \in valid /\ curr_disk \in Disks /\ curr_disk \in probed
      /\ ata.lba \in Nat /\ ata.count \in Nat /\ ata.count >= 1 /\ ata.i = 0
      /\ ata.lba + ata.count <= total_sectors /\ ata.code \in Nat
      /\ ata.count = CommandCount(ata.code)
  BY <1>1 DEF IInv, CallSound, InCall, CommandSound, InCommand, TypeOK, Command
<1>3. /\ drive[curr_disk].st = "ready"
      /\ \A d \in valid : Channel(d) = Channel(curr_disk) => drive[d].st = "ready"
  BY <1>1, ReadyToSend
<1>4. DriveLba(ata.lba) = ata.lba /\ DriveCount(ata.code) = ata.count
  <2>1. ata.lba < total_sectors
    BY <1>2, Sizes
  <2> QED
    BY <1>2, <2>1, LbaKept DEF DriveCount, CommandCount
<1>5. drive' = [drive EXCEPT ![curr_disk] = X]
  BY <1>3, <1>4 DEF SendCommand
<1>6. X \in DriveState
  BY <1>2 DEF DriveState, Op
<1>7. /\ drive' \in [Disks -> DriveState] /\ drive'[curr_disk] = X
      /\ \A d \in Disks : d # curr_disk => drive'[d] = drive[d]
  BY <1>2, <1>5, <1>6 DEF IInv, TypeOK
<1>8. /\ selected' \in [{Channel(d) : d \in Disks} -> Disks]
      /\ selected'[Channel(curr_disk)] = curr_disk
      /\ \A d \in Disks : Channel(d) # Channel(curr_disk)
                            => selected'[Channel(d)] = selected[Channel(d)]
  BY <1>1, <1>2, Channels DEF IInv, TypeOK
<1>9. TypeOK'
  BY <1>1, <1>7, <1>8 DEF IInv, TypeOK
<1>10. CallSound' /\ CommandSound' /\ TempsSound'
  <2>1. CallSound'
    BY <1>1 DEF IInv, CallSound, InCall
  <2>2. CommandSound'
    BY <1>1, <1>2 DEF IInv, CommandSound, InCommand, HasTail
  <2>3. TempsSound'
    BY <1>1 DEF IInv, TempsSound, InCall, InCommand
  <2> QED
    BY <2>1, <2>2, <2>3
<1>11. DrivesSound'
  <2>1. \A d \in Disks : d # curr_disk => /\ AtRest(d)' = AtRest(d)
                                          /\ Writing(d)' = Writing(d)
    BY <1>7 DEF AtRest, Flushing, Writing
  <2>2. ~Writing(curr_disk)'
    BY <1>1, <1>7 DEF Writing
  <2>3. \A d \in valid : drive'[d].st = "ready" \/ selected'[Channel(d)] = d
    <3>1. SUFFICES ASSUME NEW d \in valid, d # curr_disk
                   PROVE  drive'[d].st = "ready" \/ selected'[Channel(d)] = d
      BY <1>8
    <3>2. d \in Disks /\ drive'[d] = drive[d]
      BY <1>7, <3>1 DEF IInv, TypeOK
    <3> QED
      BY <1>3, <1>8, <3>2 DEF IInv, DrivesSound
  <2> QED
    BY <1>1, <1>2, <1>7, <2>1, <2>2, <2>3 DEF IInv, DrivesSound
<1>12. InStep'
  <2>1. ~Writing(curr_disk)' /\ ata' = ata /\ curr_disk' = curr_disk
    BY <1>1, <1>7 DEF Writing
  <2> QED
    BY <1>1, <1>2, <1>7, <2>1 DEF InStep, Flushing
<1> QED
  BY <1>9, <1>10, <1>11, <1>12 DEF IInv

(* A sector from the drive, or to it. *)
LEMMA SectorSteps ==
  ASSUME IInv, ReadSector \/ WriteSector
  PROVE  /\ pc = "xfer" /\ ata.i < ata.count /\ ata.i \in Nat /\ ata.count \in Nat
         /\ drive[curr_disk].st = "drq" /\ drive[curr_disk] \in DriveState
         /\ curr_disk \in Disks /\ ata.op = drive[curr_disk].op
         /\ ata.lba \in Nat /\ ata.lba + ata.count <= total_sectors
         /\ ata.temp \in Seq(Bytes)
         /\ (ata.i + 1) * sector_size = ata.i * sector_size + sector_size
         /\ ata.i * sector_size \in Nat
         /\ (ata.i + 1) * sector_size <= ata.count * sector_size
         /\ UNCHANGED <<media, call, pc, temps, torn, selected, settings>>
<1>1. /\ pc = "xfer" /\ ata.i < ata.count /\ drive[curr_disk].st = "drq"
      /\ UNCHANGED <<media, call, pc, temps, torn, selected, settings>>
  BY DEF ReadSector, WriteSector
<1>2. /\ ata.i \in Nat /\ ata.count \in Nat /\ ata.lba \in Nat
      /\ ata.temp \in Seq(Bytes) /\ curr_disk \in Disks
      /\ drive[curr_disk] \in DriveState
  BY DEF IInv, TypeOK, Command
<1>3. ata.lba + ata.count <= total_sectors /\ ata.op = drive[curr_disk].op
  BY <1>1 DEF IInv, CommandSound, InCommand, InStep, Flushing
<1>4. /\ (ata.i + 1) * sector_size = ata.i * sector_size + sector_size
      /\ ata.i * sector_size \in Nat
  BY <1>2, Sizes, Products
<1>5. (ata.i + 1) * sector_size <= ata.count * sector_size
  <2>1. ata.i + 1 \in Nat /\ ata.i + 1 <= ata.count
    BY <1>1, <1>2
  <2> QED
    BY <1>2, <2>1, Sizes, Products
<1> QED
  BY <1>1, <1>2, <1>3, <1>4, <1>5

(* The driver reads a sector from the data port, or finds that the drive   *)
(* has failed.                                                             *)
LEMMA ReadSectorKeeps ==
  ASSUME IInv, ReadSector
  PROVE  IInv'
<1> DEFINE D == drive[curr_disk]
           X == IF D.left = 0 THEN Idle ELSE [D EXCEPT !.st = "busy"]
<1>1. /\ pc = "xfer" /\ ata.i < ata.count /\ ata.i \in Nat /\ ata.count \in Nat
      /\ D.st = "drq" /\ D \in DriveState /\ curr_disk \in Disks
      /\ ata.lba \in Nat /\ ata.temp \in Seq(Bytes)
      /\ (ata.i + 1) * sector_size = ata.i * sector_size + sector_size
      /\ ata.i * sector_size \in Nat
      /\ UNCHANGED <<media, call, pc, temps, torn, selected>>
      /\ UNCHANGED <<valid, lba_disks, probed, curr_disk, writes, late>>
  BY SectorSteps DEF settings
<1>2. /\ ata.op = "read" /\ ata' = [ata EXCEPT !.i = @ + 1, !.temp = @ \o D.data]
      /\ drive' = [drive EXCEPT ![curr_disk] = X]
  BY DEF ReadSector
<1>3. /\ D.op = "read" /\ D.left = ata.count - ata.i - 1
      /\ D.lba = ata.lba + ata.i + 1 /\ Len(D.data) = sector_size
      /\ D.data \in Seq(Bytes)
  BY <1>1, <1>2 DEF IInv, InStep, Flushing, DriveState
<1>4. X \in DriveState
  BY <1>1, SMTT(30) DEF DriveState, Idle, Op
<1>5. /\ D.left = 0 => X.st = "ready"
      /\ D.left # 0 => X.st = "busy" /\ X.op = "read" /\ X.lba = D.lba /\ X.left = D.left
  BY <1>1, <1>3 DEF DriveState, Idle
<1> HIDE DEF X
<1>6. /\ drive' \in [Disks -> DriveState] /\ drive'[curr_disk] = X /\ DrivesSound'
  BY <1>1, <1>2, <1>4, <1>5, ServingDrives
<1>7. /\ ata' \in Command /\ ata'.i = ata.i + 1 /\ ata'.temp = ata.temp \o D.data
      /\ ata'.op = ata.op /\ ata'.lba = ata.lba /\ ata'.count = ata.count
      /\ ata'.code = ata.code /\ ata'.tail = ata.tail
  <2>1. ata \in Command
    BY DEF IInv, TypeOK
  <2>2. ata.i + 1 \in Nat
    BY <1>1
  <2>3. ata.temp \o D.data \in Seq(Bytes)
    <3>1. ata.temp \in Seq(Bytes) /\ D.data \in Seq(Bytes)
      BY <1>1, <1>3
    <3> HIDE DEF D
    <3> QED
      BY ONLY <3>1, ConcatProperties
  <2> QED
    BY <1>2, <2>1, <2>2, <2>3 DEF Command
<1>8. TypeOK'
  BY <1>1, <1>6, <1>7 DEF IInv, TypeOK
<1>9. CallSound'
  BY <1>1 DEF IInv, CallSound, InCall
<1>10. TempsSound'
  BY <1>1 DEF IInv, TempsSound, InCall, InCommand
<1>11. CommandSound'
  <2>1. Len(ata.temp) = ata.i * sector_size
    BY <1>1, <1>2 DEF IInv, CommandSound, InCommand
  <2>2. Len(ata'.temp) = ata'.i * sector_size
    <3>1. Len(ata.temp \o D.data) = Len(ata.temp) + Len(D.data)
      BY <1>1, <1>3, ConcatProperties
    <3>2. Len(ata'.temp) = (ata.i + 1) * sector_size
      BY <1>1, <1>3, <1>7, <2>1, <3>1
    <3> QED
      BY <1>7, <3>2
  <2>3. HasTail' = HasTail /\ ata'.i <= ata'.count
    BY <1>1, <1>7 DEF HasTail
  <2> QED
    BY <1>1, <1>2, <1>7, <2>2, <2>3 DEF IInv, CommandSound, InCommand
<1>12. InStep'
  <2>1. drive'[curr_disk'] = X /\ ata'.op = "read"
    BY <1>1, <1>2, <1>6, <1>7
  <2>2. CASE D.left = 0
    BY <1>5, <2>1, <2>2 DEF InStep, Flushing
  <2>3. CASE D.left # 0
    <3>1. /\ X.st = "busy" /\ X.op = "read" /\ ata'.i < ata'.count
          /\ X.lba = ata'.lba + ata'.i /\ X.left = ata'.count - ata'.i
      <4>1. /\ ata.i < ata.count /\ ata.i \in Nat /\ ata.count \in Nat /\ ata.lba \in Nat
            /\ D.left = ata.count - ata.i - 1 /\ D.lba = ata.lba + ata.i + 1
        BY <1>1, <1>3
      <4>2. /\ ata'.i = ata.i + 1 /\ ata'.count = ata.count /\ ata'.lba = ata.lba
            /\ X.st = "busy" /\ X.op = "read" /\ X.lba = D.lba /\ X.left = D.left
        BY <1>5, <1>7, <2>3
      <4> HIDE DEF D
      <4> QED
        BY <2>3, <4>1, <4>2
    <3> QED
      BY <2>1, <3>1 DEF InStep, Flushing
  <2> QED
    BY <2>2, <2>3
<1> QED
  BY <1>6, <1>8, <1>9, <1>10, <1>11, <1>12 DEF IInv

(* The i-th sector of a buffer. *)
LEMMA SectorOfBuffer ==
  ASSUME NEW t \in Seq(Bytes), NEW i \in Nat, (i + 1) * sector_size <= Len(t)
  PROVE  LET data == SubSeq(t, i * sector_size + 1, (i + 1) * sector_size) IN
         /\ data \in Seq(Bytes) /\ Len(data) = sector_size /\ data # <<>>
         /\ \A j \in 1 .. sector_size : data[j] = t[i * sector_size + j]
<1> DEFINE a == i * sector_size
           b == (i + 1) * sector_size
<1>1. a \in Nat /\ b = a + sector_size /\ b \in Nat
  BY Sizes, Products
<1> HIDE DEF a, b
<1>2. b <= Len(t) /\ Len(t) \in Nat /\ sector_size \in Nat /\ sector_size >= 1
  BY Sizes DEF b
<1>3. /\ SubSeq(t, a + 1, b) \in Seq(Bytes) /\ Len(SubSeq(t, a + 1, b)) = sector_size
      /\ \A j \in 1 .. sector_size : SubSeq(t, a + 1, b)[j] = t[a + j]
  <2>1. a + 1 \in 1 .. Len(t) + 1 /\ b \in a .. Len(t)
    BY <1>1, <1>2
  <2>2. /\ SubSeq(t, a + 1, b) \in Seq(Bytes)
        /\ Len(SubSeq(t, a + 1, b)) = IF a + 1 <= b THEN b - (a + 1) + 1 ELSE 0
        /\ \A j \in 1 .. b - (a + 1) + 1 :
             SubSeq(t, a + 1, b)[j] = t[(a + 1) + j - 1]
    <3>1. \A k \in a + 1 .. b : t[k] \in Bytes
      BY <1>1, <1>2, <2>1
    <3>2. a + 1 \in Int /\ b \in Int
      BY <1>1
    <3> QED
      BY <3>1, <3>2, SubSeqProperties
  <2>3. a + 1 <= b /\ b - (a + 1) + 1 = sector_size
    BY <1>1, <1>2
  <2>4. ASSUME NEW j \in 1 .. sector_size PROVE (a + 1) + j - 1 = a + j
    BY <1>1, <1>2
  <2>5. Len(SubSeq(t, a + 1, b)) = sector_size
    BY <2>2, <2>3
  <2>6. \A j \in 1 .. sector_size : SubSeq(t, a + 1, b)[j] = t[a + j]
    BY <2>2, <2>3, <2>4
  <2> QED
    BY <2>2, <2>5, <2>6
<1>4. SubSeq(t, a + 1, b) # <<>>
  <2>1. Len(<<>>) = 0 /\ Len(SubSeq(t, a + 1, b)) # 0
    BY <1>2, <1>3
  <2> QED
    BY <2>1
<1> QED
  BY <1>3, <1>4 DEF a, b

(* The driver hands a sector to the data port, or finds that the drive     *)
(* has failed.                                                             *)
LEMMA WriteSectorKeeps ==
  ASSUME IInv, WriteSector
  PROVE  IInv'
<1> DEFINE D == drive[curr_disk]
           data == SubSeq(ata.temp, ata.i * sector_size + 1, (ata.i + 1) * sector_size)
           X == [D EXCEPT !.st = "busy", !.data = data]
<1>1. /\ pc = "xfer" /\ ata.i < ata.count /\ ata.i \in Nat /\ ata.count \in Nat
      /\ D.st = "drq" /\ D \in DriveState /\ curr_disk \in Disks
      /\ ata.lba \in Nat /\ ata.temp \in Seq(Bytes)
      /\ ata.lba + ata.count <= total_sectors
      /\ (ata.i + 1) * sector_size <= ata.count * sector_size
      /\ UNCHANGED <<media, call, pc, temps, torn, selected>>
      /\ UNCHANGED <<valid, lba_disks, probed, curr_disk, writes, late>>
  BY SectorSteps DEF settings
<1>2. /\ ata.op = "write" /\ ata' = [ata EXCEPT !.i = @ + 1, !.flush = TRUE]
      /\ drive' = [drive EXCEPT ![curr_disk] = X]
  BY DEF WriteSector
<1>3. Len(ata.temp) = ata.count * sector_size
  BY <1>1, <1>2 DEF IInv, CommandSound, InCommand
<1>4. data \in Seq(Bytes) /\ Len(data) = sector_size /\ data # <<>>
  BY <1>1, <1>3, SectorOfBuffer
<1> HIDE DEF data
<1>5. /\ X \in DriveState /\ X.st = "busy" /\ X.data = data /\ X.op = D.op
      /\ X.lba = D.lba /\ X.left = D.left
  BY <1>1, <1>4 DEF DriveState
<1> HIDE DEF X
<1>6. /\ D.op = "write" /\ D.lba = ata.lba + ata.i /\ D.left = ata.count - ata.i
  BY <1>1, <1>2 DEF IInv, InStep, Flushing, Writing
<1>7. D.lba < total_sectors
  BY <1>1, <1>6, Sizes
<1>8. /\ drive' \in [Disks -> DriveState] /\ drive'[curr_disk] = X /\ DrivesSound'
  BY <1>1, <1>2, <1>4, <1>5, <1>7, ServingDrives
<1>9. /\ ata' \in Command /\ ata'.i = ata.i + 1 /\ ata'.temp = ata.temp
      /\ ata'.op = ata.op /\ ata'.lba = ata.lba /\ ata'.count = ata.count
      /\ ata'.code = ata.code /\ ata'.tail = ata.tail
  <2>1. ata \in Command /\ ata.i + 1 \in Nat
    BY <1>1 DEF IInv, TypeOK
  <2> QED
    BY <1>2, <2>1 DEF Command
<1>10. TypeOK'
  BY <1>1, <1>8, <1>9 DEF IInv, TypeOK
<1>11. CallSound'
  BY <1>1 DEF IInv, CallSound, InCall
<1>12. TempsSound'
  BY <1>1 DEF IInv, TempsSound, InCall, InCommand
<1>13. CommandSound'
  <2>1. HasTail' = HasTail /\ ata'.i <= ata'.count
    BY <1>1, <1>9 DEF HasTail
  <2> QED
    BY <1>1, <1>2, <1>9, <2>1 DEF IInv, CommandSound, InCommand
<1>14. InStep'
  <2>1. Writing(curr_disk)' /\ curr_disk' = curr_disk
    BY <1>1, <1>4, <1>5, <1>6, <1>8 DEF Writing
  <2>2. /\ ata.i \in Nat /\ ata.count \in Nat /\ ata.lba \in Nat
        /\ drive'[curr_disk'].op = "write" /\ ata'.op = "write"
        /\ drive'[curr_disk'].lba = ata.lba + ata.i
        /\ drive'[curr_disk'].left = ata.count - ata.i
    BY <1>1, <1>2, <1>5, <1>6, <1>8, <1>9, <2>1
  <2>3. /\ ata'.i >= 1 /\ drive'[curr_disk'].lba = ata'.lba + ata'.i - 1
        /\ drive'[curr_disk'].left = ata'.count - ata'.i + 1
    BY <1>9, <2>2
  <2> QED
    BY <2>1, <2>2, <2>3 DEF InStep, Flushing
<1> QED
  BY <1>8, <1>10, <1>11, <1>12, <1>13, <1>14 DEF IInv

(* flush_cache after a sector: the drive starts a flush, ignores it or     *)
(* drops the write.                                                        *)
LEMMA FlushSectorKeeps ==
  ASSUME IInv, FlushSector
  PROVE  /\ IInv' /\ pc = "xfer" /\ pc' = "xfer"
         /\ UNCHANGED <<media, call, temps, torn, selected, settings>>
         /\ ata'.op = ata.op /\ ata'.lba = ata.lba /\ ata'.count = ata.count
         /\ ata'.i = ata.i /\ ata'.temp = ata.temp
         /\ \A d \in Disks : /\ d # curr_disk => drive'[d] = drive[d]
                             /\ Writing(d)' = Writing(d)
                             /\ Writing(d) => drive'[d] = drive[d]
         /\ \/ drive' = drive
            \/ drive[curr_disk].st = "ready" /\ Flushing(curr_disk)'
            \/ drive[curr_disk].st = "drq" /\ drive'[curr_disk].st = "ready"
<1>1. /\ pc = "xfer" /\ pc' = "xfer" /\ ata' = [ata EXCEPT !.flush = FALSE]
      /\ UNCHANGED <<media, call, temps, torn, selected, settings>>
      /\ UNCHANGED <<valid, lba_disks, probed, curr_disk, writes, late>>
  BY DEF FlushSector, settings
<1>2. /\ ata' \in Command /\ ata'.op = ata.op /\ ata'.lba = ata.lba
      /\ ata'.count = ata.count /\ ata'.code = ata.code /\ ata'.tail = ata.tail
      /\ ata'.i = ata.i /\ ata'.temp = ata.temp
  BY <1>1 DEF IInv, TypeOK, Command
<1>3. curr_disk \in Disks /\ drive \in [Disks -> DriveState]
  BY DEF IInv, TypeOK
<1>4. CallSound' /\ CommandSound' /\ TempsSound'
  <2>1. CallSound'
    BY <1>1 DEF IInv, CallSound, InCall
  <2>2. CommandSound'
    BY <1>1, <1>2 DEF IInv, CommandSound, InCommand, HasTail
  <2>3. TempsSound'
    BY <1>1 DEF IInv, TempsSound, InCommand
  <2> QED
    BY <2>1, <2>2, <2>3
<1>5. ASSUME drive' \in [Disks -> DriveState], DrivesSound', InStep'
      PROVE  IInv'
  <2>1. TypeOK'
    BY <1>1, <1>2, <1>5 DEF IInv, TypeOK
  <2> QED
    BY <1>4, <1>5, <2>1 DEF IInv
<1>6. CASE drive' = flush_cache
  <2>1. /\ drive' \in [Disks -> DriveState]
        /\ \A d \in Disks : /\ AtRest(d) => AtRest(d)'
                            /\ Writing(d)' = Writing(d)
                            /\ d # curr_disk => drive'[d] = drive[d]
        /\ \/ drive' = drive
           \/ drive[curr_disk].st = "ready" /\ Flushing(curr_disk)'
        /\ \A d \in valid : drive'[d].st = "ready" \/ selected[Channel(d)] = d
        /\ \A d \in Disks \ probed : drive'[d] = Idle
    BY <1>1, <1>6, FlushCache
  <2>2. \A d \in Disks : Writing(d) => drive'[d] = drive[d]
    BY <1>6, <2>1 DEF flush_cache, Writing
  <2>3. DrivesSound'
    BY <1>1, <2>1, <2>2 DEF IInv, DrivesSound
  <2>4. InStep'
    <3>1. CASE drive' = drive
      BY <1>1, <1>2, <3>1 DEF IInv, InStep, Flushing, Writing
    <3>2. CASE Flushing(curr_disk)'
      BY <3>2 DEF InStep
    <3> QED
      BY <2>1, <3>1, <3>2
  <2> QED
    BY <1>1, <1>2, <1>5, <2>1, <2>2, <2>3, <2>4
<1>7. CASE /\ drive[curr_disk].st = "drq"
           /\ drive' = [drive EXCEPT ![curr_disk] = Idle]
  <2>1. Idle \in DriveState /\ Idle.st = "ready"
    BY DEF Idle, DriveState, Op
  <2>2. /\ drive' \in [Disks -> DriveState] /\ drive'[curr_disk] = Idle
        /\ \A e \in Disks : e # curr_disk => drive'[e] = drive[e]
        /\ DrivesSound'
    BY <1>1, <1>3, <1>7, <2>1, ServingDrives
  <2>3. InStep'
    BY <1>1, <2>1, <2>2 DEF InStep
  <2>4. \A d \in Disks : (Writing(d)' = Writing(d)) /\ (Writing(d) => d # curr_disk)
    BY <1>7, <2>1, <2>2 DEF Writing
  <2> QED
    BY <1>1, <1>2, <1>5, <1>7, <2>1, <2>2, <2>3, <2>4
<1> QED
  BY <1>6, <1>7 DEF FlushSector

(* A command of a call's loop has moved all its sectors: the numbers. *)
LEMMA CommandDone ==
  ASSUME IInv, NEW op, Succeeded(op, FALSE)
  PROVE  LET n == ata.count
             done == call.at - call.lba
         IN  /\ pc = "xfer" /\ op \in {"read", "write"} /\ call.op = op
             /\ SectorsRead(SectorCode(call.left)) = n
             /\ SectorsOf(SectorCode(call.left)) = n
             /\ call.left \in Nat /\ n \in 1 .. call.left /\ done \in Nat
             /\ call.at \in Nat /\ call.lba \in Nat
             /\ call.total \in Nat /\ call.len \in Nat /\ call.total = done * sector_size
             /\ n * sector_size \in Nat /\ (done + n) * sector_size = call.total + n * sector_size
             /\ ata.temp \in Seq(Bytes) /\ Len(ata.temp) = n * sector_size
             /\ call.buf \in Seq(Bytes) /\ Len(call.buf) = call.len
             /\ call \in Call /\ temps \in Nat /\ temps >= 1
<1>1. /\ pc = "xfer" /\ ata.i = ata.count /\ ata.op = op /\ ata.tail = FALSE
  BY DEF Succeeded
<1>2. /\ call \in Call /\ temps \in Nat /\ ata.count \in Nat /\ ata.temp \in Seq(Bytes)
      /\ call.left \in Nat /\ call.at \in Nat /\ call.lba \in Nat
      /\ call.total \in Nat /\ call.len \in Nat /\ call.buf \in Seq(Bytes)
  BY DEF IInv, TypeOK, Call, Command
<1>3. /\ op \in {"read", "write"} /\ call.op = op /\ call.left > 0
      /\ ata.code = SectorCode(call.left) /\ ata.count = CommandCount(ata.code)
      /\ Len(ata.temp) = ata.count * sector_size
  BY <1>1 DEF IInv, CommandSound, InCommand
<1>4. /\ ata.count \in 1 .. call.left /\ SectorsRead(SectorCode(call.left)) = ata.count
      /\ SectorsOf(SectorCode(call.left)) = ata.count
  BY <1>2, <1>3, Counts
<1>5. /\ Len(call.buf) = call.len /\ call.at - call.lba \in Nat
      /\ call.total = (call.at - call.lba) * sector_size
  BY <1>1, <1>2, <1>3 DEF IInv, CallSound, InCall
<1>6. /\ ata.count * sector_size \in Nat
      /\ (call.at - call.lba + ata.count) * sector_size
           = call.total + ata.count * sector_size
  <2> DEFINE done == call.at - call.lba
  <2>1. done \in Nat /\ call.total = done * sector_size
    BY <1>5
  <2> HIDE DEF done
  <2>2. /\ ata.count * sector_size \in Nat
        /\ (done + ata.count) * sector_size = call.total + ata.count * sector_size
    BY <1>2, <2>1, Sizes, Products, SMTT(30)
  <2> QED
    BY <2>2 DEF done
<1>7. temps >= 1
  BY <1>1 DEF IInv, TempsSound, InCommand
<1> QED
  BY <1>1, <1>2, <1>3, <1>4, <1>5, <1>6, <1>7

(* The bytes disk_read takes: whole sectors until the last command. *)
LEMMA BytesTaken ==
  ASSUME IInv, Succeeded("read", FALSE)
  PROVE  LET n == ata.count b == BytesMoved(n) IN
         /\ b \in Nat /\ b <= n * sector_size /\ call.total + b <= call.len
         /\ n < call.left => b = n * sector_size
         /\ n = call.left => call.total + b = call.len
<1> DEFINE n == ata.count
           done == call.at - call.lba
<1>1. /\ pc = "xfer" /\ call.op = "read" /\ call.left \in Nat /\ n \in 1 .. call.left
      /\ done \in Nat /\ call.total \in Nat /\ call.len \in Nat
      /\ n * sector_size \in Nat /\ (done + n) * sector_size = call.total + n * sector_size
      /\ call.total = done * sector_size
  BY CommandDone
<1>2. /\ (done + call.left - 1) * sector_size < call.len
      /\ call.len <= (done + call.left) * sector_size
  BY <1>1 DEF IInv, CallSound, InCall
<1>3. call.total <= call.len /\ (done + call.left - 1) * sector_size \in Nat
  <2>1. done + call.left - 1 \in Nat /\ done <= done + call.left - 1
    BY <1>1
  <2>2. done * sector_size <= (done + call.left - 1) * sector_size
        /\ (done + call.left - 1) * sector_size \in Nat
    BY <1>1, <2>1, Sizes, Products
  <2> QED
    BY <1>1, <1>2, <2>2
<1>4. BytesMoved(n) = IF n * sector_size <= call.len - call.total
                        THEN n * sector_size ELSE call.len - call.total
  BY <1>1, MinOfTwo DEF BytesMoved
<1>5. ASSUME n < call.left PROVE n * sector_size <= call.len - call.total
  <2>1. done + n \in Nat /\ done + call.left - 1 \in Nat /\ done + n <= done + call.left - 1
    BY <1>1, <1>5
  <2>2. (done + n) * sector_size <= (done + call.left - 1) * sector_size
    BY <2>1, Sizes, Products
  <2> QED
    BY <1>1, <1>2, <1>3, <2>2
<1>6. ASSUME n = call.left PROVE call.len - call.total <= n * sector_size
  BY <1>1, <1>2, <1>6
<1> HIDE DEF n, done
<1>7. /\ BytesMoved(n) \in Nat /\ BytesMoved(n) <= n * sector_size
      /\ call.total + BytesMoved(n) <= call.len
  BY <1>1, <1>3, <1>4
<1>8. n < call.left => BytesMoved(n) = n * sector_size
  BY <1>4, <1>5
<1>9. n = call.left => call.total + BytesMoved(n) = call.len
  BY <1>1, <1>3, <1>4, <1>6
<1> QED
  BY <1>7, <1>8, <1>9 DEF n

(* The wrapper's loop goes on. *)
LEMMA AdvanceKeeps ==
  ASSUME IInv, ReadDone \/ WriteDone
  PROVE  /\ IInv' /\ UNCHANGED <<media, drive, ata, selected, torn, settings>>
         /\ pc' = "loop"
         /\ AtRest(curr_disk)
         /\ call'.op = call.op /\ call'.disk = call.disk /\ call'.lba = call.lba
         /\ call'.len = call.len
         /\ call'.total = call.total + IF call.op = "read" THEN BytesMoved(ata.count)
                                                          ELSE ata.count * sector_size
         /\ call'.buf = IF call.op = "read" THEN Copied(BytesMoved(ata.count))
                                            ELSE call.buf
<1> DEFINE n == ata.count
           done == call.at - call.lba
           bytes == IF call.op = "read" THEN BytesMoved(n) ELSE n * sector_size
           buf == IF call.op = "read" THEN Copied(BytesMoved(n)) ELSE call.buf
<1>1. PICK op \in {"read", "write"} : Succeeded(op, FALSE)
  BY DEF ReadDone, WriteDone
<1>2. /\ pc = "xfer" /\ call.op = op
      /\ SectorsRead(SectorCode(call.left)) = n
      /\ SectorsOf(SectorCode(call.left)) = n
      /\ call.left \in Nat /\ n \in 1 .. call.left /\ done \in Nat
      /\ call.at \in Nat /\ call.lba \in Nat
      /\ call.total \in Nat /\ call.len \in Nat /\ call.total = done * sector_size
      /\ n * sector_size \in Nat /\ (done + n) * sector_size = call.total + n * sector_size
      /\ ata.temp \in Seq(Bytes) /\ Len(ata.temp) = n * sector_size
      /\ call.buf \in Seq(Bytes) /\ Len(call.buf) = call.len
      /\ call \in Call /\ temps \in Nat /\ temps >= 1
  BY <1>1, CommandDone
<1>3. Advance(n, bytes, buf)
  <2>1. op = "read" => ReadDone
    BY <1>1 DEF ReadDone, WriteDone, Succeeded
  <2>2. op = "write" => WriteDone
    BY <1>1 DEF ReadDone, WriteDone, Succeeded
  <2> QED
    BY <1>2, <2>1, <2>2 DEF ReadDone, WriteDone
<1>4. /\ call' = [call EXCEPT !.buf = buf, !.total = @ + bytes, !.left = @ - n, !.at = @ + n]
      /\ temps' = temps - 1 /\ pc' = "loop"
      /\ UNCHANGED <<media, drive, ata, selected, torn, settings>>
  BY <1>3 DEF Advance
<1>5. bytes \in Nat
  <2>1. CASE op = "read"
    BY <1>1, <1>2, <2>1, BytesTaken
  <2> QED
    BY <1>2, <2>1
<1>6. buf \in Seq(Bytes) /\ Len(buf) = call.len
  <2>1. CASE op = "read"
    <3>1. bytes = BytesMoved(n) /\ bytes <= n * sector_size
      BY <1>1, <1>2, <2>1, BytesTaken
    <3>a. bytes <= Len(ata.temp) /\ Len(ata.temp) \in Nat
      BY <1>2, <3>1
    <3>b. call.len \in Nat /\ call.total \in Nat /\ bytes \in Nat
      BY <1>2, <1>5
    <3> HIDE DEF n, bytes
    <3>2. \A i \in 1 .. call.len :
            (IF i \in call.total + 1 .. call.total + bytes
               THEN ata.temp[i - call.total] ELSE call.buf[i]) \in Bytes
      <4> SUFFICES ASSUME NEW i \in 1 .. call.len
                   PROVE  (IF i \in call.total + 1 .. call.total + bytes
                             THEN ata.temp[i - call.total] ELSE call.buf[i]) \in Bytes
        OBVIOUS
      <4>1. call.buf[i] \in Bytes
        BY <1>2
      <4>2. ASSUME i \in call.total + 1 .. call.total + bytes
            PROVE  ata.temp[i - call.total] \in Bytes
        <5>1. i - call.total \in 1 .. Len(ata.temp)
          BY <3>a, <3>b, <4>2
        <5> QED
          BY <1>2, <5>1
      <4> QED
        BY <4>1, <4>2
    <3>3. Copied(bytes) \in Seq(Bytes) /\ Len(Copied(bytes)) = call.len
      BY <3>b, <3>2 DEF Copied
    <3> QED
      BY <1>2, <2>1, <3>1, <3>3
  <2>2. CASE op = "write"
    BY <1>2, <2>2
  <2> QED
    BY <2>1, <2>2
<1>a. /\ call.left \in Nat /\ n \in Nat /\ n >= 1 /\ n <= call.left /\ call.at \in Nat
      /\ call.lba \in Nat /\ call.total \in Nat /\ call.len \in Nat /\ temps \in Nat
      /\ temps >= 1 /\ done \in Nat /\ call.at - call.lba = done
  BY <1>2
<1> HIDE DEF bytes, buf, n, done
<1>7. /\ call'.op = call.op /\ call'.disk = call.disk /\ call'.lba = call.lba
      /\ call'.len = call.len /\ call'.ret = call.ret /\ call'.buf = buf
      /\ call'.total = call.total + bytes /\ call'.left = call.left - n
      /\ call'.at = call.at + n
  BY <1>2, <1>4 DEF Call
<1>8. call' \in Call
  <2>1. call.total + bytes \in Nat /\ call.left - n \in Nat /\ call.at + n \in Nat
    BY <1>a, <1>5
  <2> QED
    BY <1>2, <1>4, <1>6, <2>1 DEF Call
<1>9. UNCHANGED <<media, drive, ata, selected, valid, lba_disks, probed, curr_disk,
                  writes, late>>
  BY <1>4 DEF settings
<1>10. AtRest(curr_disk)
  BY <1>1, DoneAtRest DEF Succeeded
<1>11. TypeOK'
  <2>1. temps' \in Nat
    BY <1>a, <1>4
  <2> QED
    BY <1>4, <1>8, <1>9, <2>1 DEF IInv, TypeOK
<1>12. CallSound'
  <2>1. call'.at - call'.lba = done + n /\ (done + n) + (call.left - n) = done + call.left
        /\ done + n \in Nat
    BY <1>a, <1>7
  <2>2. /\ call.disk = curr_disk /\ curr_disk \in valid /\ call.ret = 0
    BY <1>2 DEF IInv, CallSound, InCall
  <2>3. CASE op = "read"
    <3>1. /\ bytes = BytesMoved(n)
          /\ n < call.left => bytes = n * sector_size
          /\ n = call.left => call.total + bytes = call.len
      BY <1>1, <1>2, <2>3, BytesTaken DEF bytes, n
    <3>2. /\ (done + call.left - 1) * sector_size < call.len
          /\ call.len <= (done + call.left) * sector_size
      BY <1>2, <2>3 DEF IInv, CallSound, InCall, done
    <3>3. call'.left = 0 => call'.total = call'.len
      BY <1>2, <1>7, <3>1
    <3>4. call'.left > 0 => call'.total = (done + n) * sector_size
      BY <1>2, <1>7, <3>1
    <3>5. /\ call'.op = "read" /\ call'.left = call.left - n
          /\ (done + n) + (call.left - n) - 1 = done + call.left - 1
      BY <1>2, <1>a, <1>7, <2>3
    <3>6. /\ (call'.at - call'.lba + call'.left - 1) * sector_size < call'.len
          /\ call'.len <= (call'.at - call'.lba + call'.left) * sector_size
      BY <1>7, <2>1, <3>2, <3>5
    <3>7. /\ call'.at - call'.lba >= 0 /\ Len(call'.buf) = call'.len
          /\ call'.disk = curr_disk' /\ curr_disk' \in valid' /\ call'.ret = 0
      BY <1>a, <1>6, <1>7, <1>9, <2>1, <2>2
    <3>8. call'.left > 0 => call'.total = (call'.at - call'.lba) * sector_size
      BY <2>1, <3>4
    <3> QED
      BY <3>3, <3>5, <3>6, <3>7, <3>8 DEF CallSound
  <2>4. CASE op = "write"
    <3>1. bytes = n * sector_size
      BY <1>2, <2>4 DEF bytes
    <3>2. call.len = (done + call.left) * sector_size + (call.len % sector_size)
      BY <1>2, <2>4 DEF IInv, CallSound, InCall, done
    <3>3. call'.total = (done + n) * sector_size
      BY <1>2, <1>7, <3>1
    <3>4. call'.op = "write" /\ call'.left = call.left - n
      BY <1>2, <1>7, <2>4
    <3> QED
      BY <1>4, <1>6, <1>7, <1>9, <2>1, <2>2, <3>2, <3>3, <3>4
      DEF CallSound, InCall
  <2> QED
    BY <2>3, <2>4
<1>13. CommandSound' /\ InStep'
  BY <1>4 DEF CommandSound, InStep, Flushing, InCommand
<1>14. DrivesSound'
  <2>1. \A d \in Disks : (AtRest(d)' = AtRest(d)) /\ (Writing(d)' = Writing(d))
    BY <1>9 DEF AtRest, Flushing, Writing
  <2>2. \A d \in Disks : AtRest(d)
    BY <1>10 DEF IInv, DrivesSound
  <2> QED
    BY <1>4, <1>9, <2>1, <2>2 DEF IInv, DrivesSound
<1>15. TempsSound'
  <2>1. temps \in Nat /\ torn \in Nat /\ temps <= torn + 1
    BY <1>2 DEF IInv, TypeOK, TempsSound, InCommand
  <2> QED
    BY <1>2, <1>4, <2>1 DEF TempsSound, InCommand
<1> QED
  BY <1>4, <1>7, <1>10, <1>11, <1>12, <1>13, <1>14, <1>15 DEF IInv, bytes, buf, n

(* The partial sector is changed: what is written back, byte by byte. *)
LEMMA TailMerged ==
  ASSUME IInv, WriteTail
  PROVE  LET r == call.len % sector_size IN
         /\ pc = "xfer" /\ InCall /\ call.op = "write" /\ ata.op = "read" /\ ata.tail
         /\ ata.i = 1 /\ ata.count = 1 /\ ata.lba = call.at /\ call.left = 0 /\ HasTail
         /\ r \in 1 .. sector_size - 1 /\ call.len = call.total + r
         /\ call.total = (call.at - call.lba) * sector_size
         /\ call.total \in Nat /\ call.len \in Nat /\ call.at - call.lba \in Nat
         /\ call.at \in Nat /\ call.lba \in Nat
         /\ ata.temp \in Seq(Bytes) /\ Len(ata.temp) = sector_size
         /\ TailBuffer \in Seq(Bytes) /\ Len(TailBuffer) = sector_size
         /\ \A j \in 1 .. sector_size :
              TailBuffer[j] = IF j <= r THEN call.buf[call.total + j] ELSE ata.temp[j]
<1> DEFINE r == call.len % sector_size
           done == call.at - call.lba
<1>1. /\ pc = "xfer" /\ InCall /\ InCommand /\ ata.i = ata.count /\ ata.op = "read"
      /\ ata.tail
  BY DEF WriteTail, Succeeded, InCall, InCommand
<1>2. /\ ata.count = 1 /\ call.left = 0 /\ HasTail /\ ata.lba = call.at
      /\ Len(ata.temp) = ata.i * sector_size
  BY <1>1 DEF IInv, CommandSound
<1>3. call.op = "write" /\ r # 0
  BY <1>2 DEF HasTail
<1>4. /\ call.len \in Nat /\ call.total \in Nat /\ call.at \in Nat /\ call.lba \in Nat
      /\ call.buf \in Seq(Bytes) /\ ata.temp \in Seq(Bytes) /\ call.left \in Nat
  BY DEF IInv, TypeOK, Call, Command
<1>5. /\ done \in Nat /\ call.total = done * sector_size /\ Len(call.buf) = call.len
      /\ call.len = (done + call.left) * sector_size + r
  BY <1>1, <1>3, <1>4 DEF IInv, CallSound
<1>6. r \in 1 .. sector_size - 1
  <2>1. r \in 0 .. sector_size - 1
    BY <1>4, SectorsOfLength
  <2> QED
    BY <1>3, <2>1, Sizes
<1>7. Len(ata.temp) = sector_size /\ ata.i = 1
  BY <1>1, <1>2, Sizes, Products
<1>8. call.len = call.total + r
  <2>1. done + call.left = done
    BY <1>2, <1>5
  <2> QED
    BY <1>5, <2>1
<1> HIDE DEF r, done
<1>9. \A j \in 1 .. sector_size :
        (IF j <= r THEN call.buf[call.total + j] ELSE ata.temp[j]) \in Bytes
  <2> SUFFICES ASSUME NEW j \in 1 .. sector_size
               PROVE  (IF j <= r THEN call.buf[call.total + j] ELSE ata.temp[j]) \in Bytes
    OBVIOUS
  <2>1. ata.temp[j] \in Bytes
    BY <1>4, <1>7
  <2>2. ASSUME j <= r PROVE call.buf[call.total + j] \in Bytes
    <3>1. call.total \in Nat /\ Len(call.buf) = call.total + r
      BY <1>4, <1>5, <1>8
    <3>2. call.total + j \in 1 .. Len(call.buf)
      BY <1>6, <2>2, <3>1, Sizes
    <3> QED
      BY <1>4, <3>2
  <2> QED
    BY <2>1, <2>2
<1>10. TailBuffer = [j \in 1 .. sector_size |->
                       IF j <= r THEN call.buf[call.total + j] ELSE ata.temp[j]]
  BY DEF TailBuffer, r
<1>11. /\ TailBuffer \in Seq(Bytes) /\ Len(TailBuffer) = sector_size
       /\ \A j \in 1 .. sector_size :
            TailBuffer[j] = IF j <= r THEN call.buf[call.total + j] ELSE ata.temp[j]
  BY <1>9, <1>10, Sizes
<1> QED
  BY <1>1, <1>2, <1>3, <1>4, <1>5, <1>6, <1>7, <1>8, <1>11 DEF r, done

(* The write of a partial last sector is started once it has been read. *)
LEMMA WriteTailKeeps ==
  ASSUME IInv, WriteTail
  PROVE  /\ IInv' /\ AtRest(curr_disk) /\ pc' = "wait"
         /\ UNCHANGED <<media, drive, call, temps, torn, selected, settings>>
         /\ ata'.op = "write" /\ ata'.lba = ata.lba /\ ata'.count = 1 /\ ata'.i = 0
         /\ ata'.temp = TailBuffer /\ ata'.tail
<1>1. /\ pc = "xfer" /\ InCall /\ ata.tail /\ ata.i = 1 /\ ata.count = 1
      /\ ata.lba = call.at /\ call.left = 0 /\ HasTail
      /\ TailBuffer \in Seq(Bytes) /\ Len(TailBuffer) = sector_size
  BY TailMerged
<1>2. /\ ata' = [ata EXCEPT !.op = "write", !.i = 0, !.temp = TailBuffer]
      /\ pc' = "wait" /\ UNCHANGED <<media, drive, call, temps, torn, selected, settings>>
  BY DEF WriteTail
<1>3. ata \in Command /\ temps \in Nat
  BY DEF IInv, TypeOK
<1>4. /\ ata' \in Command /\ ata'.op = "write" /\ ata'.i = 0 /\ ata'.temp = TailBuffer
      /\ ata'.lba = ata.lba /\ ata'.count = ata.count /\ ata'.code = ata.code
      /\ ata'.tail = ata.tail
  BY <1>1, <1>2, <1>3 DEF Command, Op
<1>5. AtRest(curr_disk)
  BY <1>1, DoneAtRest
<1>6. CommandSound'
  <2>1. /\ ata.count = CommandCount(ata.code) /\ ata.lba + ata.count <= total_sectors
    BY <1>1 DEF IInv, CommandSound, InCommand
  <2>2. HasTail' /\ call' = call /\ 1 * sector_size = sector_size
    BY <1>1, <1>2, Sizes, Products DEF HasTail
  <2> QED
    BY <1>1, <1>2, <1>4, <2>1, <2>2 DEF CommandSound, CommandCount
<1>7. IInv'
  BY <1>1, <1>2, <1>3, <1>4, <1>5, <1>6, BeginKeeps
<1> QED
  BY <1>1, <1>2, <1>4, <1>5, <1>7

(* The bytes of a sector are on the disk; those of others are elsewhere.   *)
LEMMA SectorInside ==
  ASSUME NEW l \in Nat, l < total_sectors
  PROVE  /\ l * sector_size \in Nat
         /\ \A j \in 1 .. sector_size : /\ l * sector_size + j - 1 \in DiskBytes
                                        /\ l * sector_size + j - 1 \in Sector(l)
         /\ \A p \in Sector(l) : /\ p \in DiskBytes
                                 /\ p - l * sector_size + 1 \in 1 .. sector_size
<1>1. l * sector_size \in Nat /\ (l + 1) * sector_size = l * sector_size + sector_size
      /\ (l + 1) * sector_size <= total_sectors * sector_size
      /\ total_sectors * sector_size \in Nat
  <2>1. l + 1 \in Nat /\ l + 1 <= total_sectors
    BY Sizes
  <2> QED
    BY <2>1, Sizes, Products
<1> DEFINE a == l * sector_size
           e == (l + 1) * sector_size
           t == total_sectors * sector_size
<1>3. a \in Nat /\ e = a + sector_size /\ e <= t /\ t \in Nat /\ sector_size \in Nat
  BY <1>1, Sizes
<1>4. Sector(l) = a .. e - 1 /\ DiskBytes = 0 .. t - 1
  BY Zenon DEF Sector, DiskBytes
<1> HIDE DEF a, e, t
<1>5. /\ a \in Nat
      /\ \A j \in 1 .. sector_size : a + j - 1 \in DiskBytes /\ a + j - 1 \in Sector(l)
      /\ \A p \in Sector(l) : p \in DiskBytes /\ p - a + 1 \in 1 .. sector_size
  BY <1>3, <1>4
<1> QED
  BY <1>5 DEF a

(* A drive that is serving: which one it can be, and where it is. *)
LEMMA ServingWhere ==
  ASSUME IInv, NEW d \in Disks, drive[d].st = "busy"
  PROVE  /\ drive[d] \in DriveState
         /\ Writing(d) => /\ drive[d].op = "write" /\ drive[d].data \in Seq(Bytes)
                          /\ Len(drive[d].data) = sector_size
                          /\ drive[d].lba \in Nat /\ drive[d].lba < total_sectors
         /\ ~(Writing(d) /\ drive[d].left = 1) /\ drive[d].op # "flush"
              => pc = "xfer" /\ d = curr_disk
         /\ pc = "xfer" => /\ ata.i \in Nat /\ ata.count \in Nat /\ ata.lba \in Nat
                           /\ ata.lba + ata.count <= total_sectors
                           /\ ata.i <= ata.count
<1>1. drive[d] \in DriveState /\ drive[d].lba \in Nat /\ drive[d].data \in Seq(Bytes)
  BY DEF IInv, TypeOK, DriveState
<1>2. Writing(d) => /\ drive[d].op = "write" /\ Len(drive[d].data) = sector_size
                    /\ drive[d].lba < total_sectors
  BY DEF IInv, DrivesSound, Writing
<1>3. ~(Writing(d) /\ drive[d].left = 1) /\ drive[d].op # "flush"
        => pc = "xfer" /\ d = curr_disk
  BY DEF IInv, DrivesSound, AtRest, Flushing
<1>4. pc = "xfer" => /\ ata.i \in Nat /\ ata.count \in Nat /\ ata.lba \in Nat
                     /\ ata.lba + ata.count <= total_sectors /\ ata.i <= ata.count
  BY DEF IInv, TypeOK, Command, CommandSound, InCommand
<1> QED
  BY <1>1, <1>2, <1>3, <1>4

(* A step of a drive leaves the driver alone: what is left to show. *)
LEMMA DriveStepFrame ==
  ASSUME IInv, NEW d \in Disks, DriveStep(d),
         media' \in [Disks -> [DiskBytes -> Bytes]],
         drive' \in [Disks -> DriveState], DrivesSound', InStep'
  PROVE  IInv'
<1>1. UNCHANGED <<call, ata, pc, temps, torn, valid, lba_disks, probed, curr_disk,
                  selected, writes>>
  BY DEF DriveStep
<1>2. late' \in BOOLEAN
  BY Zenon DEF DriveStep, DriveErrs, IInv, TypeOK
<1>3. TypeOK'
  BY <1>1, <1>2 DEF IInv, TypeOK
<1>4. CallSound' /\ CommandSound' /\ TempsSound'
  BY <1>1 DEF IInv, CallSound, CommandSound, TempsSound, InCall, InCommand, HasTail
<1> QED
  BY <1>3, <1>4 DEF IInv

(* A step of a drive the driver is not transferring with is out of step    *)
(* with nothing.                                                           *)
LEMMA OtherDriveInStep ==
  ASSUME IInv, NEW d \in Disks, d # curr_disk,
         \A e \in Disks : e # d => drive'[e] = drive[e],
         UNCHANGED <<ata, pc, curr_disk>>
  PROVE  InStep'
<1>1. curr_disk \in Disks /\ drive'[curr_disk] = drive[curr_disk]
  BY DEF IInv, TypeOK
<1>2. Writing(curr_disk)' = Writing(curr_disk)
  BY <1>1 DEF Writing
<1> QED
  BY <1>1, <1>2 DEF IInv, InStep, Flushing, Writing

(* The drive reads a sector for the driver. *)
LEMMA DriveReadsKeeps ==
  ASSUME IInv, NEW d \in Disks, DriveReads(d), DriveStep(d)
  PROVE  /\ IInv' /\ media' = media
         /\ pc = "xfer" /\ d = curr_disk /\ ata.op = "read" /\ ata.i < ata.count
         /\ drive'[d].st = "drq" /\ drive'[d].op = "read"
         /\ \A e \in Disks : e # d => drive'[e] = drive[e]
         /\ \A j \in 1 .. sector_size :
              drive'[d].data[j] = media[d][(ata.lba + ata.i) * sector_size + j - 1]
<1> DEFINE r == drive[d]
           l == ata.lba + ata.i
           data == [j \in 1 .. sector_size |-> media[d][r.lba * sector_size + j - 1]]
           X == [r EXCEPT !.st = "drq", !.lba = r.lba + 1, !.left = r.left - 1,
                           !.data = data]
<1>1. /\ r.st = "busy" /\ r.op = "read" /\ media' = media
      /\ drive' = [drive EXCEPT ![d] = X]
      /\ UNCHANGED <<call, ata, pc, temps, torn, valid, lba_disks, probed, curr_disk,
                     selected, writes>>
  <2>1. drive' = [drive EXCEPT ![d] = X]
    BY Zenon DEF DriveReads
  <2>2. /\ r.st = "busy" /\ r.op = "read" /\ media' = media
    BY Zenon DEF DriveReads
  <2> QED
    BY <2>1, <2>2, Zenon DEF DriveStep
<1>2. /\ r \in DriveState /\ pc = "xfer" /\ d = curr_disk
      /\ ata.i \in Nat /\ ata.count \in Nat /\ ata.lba \in Nat
      /\ ata.lba + ata.count <= total_sectors
  BY <1>1, ServingWhere DEF Writing
<1>3. /\ ata.op = "read" /\ ata.i < ata.count /\ r.lba = l /\ r.left = ata.count - ata.i
  BY <1>1, <1>2 DEF IInv, InStep, Flushing
<1>4. l \in Nat /\ l < total_sectors
  BY <1>2, <1>3, Sizes
<1>5. data \in Seq(Bytes) /\ Len(data) = sector_size
      /\ \A j \in 1 .. sector_size : data[j] = media[d][l * sector_size + j - 1]
  <2>1. \A j \in 1 .. sector_size : media[d][r.lba * sector_size + j - 1] \in Bytes
    BY <1>3, <1>4, SectorInside DEF IInv, TypeOK
  <2> QED
    BY <1>3, <2>1, Sizes
<1> HIDE DEF data
<1>6. r.lba + 1 \in Nat /\ r.left - 1 \in Nat
  BY <1>2, <1>3, <1>4
<1>7. /\ X \in DriveState /\ X.st = "drq" /\ X.op = "read" /\ X.lba = l + 1
      /\ X.left = ata.count - ata.i - 1 /\ X.data = data
  BY <1>1, <1>2, <1>3, <1>5, <1>6 DEF DriveState
<1> HIDE DEF X
<1>8. /\ drive' \in [Disks -> DriveState] /\ drive'[d] = X /\ DrivesSound'
      /\ \A e \in Disks : e # d => drive'[e] = drive[e]
  BY <1>1, <1>2, <1>7, ServingDrives
<1>9. InStep'
  BY <1>1, <1>2, <1>3, <1>5, <1>7, <1>8 DEF InStep, Flushing
<1>10. IInv'
  BY <1>1, <1>8, <1>9, DriveStepFrame DEF IInv, TypeOK
<1> QED
  BY <1>1, <1>2, <1>3, <1>5, <1>7, <1>8, <1>10

(* The drive puts a sector on its media, or asks for the first one. *)
LEMMA DriveWritesKeeps ==
  ASSUME IInv, NEW d \in Disks, DriveWrites(d), DriveStep(d)
  PROVE  LET r == drive[d] IN
         /\ IInv' /\ r.st = "busy" /\ r.op = "write" /\ drive'[d].st \in {"ready", "drq"}
         /\ \A e \in Disks : e # d => drive'[e] = drive[e] /\ media'[e] = media[e]
         /\ ~Writing(d) => /\ media' = media /\ drive'[d].st = "drq"
                           /\ pc = "xfer" /\ d = curr_disk
         /\ Writing(d) =>
              /\ media'[d] = [p \in DiskBytes |->
                                IF p \in Sector(r.lba)
                                  THEN r.data[p - r.lba * sector_size + 1]
                                  ELSE media[d][p]]
              /\ drive'[d].st = "ready" => r.left = 1
              /\ drive'[d].st = "drq" => pc = "xfer" /\ d = curr_disk
<1> DEFINE r == drive[d]
           M == [p \in DiskBytes |-> IF p \in Sector(r.lba)
                                       THEN r.data[p - r.lba * sector_size + 1]
                                       ELSE media[d][p]]
<1>1. /\ r.st = "busy" /\ r.op = "write"
      /\ UNCHANGED <<call, ata, pc, temps, torn, valid, lba_disks, probed, curr_disk,
                     selected, writes>>
  BY DEF DriveWrites, DriveStep
<1>2. /\ r \in DriveState /\ r.left \in Nat /\ r.lba \in Nat
      /\ media \in [Disks -> [DiskBytes -> Bytes]]
      /\ ata.i \in Nat /\ ata.count \in Nat /\ ata.lba \in Nat
  BY DEF IInv, TypeOK, DriveState, Command
<1>3. CASE ~Writing(d)
  <2> DEFINE X == [r EXCEPT !.st = "drq"]
  <2>1. r.data = <<>> /\ pc = "xfer" /\ d = curr_disk
    BY <1>1, <1>3, ServingWhere DEF Writing
  <2>2. media' = media /\ drive' = [drive EXCEPT ![d] = X]
    BY <2>1 DEF DriveWrites
  <2>3. /\ X \in DriveState /\ X.st = "drq" /\ X.op = "write" /\ X.lba = r.lba
        /\ X.left = r.left
    BY <1>1, <1>2 DEF DriveState
  <2> HIDE DEF X
  <2>4. /\ drive' \in [Disks -> DriveState] /\ drive'[d] = X /\ DrivesSound'
        /\ \A e \in Disks : e # d => drive'[e] = drive[e]
    BY <1>1, <2>1, <2>2, <2>3, ServingDrives
  <2>5. /\ ata.op = "write" /\ ata.i < ata.count /\ r.lba = ata.lba + ata.i
        /\ r.left = ata.count - ata.i
    BY <1>1, <1>3, <2>1 DEF IInv, InStep, Flushing
  <2>6. drive'[curr_disk'] = X /\ ~Writing(curr_disk)' /\ ata' = ata
    BY <1>1, <2>1, <2>3, <2>4 DEF Writing
  <2>7. InStep'
    BY <2>3, <2>5, <2>6 DEF InStep, Flushing, Writing
  <2>8. IInv'
    BY <1>2, <2>2, <2>4, <2>7, DriveStepFrame
  <2> QED
    BY <1>1, <1>3, <2>1, <2>2, <2>3, <2>4, <2>8
<1>4. CASE Writing(d)
  <2> DEFINE X == IF r.left = 1 THEN Idle
                    ELSE [r EXCEPT !.st = "drq", !.lba = r.lba + 1, !.left = r.left - 1]
  <2>1. /\ r.data # <<>> /\ r.data \in Seq(Bytes) /\ Len(r.data) = sector_size
        /\ r.lba < total_sectors /\ (r.left # 1 => pc = "xfer" /\ d = curr_disk)
    BY <1>1, <1>4, ServingWhere DEF Writing
  <2>2. media' = [media EXCEPT ![d] = M] /\ drive' = [drive EXCEPT ![d] = X]
    BY <2>1, Zenon DEF DriveWrites
  <2>3. M \in [DiskBytes -> Bytes]
    <3>1. \A p \in Sector(r.lba) : r.data[p - r.lba * sector_size + 1] \in Bytes
      <4> SUFFICES ASSUME NEW p \in Sector(r.lba)
                   PROVE  r.data[p - r.lba * sector_size + 1] \in Bytes
        OBVIOUS
      <4>1. p - r.lba * sector_size + 1 \in 1 .. sector_size
        BY <1>2, <2>1, SectorInside
      <4> QED
        BY <2>1, <4>1
    <3>2. \A p \in DiskBytes : media[d][p] \in Bytes
      BY <1>2
    <3> QED
      BY <3>1, <3>2
  <2> HIDE DEF M
  <2>4. /\ media' \in [Disks -> [DiskBytes -> Bytes]] /\ media'[d] = M
        /\ \A e \in Disks : e # d => media'[e] = media[e]
    BY <1>2, <2>2, <2>3
  <2>5. r.left # 1 => r.left - 1 \in Nat
    <3>1. ASSUME r.left # 1 PROVE r.left >= 1
      <4>1. r.left = ata.count - ata.i + 1 /\ ata.i <= ata.count
        BY <1>1, <1>4, <2>1, <3>1, ServingWhere DEF IInv, InStep, Flushing
      <4> QED
        BY <1>2, <4>1
    <3> QED
      BY <1>2, <3>1
  <2>6. X \in DriveState
    <3>1. CASE r.left = 1
      BY <3>1 DEF Idle, DriveState, Op
    <3>2. CASE r.left # 1
      <4>1. r.lba + 1 \in Nat /\ r.left - 1 \in Nat
        BY <1>2, <2>5, <3>2
      <4> QED
        BY <1>2, <3>2, <4>1 DEF DriveState
    <3> QED
      BY <3>1, <3>2
  <2>7. /\ r.left = 1 => X.st = "ready"
        /\ r.left # 1 => /\ X.st = "drq" /\ X.op = "write" /\ X.lba = r.lba + 1
                         /\ X.left = r.left - 1
    BY <1>1, <1>2 DEF Idle, DriveState
  <2> HIDE DEF X
  <2>8. /\ drive' \in [Disks -> DriveState] /\ drive'[d] = X /\ DrivesSound'
        /\ \A e \in Disks : e # d => drive'[e] = drive[e]
    <3>1. X.st = "ready" \/ (X.st = "drq" /\ pc = "xfer" /\ d = curr_disk)
      BY <2>1, <2>7
    <3> QED
      BY <1>1, <2>2, <2>6, <3>1, ServingDrives
  <2>9. InStep'
    <3>1. CASE d # curr_disk
      BY <1>1, <2>8, <3>1, OtherDriveInStep
    <3>2. CASE d = curr_disk /\ r.left = 1
      <4>1. drive'[curr_disk'].st = "ready"
        BY <1>1, <2>7, <2>8, <3>2
      <4> QED
        BY <4>1 DEF InStep, Flushing
    <3>3. CASE d = curr_disk /\ r.left # 1
      <4>1. /\ ata.op = "write" /\ ata.i >= 1 /\ r.lba = ata.lba + ata.i - 1
            /\ r.left = ata.count - ata.i + 1 /\ ata.i <= ata.count
        BY <1>1, <1>4, <2>1, <3>3, ServingWhere DEF IInv, InStep, Flushing
      <4>2. /\ drive'[curr_disk'] = X /\ ata' = ata
            /\ X.st = "drq" /\ X.op = "write" /\ X.lba = r.lba + 1 /\ X.left = r.left - 1
        BY <1>1, <2>7, <2>8, <3>3
      <4>3. /\ ata.i < ata.count /\ X.lba = ata.lba + ata.i /\ X.left = ata.count - ata.i
        <5> HIDE DEF r
        <5> QED
          BY <1>2, <3>3, <4>1, <4>2
      <4> QED
        BY <4>1, <4>2, <4>3 DEF InStep, Flushing, Writing
    <3> QED
      BY <3>1, <3>2, <3>3
  <2>10. IInv'
    BY <2>4, <2>8, <2>9, DriveStepFrame
  <2>11. drive'[d].st \in {"ready", "drq"} /\ (drive'[d].st = "ready" => r.left = 1)
         /\ (drive'[d].st = "drq" => pc = "xfer" /\ d = curr_disk)
    BY <2>1, <2>7, <2>8
  <2> QED
    BY <1>1, <1>4, <2>4, <2>8, <2>10, <2>11 DEF M
<1> QED
  BY <1>3, <1>4

(* The drive fails, or stops answering. *)
LEMMA DriveFailsKeeps ==
  ASSUME IInv, NEW d \in Disks, DriveStep(d), DriveErrs(d) \/ DriveSticks(d)
  PROVE  /\ IInv' /\ media' = media /\ drive[d].st = "busy"
         /\ drive'[d].st \in {"ready", "stuck"}
         /\ DriveErrs(d) => drive'[d].st = "ready" /\ (late' = (late \/ OnLastSector(d)))
         /\ DriveSticks(d) => drive'[d].st = "stuck"
         /\ \A e \in Disks : e # d => drive'[e] = drive[e]
<1> DEFINE X == IF DriveErrs(d) THEN Idle ELSE [drive[d] EXCEPT !.st = "stuck"]
<1>1. /\ drive[d].st = "busy" /\ media' = media
      /\ UNCHANGED <<call, ata, pc, temps, torn, valid, lba_disks, probed, curr_disk,
                     selected, writes>>
  BY DEF DriveErrs, DriveSticks, DriveStep
<1>2. drive' = [drive EXCEPT ![d] = X]
  BY DEF DriveErrs, DriveSticks
<1>3. drive[d] \in DriveState
  BY DEF IInv, TypeOK
<1>4. X \in DriveState /\ X.st \in {"ready", "stuck"} /\ (DriveErrs(d) => X.st = "ready")
  BY <1>3 DEF DriveState, Op, Idle
<1>5. DriveErrs(d) => late' = (late \/ OnLastSector(d))
  BY DEF DriveErrs
<1>6. DriveSticks(d) => drive'[d].st = "stuck"
  BY <1>3 DEF DriveSticks, DriveState, IInv, TypeOK
<1> HIDE DEF X
<1>7. /\ drive' \in [Disks -> DriveState] /\ drive'[d] = X /\ DrivesSound'
      /\ \A e \in Disks : e # d => drive'[e] = drive[e]
  BY <1>1, <1>2, <1>4, ServingDrives
<1>8. InStep'
  <2>1. CASE d # curr_disk
    BY <1>1, <1>7, <2>1, OtherDriveInStep
  <2>2. CASE d = curr_disk
    BY <1>1, <1>4, <1>7, <2>2 DEF InStep, Flushing
  <2> QED
    BY <2>1, <2>2
<1>9. IInv'
  BY <1>1, <1>7, <1>8, DriveStepFrame DEF IInv, TypeOK
<1> QED
  BY <1>1, <1>4, <1>5, <1>6, <1>7, <1>9

(* The drive has flushed its cache. *)
LEMMA DriveFlushesKeeps ==
  ASSUME IInv, NEW d \in Disks, DriveStep(d), DriveFlushes(d)
  PROVE  /\ IInv' /\ media' = media /\ Flushing(d) /\ drive'[d].st = "ready"
         /\ ~Writing(d) /\ ~Writing(d)'
         /\ \A e \in Disks : e # d => drive'[e] = drive[e]
<1>1. /\ drive[d].st = "busy" /\ drive[d].op = "flush" /\ media' = media
      /\ drive' = [drive EXCEPT ![d] = Idle]
      /\ UNCHANGED <<call, ata, pc, temps, torn, valid, lba_disks, probed, curr_disk,
                     selected, writes>>
  BY DEF DriveFlushes, DriveStep
<1>2. Idle \in DriveState /\ Idle.st = "ready"
  BY DEF Idle, DriveState, Op
<1>3. /\ drive' \in [Disks -> DriveState] /\ drive'[d] = Idle /\ DrivesSound'
      /\ \A e \in Disks : e # d => drive'[e] = drive[e]
  BY <1>1, <1>2, ServingDrives
<1>4. InStep'
  <2>1. CASE d # curr_disk
    BY <1>1, <1>3, <2>1, OtherDriveInStep
  <2>2. CASE d = curr_disk
    BY <1>1, <1>2, <1>3, <2>2 DEF InStep
  <2> QED
    BY <2>1, <2>2
<1>5. IInv'
  BY <1>1, <1>3, <1>4, DriveStepFrame DEF IInv, TypeOK
<1> QED
  BY <1>1, <1>2, <1>3, <1>5 DEF Flushing, Writing

(* Nothing changes. *)
LEMMA StutterKeeps ==
  ASSUME IInv, UNCHANGED vars
  PROVE  IInv'
<1>1. UNCHANGED <<media, drive, valid, lba_disks, probed, curr_disk, selected, call,
                  ata, pc, temps, torn, writes, late>>
  BY DEF vars
<1>2. TypeOK'
  BY <1>1 DEF IInv, TypeOK
<1>3. CallSound' /\ CommandSound' /\ TempsSound'
  BY <1>1 DEF IInv, CallSound, CommandSound, TempsSound, InCall, InCommand, HasTail
<1>4. \A d \in Disks : (AtRest(d)' = AtRest(d)) /\ (Writing(d)' = Writing(d))
  BY <1>1 DEF AtRest, Flushing, Writing
<1>5. DrivesSound' /\ InStep'
  BY <1>1, <1>4 DEF IInv, DrivesSound, InStep, Flushing, TypeOK
<1> QED
  BY <1>2, <1>3, <1>5 DEF IInv

(* Every step keeps the driver and the drives in step. *)
LEMMA NextIInv == IInv /\ [Next]_vars => IInv'
<1> SUFFICES ASSUME IInv, [Next]_vars PROVE IInv'
  OBVIOUS
<1>1. CASE UNCHANGED vars \/ WaitsForBsy
  BY <1>1, StutterKeeps DEF WaitsForBsy
<1>2. CASE \/ \E d \in Disks, o \in Outcomes, lba \in BOOLEAN :
                identify_drive(d, o, lba)
           \/ init_disk_driver_ends
           \/ \E d \in Disks : switch_disk(d)
  BY <1>2, SetupKeeps
<1>3. CASE \E lba \in Lbas, len \in Lens : disk_read(lba, len) \/ disk_write(lba, len)
  BY <1>3, EnteredKeeps
<1>4. CASE NextRead \/ NextWrite
  BY <1>4, StartKeeps
<1>5. CASE NoBuffer \/ Finish
  BY <1>5, ReturnsKeep DEF NoBuffer, Finish
<1>6. CASE ReadTail
  BY <1>6, ReadTailKeeps
<1>7. CASE SendRead \/ SendWrite
  BY <1>7, SendKeeps DEF SendRead, SendWrite
<1>8. CASE ReadSector
  BY <1>8, ReadSectorKeeps
<1>9. CASE WriteSector
  BY <1>9, WriteSectorKeeps
<1>10. CASE ReadDone \/ WriteDone
  BY <1>10, AdvanceKeeps
<1>11. CASE WriteTail
  BY <1>11, WriteTailKeeps
<1>12. CASE TailDone \/ CommandFails
  BY <1>12, ReturnsKeep
<1>13. CASE FlushSector
  BY <1>13, FlushSectorKeeps
<1>14. CASE \E d \in Disks : DriveStep(d)
  <2>1. PICK d \in Disks : DriveStep(d)
    BY <1>14
  <2> QED
    BY <2>1, DriveReadsKeeps, DriveWritesKeeps, DriveFailsKeeps, DriveFlushesKeeps
    DEF DriveStep
<1> QED
  BY <1>1, <1>2, <1>3, <1>4, <1>5, <1>6, <1>7, <1>8, <1>9, <1>10, <1>11, <1>12, <1>13,
     <1>14
  DEF Next, Driver

(* The driver and the drives are in step in every reachable state. *)
LEMMA InductiveInvariant == Spec => []IInv
BY InitIInv, NextIInv, PTL DEF Spec

(* No call keeps a buffer but a disk_write that failed in its partial last *)
(* sector.                                                                 *)
THEOREM BuffersFreed == Spec => []TempsFreed
<1>1. IInv => TempsFreed
  BY DEF IInv, TempsSound, InCommand, TempsFreed, TypeOK
<1> QED
  BY <1>1, InductiveInvariant, PTL

(* READ and WRITE are only sent to a drive that has ended the command      *)
(* before, also a flush.                                                   *)
THEOREM CommandsMeetReadyDrive == Spec => CommandsReachReadyDrive
<1>1. IInv /\ [Next]_vars
        => [SendRead \/ SendWrite => drive[curr_disk].st = "ready"]_vars
  BY ReadyToSend DEF SendRead, SendWrite, SendCommand
<1> QED
  BY <1>1, InductiveInvariant, PTL DEF Spec, CommandsReachReadyDrive

-----------------------------------------------------------------------------
(* A byte that is in its place stays there when another write is called.   *)
LEMMA PlaceKept ==
  ASSUME TypeOK, NEW w \in [disk : Disks, lba : Nat, len : Nat],
         writes' \in {writes, Append(writes, w)},
         NEW d, NEW p, NEW b \in Bytes, PutThere(writes, d, p, b)
  PROVE  PutThere(writes, d, p, b)' /\ PutThere(writes', d, p, b)
<1>1. /\ Len(writes) \in Nat /\ Len(writes') >= Len(writes) /\ Len(writes') \in Nat
      /\ \A k \in 1 .. Len(writes) : writes'[k] = writes[k]
  <2>1. writes \in Seq([disk : Disks, lba : Nat, len : Nat])
    BY DEF TypeOK
  <2> QED
    BY <2>1
<1>2. PutThere(writes', d, p, b)
  <2>1. CASE b[1] = 0
    BY <2>1 DEF PutThere
  <2>2. CASE b[1] # 0
    <3>1. /\ b[1] \in 1 .. Len(writes) /\ writes[b[1]].disk = d
          /\ b[2] < writes[b[1]].len /\ p = writes[b[1]].lba * sector_size + b[2]
      BY <2>2 DEF PutThere
    <3>2. b[1] \in 1 .. Len(writes') /\ writes'[b[1]] = writes[b[1]]
      BY <1>1, <3>1
    <3> QED
      BY <2>2, <3>1, <3>2 DEF PutThere
  <2> QED
    BY <2>1, <2>2
<1> QED
  BY <1>2 DEF PutThere

(* Before the first write every byte is the one the disk started with. *)
LEMMA InitPlaceInv == Init => PlaceInv
<1> SUFFICES ASSUME Init PROVE PlaceInv
  OBVIOUS
<1>1. BytesWherePut
  BY DEF Init, BytesWherePut, PutThere, Byte
<1>2. WriteKnown /\ ReadingSound /\ BufferSound
  BY DEF Init, WriteKnown, ReadingSound, BufferSound, InCommand
<1>3. HandedSound
  BY DEF Init, HandedSound, Writing, Idle
<1> QED
  BY <1>1, <1>2, <1>3 DEF PlaceInv

(* A step that puts nothing on the media and hands over nothing. *)
LEMMA PlaceFrame ==
  ASSUME IInv, PlaceInv, UNCHANGED <<media, writes>>,
         \A d \in Disks : Writing(d)' => Writing(d) /\ drive'[d] = drive[d]
  PROVE  BytesWherePut' /\ HandedSound'
<1>1. BytesWherePut'
  BY DEF PlaceInv, BytesWherePut, PutThere
<1>2. HandedSound'
  <2> SUFFICES ASSUME NEW d \in Disks, Writing(d)', NEW j \in 1 .. sector_size
               PROVE  PutThere(writes', d, drive'[d].lba * sector_size + j - 1,
                               drive'[d].data[j])
    BY Zenon DEF HandedSound
  <2>1. Writing(d) /\ drive'[d] = drive[d] /\ writes' = writes
    OBVIOUS
  <2>2. PutThere(writes, d, drive[d].lba * sector_size + j - 1, drive[d].data[j])
    BY <2>1 DEF PlaceInv, HandedSound
  <2> QED
    BY <2>1, <2>2
<1> QED
  BY <1>1, <1>2

(* The last write is known as long as its call keeps its arguments. *)
LEMMA WriteKnownFrame ==
  ASSUME WriteKnown, writes' = writes, call'.op = call.op,
         call.op = "write" => /\ call'.disk = call.disk /\ call'.lba = call.lba
                              /\ call'.len = call.len /\ call'.buf = call.buf
  PROVE  WriteKnown'
BY DEF WriteKnown

(* The place of a byte of the caller's buffer. *)
LEMMA PlaceOfByte ==
  ASSUME IInv, WriteKnown, InCall, call.op = "write",
         NEW j \in Nat, j >= 1, call.total + j <= call.len
  PROVE  /\ PutThere(writes, curr_disk, call.at * sector_size + j - 1,
                     call.buf[call.total + j])
         /\ call.buf[call.total + j] = Byte(Len(writes), call.total + j - 1)
<1> DEFINE n == Len(writes)
           done == call.at - call.lba
           b == call.buf[call.total + j]
<1>1. /\ call.at \in Nat /\ call.lba \in Nat /\ call.total \in Nat /\ call.len \in Nat
      /\ n \in Nat
  BY DEF IInv, TypeOK, Call
<1>2. done \in Nat /\ call.total = done * sector_size /\ call.disk = curr_disk
  BY <1>1 DEF IInv, CallSound
<1>3. /\ n \in 1 .. n /\ writes[n].disk = curr_disk /\ writes[n].lba = call.lba
      /\ writes[n].len = call.len
      /\ \A i \in 1 .. call.len : call.buf[i] = Byte(n, i - 1)
  <2>1. n # 0
    BY DEF WriteKnown, IInv, TypeOK
  <2> QED
    BY <1>1, <1>2, <2>1 DEF WriteKnown
<1>4. call.total + j \in 1 .. call.len
  BY <1>1
<1>5. b = Byte(n, call.total + j - 1)
  <2>1. b = Byte(n, (call.total + j) - 1)
    BY <1>3, <1>4
  <2>2. (call.total + j) - 1 = call.total + j - 1
    BY <1>1
  <2> QED
    BY <2>1, <2>2
<1>6. call.at * sector_size = call.lba * sector_size + call.total
      /\ call.lba * sector_size \in Nat
  <2>1. call.lba + done = call.at
    BY <1>1
  <2> HIDE DEF done
  <2>2. (call.lba + done) * sector_size = call.lba * sector_size + done * sector_size
        /\ call.lba * sector_size \in Nat
    BY <1>1, <1>2, Sizes, Products
  <2> QED
    BY <1>2, <2>1, <2>2
<1> HIDE DEF n, b
<1>7. b[1] = n /\ b[2] = call.total + j - 1 /\ n # 0
  BY <1>3, <1>5 DEF Byte
<1>8. /\ b[2] < call.len
      /\ call.at * sector_size + j - 1 = call.lba * sector_size + b[2]
  <2> DEFINE x == call.at * sector_size
             y == call.lba * sector_size
  <2>1. x = y + call.total /\ y \in Nat
    BY <1>6
  <2> HIDE DEF x, y
  <2>2. x + j - 1 = y + b[2] /\ b[2] < call.len
    BY <1>1, <1>7, <2>1
  <2> QED
    BY <2>2 DEF x, y
<1>9. PutThere(writes, curr_disk, call.at * sector_size + j - 1, b)
  BY <1>3, <1>7, <1>8 DEF PutThere, n
<1> QED
  BY <1>5, <1>9 DEF n, b

(* A step that leaves the driver outside a command. *)
LEMMA PlaceQuiet ==
  ASSUME IInv, PlaceInv, UNCHANGED <<media, writes>>, pc' \notin {"wait", "xfer"},
         \A d \in Disks : Writing(d)' => Writing(d) /\ drive'[d] = drive[d],
         call'.op = call.op,
         call.op = "write" => /\ call'.disk = call.disk /\ call'.lba = call.lba
                              /\ call'.len = call.len /\ call'.buf = call.buf
  PROVE  PlaceInv'
<1>1. BytesWherePut' /\ HandedSound'
  BY PlaceFrame
<1>2. WriteKnown'
  BY WriteKnownFrame DEF PlaceInv
<1>3. ReadingSound' /\ BufferSound'
  BY DEF ReadingSound, BufferSound, InCommand
<1> QED
  BY <1>1, <1>2, <1>3 DEF PlaceInv

(* Probing and switch_disk put nothing on the media. *)
LEMMA PlaceSetup ==
  ASSUME IInv, PlaceInv,
         \/ \E d \in Disks, o \in Outcomes, lba \in BOOLEAN :
               identify_drive(d, o, lba)
         \/ init_disk_driver_ends
         \/ \E d \in Disks : switch_disk(d)
  PROVE  PlaceInv'
<1>1. /\ UNCHANGED <<media, call, writes>>
      /\ pc \in {"boot", "idle"} /\ pc' \in {"boot", "idle"}
  BY DEF identify_drive, init_disk_driver_ends, switch_disk
<1>2. \A e \in Disks : Writing(e)' => Writing(e) /\ drive'[e] = drive[e]
  <2>1. CASE drive' = drive
    BY <2>1 DEF Writing
  <2>2. CASE drive' # drive
    <3>1. PICK d \in Disks : drive' = [drive EXCEPT ![d].st = "stuck"]
      BY <2>2 DEF identify_drive, init_disk_driver_ends, switch_disk
    <3>2. drive \in [Disks -> DriveState] /\ drive[d] \in DriveState
      BY DEF IInv, TypeOK
    <3>3. drive'[d].st = "stuck" /\ \A e \in Disks : e # d => drive'[e] = drive[e]
      BY <3>1, <3>2 DEF DriveState
    <3> QED
      BY <3>3 DEF Writing
  <2> QED
    BY <2>1, <2>2
<1> QED
  BY <1>1, <1>2, PlaceQuiet

(* A call is entered: a write is recorded with its arguments, and the      *)
(* bytes of earlier writes are still where those put them.                 *)
LEMMA PlaceEntered ==
  ASSUME IInv, PlaceInv, NEW lba \in Lbas, NEW len \in Lens,
         disk_read(lba, len) \/ disk_write(lba, len)
  PROVE  PlaceInv'
<1>1. lba \in Nat /\ len \in Nat
  BY DiskIOAssumption
<1> DEFINE w == [disk |-> curr_disk, lba |-> lba, len |-> len]
<1>2. /\ UNCHANGED <<media, drive>> /\ pc' \in {"loop", "idle"}
  BY DEF disk_read, disk_write, Entered
<1>3. w \in [disk : Disks, lba : Nat, len : Nat]
  BY <1>1 DEF IInv, TypeOK
<1>4. \/ call'.op = "read" /\ writes' = writes
      \/ /\ writes' = Append(writes, w)
         /\ call'.op = "write" /\ call'.disk = curr_disk /\ call'.lba = lba
         /\ call'.len = len
         /\ call'.buf = [i \in 1 .. len |-> Byte(Len(writes) + 1, i - 1)]
  <2>1. CASE disk_read(lba, len)
    BY <2>1 DEF disk_read, Entered
  <2>2. CASE disk_write(lba, len)
    <3>1. /\ writes' = Append(writes, w)
          /\ call'.op = "write" /\ call'.disk = curr_disk /\ call'.lba = lba
          /\ call'.len = len
          /\ call'.buf = [i \in 1 .. len |-> IF "write" = "read" THEN Unset
                                               ELSE Byte(Len(writes) + 1, i - 1)]
      BY <2>2 DEF disk_write, Entered
    <3>2. "write" # "read"
      OBVIOUS
    <3>3. call'.buf = [i \in 1 .. len |-> Byte(Len(writes) + 1, i - 1)]
      BY <3>1, <3>2
    <3> QED
      BY <3>1, <3>3
  <2> QED
    BY <2>1, <2>2
<1> HIDE DEF w
<1>5. writes' \in {writes, Append(writes, w)}
  BY <1>4
<1>6. BytesWherePut'
  <2> SUFFICES ASSUME NEW d \in Disks, NEW p \in DiskBytes
               PROVE  PutThere(writes', d, p, media'[d][p])
    BY Zenon DEF BytesWherePut
  <2>1. media[d][p] \in Bytes /\ TypeOK
    BY DEF IInv, TypeOK
  <2>2. PutThere(writes, d, p, media[d][p])
    BY DEF PlaceInv, BytesWherePut
  <2>3. PutThere(writes', d, p, media[d][p])
    BY <1>3, <1>5, <2>1, <2>2, PlaceKept
  <2> QED
    BY <1>2, <2>3
<1>7. HandedSound'
  <2> SUFFICES ASSUME NEW d \in Disks, Writing(d)', NEW j \in 1 .. sector_size
               PROVE  PutThere(writes', d, drive'[d].lba * sector_size + j - 1,
                               drive'[d].data[j])
    BY Zenon DEF HandedSound
  <2>1. Writing(d) /\ drive' = drive /\ TypeOK
    BY <1>2 DEF Writing, IInv
  <2>2. PutThere(writes, d, drive[d].lba * sector_size + j - 1, drive[d].data[j])
    BY <2>1 DEF PlaceInv, HandedSound
  <2>3. drive[d].data[j] \in Bytes
    <3>1. drive[d].data \in Seq(Bytes) /\ Len(drive[d].data) = sector_size
      BY <2>1 DEF IInv, TypeOK, DriveState, DrivesSound
    <3> QED
      BY <3>1
  <2>4. PutThere(writes', d, drive[d].lba * sector_size + j - 1, drive[d].data[j])
    BY <1>3, <1>5, <2>1, <2>2, <2>3, PlaceKept
  <2> QED
    BY <2>1, <2>4
<1>8. WriteKnown'
  <2>1. CASE call'.op = "read"
    BY <2>1 DEF WriteKnown
  <2>2. CASE call'.op = "write"
    <3>1. writes \in Seq([disk : Disks, lba : Nat, len : Nat]) /\ writes' = Append(writes, w)
      BY <1>4, <2>2 DEF IInv, TypeOK
    <3>2. Len(writes') = Len(writes) + 1 /\ writes'[Len(writes) + 1] = w /\ writes' # <<>>
      BY <1>3, <3>1
    <3>3. \A i \in 1 .. len : call'.buf[i] = Byte(Len(writes'), i - 1)
      BY <1>4, <2>2, <3>2
    <3> QED
      BY <1>4, <2>2, <3>2, <3>3 DEF WriteKnown, w
  <2> QED
    BY <1>4, <2>1, <2>2
<1>9. ReadingSound' /\ BufferSound'
  BY <1>2 DEF ReadingSound, BufferSound, InCommand
<1> QED
  BY <1>6, <1>7, <1>8, <1>9 DEF PlaceInv

(* A call returns. *)
LEMMA PlaceReturn ==
  ASSUME IInv, PlaceInv, NEW n \in Nat, Return(n),
         UNCHANGED <<media, selected, settings>>,
         drive' = drive \/ (pc = "xfer" /\ drive' = flush_cache)
  PROVE  PlaceInv'
<1>1. writes' = writes
      /\ \A d \in Disks : Writing(d)' => Writing(d) /\ drive'[d] = drive[d]
  <2>1. writes' = writes /\ UNCHANGED <<valid, probed, curr_disk, selected>>
    BY DEF settings
  <2>2. CASE drive' = drive
    BY <2>1, <2>2 DEF Writing
  <2>3. CASE pc = "xfer" /\ drive' = flush_cache
    BY <2>1, <2>3, FlushCache DEF Writing
  <2> QED
    BY <2>1, <2>2, <2>3
<1>2. /\ pc' = "idle" /\ call'.op = call.op /\ call'.disk = call.disk
      /\ call'.lba = call.lba /\ call'.len = call.len /\ call'.buf = call.buf
  BY ReturnFields DEF IInv
<1> QED
  BY <1>1, <1>2, PlaceQuiet

(* A command is begun. *)
LEMMA PlaceStart ==
  ASSUME IInv, PlaceInv, NextRead \/ NextWrite \/ ReadTail
  PROVE  PlaceInv'
<1>1. /\ pc = "loop" /\ InCall /\ UNCHANGED <<media, drive, selected, settings>>
      /\ call.total \in Nat /\ call.left \in Nat
  BY DEF NextRead, NextWrite, ReadTail, StartCommand, InCall, IInv, TypeOK, Call
<1>2. CASE Return(call.total)
  BY <1>1, <1>2, PlaceReturn
<1>3. CASE ~Return(call.total)
  <2>1. writes' = writes /\ curr_disk' = curr_disk
        /\ \A d \in Disks : Writing(d)' = Writing(d)
    BY <1>1 DEF settings, Writing
  <2>2. pc' = "wait" /\ call' = call
    BY <1>3 DEF NextRead, NextWrite, ReadTail, StartCommand
  <2>3. BytesWherePut' /\ HandedSound' /\ WriteKnown'
    BY <1>1, <2>1, <2>2, PlaceFrame, WriteKnownFrame DEF PlaceInv
  <2>4. ReadingSound'
    BY <2>2 DEF ReadingSound
  <2>5. BufferSound'
    <3>1. SUFFICES ASSUME ata'.op = "write"
                   PROVE  \A j \in 1 .. ata'.count * sector_size :
                            PutThere(writes', curr_disk',
                                     ata'.lba * sector_size + j - 1, ata'.temp[j])
      BY Zenon DEF BufferSound
    <3> DEFINE n == CommandCount(SectorCode(call.left))
               k == n * sector_size
    <3>2. NextWrite /\ call.op = "write" /\ call.left > 0
      BY <1>3, <3>1 DEF NextRead, NextWrite, ReadTail, StartCommand
    <3>3. n \in 1 .. call.left /\ SectorsOf(SectorCode(call.left)) = n
      BY <1>1, <3>2, Counts
    <3>4. ata'.lba = call.at /\ ata'.count = n /\ ata'.temp = Chunk(k)
      BY <1>3, <3>2, <3>3 DEF NextWrite, StartCommand
    <3>5. call.total + k <= call.len /\ k \in Nat
      BY <1>1, <3>2, <3>3, ChunkInside
    <3> HIDE DEF n, k
    <3>6. ASSUME NEW j \in 1 .. k
          PROVE  PutThere(writes, curr_disk, call.at * sector_size + j - 1, Chunk(k)[j])
      <4>1. Chunk(k)[j] = call.buf[call.total + j]
        BY DEF Chunk
      <4>2. j \in Nat /\ j >= 1 /\ call.total + j <= call.len
        <5>1. call.len \in Nat
          BY DEF IInv, TypeOK, Call
        <5> QED
          BY <1>1, <3>5, <5>1
      <4>3. PutThere(writes, curr_disk, call.at * sector_size + j - 1,
                     call.buf[call.total + j])
        BY <1>1, <3>2, <4>2, PlaceOfByte DEF PlaceInv
      <4> QED
        BY <4>1, <4>3
    <3>7. ata'.count * sector_size = k
      BY <3>4 DEF k
    <3> QED
      BY <2>1, <3>4, <3>6, <3>7
  <2> QED
    BY <2>3, <2>4, <2>5 DEF PlaceInv
<1> QED
  BY <1>2, <1>3

(* The command is sent: nothing has been read or handed over yet. *)
LEMMA PlaceSend ==
  ASSUME IInv, PlaceInv, NEW op \in {"read", "write"}, SendCommand(op)
  PROVE  PlaceInv'
<1>1. /\ pc = "wait" /\ pc' = "xfer" /\ BsyClear
      /\ UNCHANGED <<media, call, ata, curr_disk, writes>> /\ curr_disk \in Disks
  BY DEF SendCommand, settings, IInv, TypeOK
<1>2. drive[curr_disk].st = "ready"
  BY <1>1, ReadyToSend
<1>3. /\ drive'[curr_disk].st = "busy" /\ drive'[curr_disk].data = <<>>
      /\ \A d \in Disks : d # curr_disk => drive'[d] = drive[d]
  BY <1>1, <1>2 DEF SendCommand, IInv, TypeOK
<1>4. \A d \in Disks : Writing(d)' => Writing(d) /\ drive'[d] = drive[d]
  BY <1>3 DEF Writing
<1>5. BytesWherePut' /\ HandedSound' /\ WriteKnown'
  BY <1>1, <1>4, PlaceFrame, WriteKnownFrame DEF PlaceInv
<1>6. ReadingSound'
  <2>1. ata.i = 0 /\ 0 * sector_size = 0
    BY <1>1, Sizes, Products DEF IInv, CommandSound, InCommand
  <2>2. ata'.i * sector_size = 0 /\ drive'[curr_disk'].st # "drq"
    BY <1>1, <1>3, <2>1
  <2> QED
    BY <2>2 DEF ReadingSound
<1>7. BufferSound'
  BY <1>1 DEF PlaceInv, BufferSound, InCommand, PutThere
<1> QED
  BY <1>5, <1>6, <1>7 DEF PlaceInv

(* A sector read goes to the end of the command's buffer. *)
LEMMA PlaceReadSector ==
  ASSUME IInv, PlaceInv, ReadSector
  PROVE  PlaceInv'
<1> DEFINE D == drive[curr_disk]
           S == sector_size
<1>1. /\ pc = "xfer" /\ ata.i \in Nat /\ ata.lba \in Nat /\ ata.temp \in Seq(Bytes)
      /\ D.st = "drq" /\ D \in DriveState /\ curr_disk \in Disks
      /\ (ata.i + 1) * S = ata.i * S + S /\ ata.i * S \in Nat
      /\ UNCHANGED <<media, call, pc, curr_disk, writes>>
  BY SectorSteps DEF settings
<1>2. /\ ata.op = "read" /\ ata' = [ata EXCEPT !.i = @ + 1, !.temp = @ \o D.data]
      /\ drive' = [drive EXCEPT ![curr_disk] =
                     IF D.left = 0 THEN Idle ELSE [D EXCEPT !.st = "busy"]]
      /\ ata \in Command
  BY DEF ReadSector, IInv, TypeOK
<1>3. D.op = "read" /\ Len(D.data) = S /\ D.data \in Seq(Bytes)
  BY <1>1, <1>2 DEF IInv, InStep, Flushing, DriveState
<1>4. /\ drive'[curr_disk].st \in {"ready", "busy"} /\ ~Writing(curr_disk)'
      /\ \A d \in Disks : d # curr_disk => drive'[d] = drive[d]
  BY <1>1, <1>2, <1>3 DEF Writing, IInv, TypeOK, DriveState, Idle
<1>5. \A d \in Disks : Writing(d)' => Writing(d) /\ drive'[d] = drive[d]
  <2> SUFFICES ASSUME NEW d \in Disks, Writing(d)'
               PROVE  Writing(d) /\ drive'[d] = drive[d]
    OBVIOUS
  <2>1. d # curr_disk
    BY <1>1, <1>4 DEF Writing
  <2>2. drive'[d] = drive[d]
    BY <1>4, <2>1
  <2> QED
    BY <2>2 DEF Writing
<1>6. BytesWherePut' /\ HandedSound' /\ WriteKnown'
  BY <1>1, <1>5, PlaceFrame, WriteKnownFrame DEF PlaceInv
<1>7. /\ ata'.op = "read" /\ ata'.i = ata.i + 1 /\ ata'.lba = ata.lba
      /\ ata'.temp = ata.temp \o D.data
  BY <1>2 DEF Command
<1>8. Len(ata.temp) = ata.i * S
  BY <1>1, <1>2 DEF IInv, CommandSound, InCommand
<1>9. (ata.lba + ata.i) * S = ata.lba * S + ata.i * S /\ ata.lba * S \in Nat
  BY <1>1, Sizes, Products, SMTT(30)
<1>10. /\ \A j \in 1 .. ata.i * S : ata.temp[j] = media[curr_disk][ata.lba * S + j - 1]
       /\ \A j \in 1 .. S : D.data[j] = media[curr_disk][(ata.lba + ata.i) * S + j - 1]
  BY <1>1, <1>2 DEF PlaceInv, ReadingSound
<1>11. \A j \in 1 .. (ata.i + 1) * S :
         (ata.temp \o D.data)[j] = media[curr_disk][ata.lba * S + j - 1]
  <2> DEFINE k == ata.i * S
             m == ata.lba * S
             q == (ata.lba + ata.i) * S
             f == media[curr_disk]
             u == D.data
             t == ata.temp
  <2>1. /\ m \in Nat /\ q = m + k /\ (ata.i + 1) * S = k + S /\ k \in Nat /\ S \in Nat
        /\ Len(t) = k /\ Len(u) = S /\ u \in Seq(Bytes) /\ t \in Seq(Bytes)
    BY <1>1, <1>3, <1>8, <1>9, Sizes
  <2>2. /\ \A i \in 1 .. k : t[i] = f[m + i - 1]
        /\ \A i \in 1 .. S : u[i] = f[q + i - 1]
    BY <1>10
  <2> HIDE DEF k, m, q, S, f, u, t
  <2>3. ASSUME NEW j \in 1 .. k + S PROVE (t \o u)[j] = f[m + j - 1]
    <3>1. (t \o u)[j] = IF j <= k THEN t[j] ELSE u[j - k]
      BY <2>1, <2>3, ConcatProperties
    <3>2. CASE j <= k
      BY <2>1, <2>2, <3>1, <3>2
    <3>3. CASE j > k
      <4>1. j - k \in 1 .. S /\ q + (j - k) - 1 = m + j - 1
        BY <2>1, <3>3
      <4>2. u[j - k] = f[q + (j - k) - 1]
        BY <2>2, <4>1
      <4> QED
        BY <2>1, <3>1, <3>3, <4>1, <4>2
    <3> QED
      BY <2>1, <3>2, <3>3
  <2> QED
    BY <2>1, <2>3 DEF u, f, m, t
<1>12. ReadingSound'
  BY <1>1, <1>4, <1>7, <1>11 DEF ReadingSound
<1>13. BufferSound'
  BY <1>7 DEF BufferSound
<1> QED
  BY <1>6, <1>12, <1>13 DEF PlaceInv

(* A sector handed over is the next one of the command's buffer, so the    *)
(* drive holds bytes that are right at its place.                          *)
LEMMA PlaceWriteSector ==
  ASSUME IInv, PlaceInv, WriteSector
  PROVE  PlaceInv'
<1> DEFINE D == drive[curr_disk]
           S == sector_size
           data == SubSeq(ata.temp, ata.i * S + 1, (ata.i + 1) * S)
<1>1. /\ pc = "xfer" /\ ata.i \in Nat /\ ata.lba \in Nat /\ ata.temp \in Seq(Bytes)
      /\ D.st = "drq" /\ D \in DriveState /\ curr_disk \in Disks /\ ata.count \in Nat
      /\ (ata.i + 1) * S = ata.i * S + S /\ ata.i * S \in Nat
      /\ (ata.i + 1) * S <= ata.count * S
      /\ UNCHANGED <<media, call, pc, curr_disk, writes>>
  BY SectorSteps DEF settings
<1>2. /\ ata.op = "write" /\ ata' = [ata EXCEPT !.i = @ + 1, !.flush = TRUE]
      /\ drive' = [drive EXCEPT ![curr_disk] = [D EXCEPT !.st = "busy", !.data = data]]
      /\ ata \in Command
  BY DEF WriteSector, IInv, TypeOK
<1>3. D.lba = ata.lba + ata.i
  BY <1>1, <1>2 DEF IInv, InStep, Flushing, Writing
<1>4. Len(ata.temp) = ata.count * S
  BY <1>1, <1>2 DEF IInv, CommandSound, InCommand
<1>5. \A j \in 1 .. S : data[j] = ata.temp[ata.i * S + j]
  BY <1>1, <1>4, SectorOfBuffer
<1> HIDE DEF data
<1>6. /\ drive'[curr_disk].lba = D.lba /\ drive'[curr_disk].data = data
      /\ \A d \in Disks : d # curr_disk => drive'[d] = drive[d]
  BY <1>1, <1>2 DEF IInv, TypeOK, DriveState
<1>7. /\ ata'.op = "write" /\ ata'.lba = ata.lba /\ ata'.temp = ata.temp
      /\ ata'.count = ata.count
  BY <1>2 DEF Command
<1>8. BytesWherePut' /\ WriteKnown'
  BY <1>1, WriteKnownFrame DEF PlaceInv, BytesWherePut, PutThere
<1>9. ReadingSound'
  BY <1>7 DEF ReadingSound
<1>10. \A j \in 1 .. ata.count * S :
         PutThere(writes, curr_disk, ata.lba * S + j - 1, ata.temp[j])
  BY <1>1, <1>2 DEF PlaceInv, BufferSound, InCommand
<1>11. BufferSound'
  BY <1>1, <1>7, <1>10 DEF BufferSound, PutThere
<1>12. ASSUME NEW j \in 1 .. S
       PROVE  PutThere(writes, curr_disk, D.lba * S + j - 1, data[j])
  <2> DEFINE k == ata.i * S
             m == ata.lba * S
             q == (ata.lba + ata.i) * S
  <2>1. k \in Nat /\ k + j \in 1 .. ata.count * S
    <3> DEFINE c == ata.count * S
               e == (ata.i + 1) * S
    <3>1. c \in Nat /\ S \in Nat /\ e = k + S /\ e <= c /\ k \in Nat
      BY <1>1, Sizes, Products
    <3> HIDE DEF c, e, k, S
    <3>2. k + j \in 1 .. c
      BY <3>1
    <3> QED
      BY <3>1, <3>2 DEF c
  <2>2. q = m + k /\ m \in Nat
    <3>1. ata.lba \in Nat /\ ata.i \in Nat /\ S \in Nat
      BY <1>1, Sizes
    <3> QED
      BY <3>1, Products
  <2> HIDE DEF k, m, q
  <2>3. PutThere(writes, curr_disk, m + (k + j) - 1, ata.temp[k + j])
    BY <1>10, <2>1 DEF m
  <2>4. m + (k + j) - 1 = q + j - 1
    BY <2>1, <2>2
  <2>5. data[j] = ata.temp[k + j] /\ D.lba * S = q
    BY <1>3, <1>5 DEF k, q
  <2> QED
    BY <2>3, <2>4, <2>5
<1>13. HandedSound'
  <2> SUFFICES ASSUME NEW d \in Disks, Writing(d)', NEW j \in 1 .. sector_size
               PROVE  PutThere(writes', d, drive'[d].lba * sector_size + j - 1,
                               drive'[d].data[j])
    BY Zenon DEF HandedSound
  <2>1. CASE d = curr_disk
    BY <1>1, <1>6, <1>12, <2>1
  <2>2. CASE d # curr_disk
    BY <1>1, <1>6, <2>2 DEF PlaceInv, HandedSound, Writing
  <2> QED
    BY <2>1, <2>2
<1> QED
  BY <1>8, <1>9, <1>11, <1>13 DEF PlaceInv

(* A FLUSH after a sector changes no byte the driver or a drive holds. *)
LEMMA PlaceFlushSector ==
  ASSUME IInv, PlaceInv, FlushSector
  PROVE  PlaceInv'
<1>1. /\ pc = "xfer" /\ pc' = "xfer" /\ UNCHANGED <<media, call, settings>>
      /\ ata'.op = ata.op /\ ata'.lba = ata.lba /\ ata'.count = ata.count
      /\ ata'.i = ata.i /\ ata'.temp = ata.temp
      /\ \A d \in Disks : /\ Writing(d)' = Writing(d)
                          /\ Writing(d) => drive'[d] = drive[d]
      /\ \/ drive' = drive
         \/ drive[curr_disk].st = "ready" /\ Flushing(curr_disk)'
         \/ drive[curr_disk].st = "drq" /\ drive'[curr_disk].st = "ready"
  BY FlushSectorKeeps
<1>2. UNCHANGED <<curr_disk, writes>>
  BY <1>1 DEF settings
<1>3. BytesWherePut' /\ HandedSound' /\ WriteKnown'
  BY <1>1, <1>2, PlaceFrame, WriteKnownFrame DEF PlaceInv
<1>4. BufferSound'
  BY <1>1, <1>2 DEF PlaceInv, BufferSound, InCommand, PutThere
<1>5. drive' = drive \/ drive'[curr_disk].st # "drq"
  BY <1>1, <1>2 DEF Flushing
<1>6. ReadingSound'
  BY <1>1, <1>2, <1>5 DEF PlaceInv, ReadingSound
<1> QED
  BY <1>3, <1>4, <1>6 DEF PlaceInv

(* The partial sector that is written back holds the bytes read from that  *)
(* very sector and, before them, the end of the caller's buffer.           *)
LEMMA PlaceWriteTail ==
  ASSUME IInv, PlaceInv, WriteTail
  PROVE  PlaceInv'
<1> DEFINE r == call.len % sector_size
<1>1. /\ pc = "xfer" /\ InCall /\ call.op = "write" /\ ata.op = "read"
      /\ ata.i = 1 /\ ata.count = 1 /\ ata.lba = call.at
      /\ r \in 1 .. sector_size - 1 /\ call.len = call.total + r
      /\ call.total \in Nat /\ call.at \in Nat
      /\ \A j \in 1 .. sector_size :
           TailBuffer[j] = IF j <= r THEN call.buf[call.total + j] ELSE ata.temp[j]
  BY TailMerged
<1> HIDE DEF r
<1>2. /\ pc' = "wait" /\ UNCHANGED <<media, drive, call, curr_disk, writes>>
      /\ ata'.op = "write" /\ ata'.lba = ata.lba /\ ata'.count = 1
      /\ ata'.temp = TailBuffer
  BY WriteTailKeeps DEF settings
<1>3. \A d \in Disks : Writing(d)' = Writing(d)
  BY <1>2 DEF Writing
<1>4. BytesWherePut' /\ HandedSound' /\ WriteKnown'
  BY <1>2, <1>3, PlaceFrame, WriteKnownFrame DEF PlaceInv
<1>5. ReadingSound'
  BY <1>2 DEF ReadingSound
<1>6. ASSUME NEW j \in 1 .. sector_size
      PROVE  PutThere(writes, curr_disk, call.at * sector_size + j - 1, TailBuffer[j])
  <2>1. j \in Nat /\ j >= 1
    BY <1>6, Sizes
  <2>2. CASE j <= r
    <3>1. call.total + j <= call.len
      BY <1>1, <2>1, <2>2, Sizes
    <3>2. PutThere(writes, curr_disk, call.at * sector_size + j - 1,
                   call.buf[call.total + j])
      BY <1>1, <2>1, <3>1, PlaceOfByte DEF PlaceInv
    <3> QED
      BY <1>1, <2>2, <3>2
  <2>3. CASE ~(j <= r)
    <3>1. ata.i * sector_size = sector_size
      BY <1>1, Sizes, Products
    <3>2. ata.temp[j] = media[curr_disk][ata.lba * sector_size + j - 1]
      BY <1>1, <3>1 DEF PlaceInv, ReadingSound
    <3>3. ata.lba * sector_size + j - 1 \in DiskBytes /\ curr_disk \in Disks
      <4>1. ata.lba \in Nat /\ ata.lba < total_sectors
        BY <1>1, Sizes DEF IInv, CommandSound, InCommand
      <4> QED
        BY <4>1, SectorInside DEF IInv, TypeOK
    <3>4. PutThere(writes, curr_disk, ata.lba * sector_size + j - 1, ata.temp[j])
      BY <3>2, <3>3 DEF PlaceInv, BytesWherePut
    <3> QED
      BY <1>1, <2>3, <3>4
  <2> QED
    BY <2>2, <2>3
<1>7. BufferSound'
  <2>1. 1 * sector_size = sector_size
    BY Sizes, Products
  <2>2. ata'.count * sector_size = sector_size
    BY <1>2, <2>1
  <2> SUFFICES ASSUME NEW j \in 1 .. ata'.count * sector_size
               PROVE  PutThere(writes', curr_disk', ata'.lba * sector_size + j - 1,
                               ata'.temp[j])
    BY Zenon DEF BufferSound
  <2> QED
    BY <1>1, <1>2, <1>6, <2>2
<1> QED
  BY <1>4, <1>5, <1>7 DEF PlaceInv

(* A drive serves its command, or fails. *)
LEMMA PlaceDrive ==
  ASSUME IInv, PlaceInv, NEW d \in Disks, DriveStep(d)
  PROVE  PlaceInv'
<1>1. UNCHANGED <<call, ata, pc, curr_disk, writes>> /\ curr_disk \in Disks
  BY DEF DriveStep, IInv, TypeOK
<1>2. WriteKnown'
  BY <1>1, WriteKnownFrame DEF PlaceInv
<1>3. BufferSound'
  BY <1>1 DEF PlaceInv, BufferSound, InCommand, PutThere
<1>4. CASE DriveReads(d)
  <2>1. /\ media' = media /\ pc = "xfer" /\ d = curr_disk /\ ata.op = "read"
        /\ drive'[d].st = "drq" /\ \A e \in Disks : e # d => drive'[e] = drive[e]
        /\ \A j \in 1 .. sector_size :
             drive'[d].data[j] = media[d][(ata.lba + ata.i) * sector_size + j - 1]
    BY <1>4, DriveReadsKeeps
  <2>2. \A e \in Disks : Writing(e)' => Writing(e) /\ drive'[e] = drive[e]
    BY <2>1 DEF Writing
  <2>3. BytesWherePut' /\ HandedSound'
    BY <1>1, <2>1, <2>2, PlaceFrame
  <2>4. \A j \in 1 .. ata.i * sector_size :
          ata.temp[j] = media[curr_disk][ata.lba * sector_size + j - 1]
    BY <2>1 DEF PlaceInv, ReadingSound
  <2>5. ReadingSound'
    BY <1>1, <2>1, <2>4 DEF ReadingSound
  <2> QED
    BY <1>2, <1>3, <2>3, <2>5 DEF PlaceInv
<1>5. CASE DriveErrs(d) \/ DriveSticks(d)
  <2>1. /\ media' = media /\ drive[d].st = "busy" /\ drive'[d].st \in {"ready", "stuck"}
        /\ \A e \in Disks : e # d => drive'[e] = drive[e]
    BY <1>5, DriveFailsKeeps
  <2>2. \A e \in Disks : Writing(e)' => Writing(e) /\ drive'[e] = drive[e]
    BY <2>1 DEF Writing
  <2>3. BytesWherePut' /\ HandedSound'
    BY <1>1, <2>1, <2>2, PlaceFrame
  <2>4. ReadingSound'
    BY <1>1, <2>1 DEF PlaceInv, ReadingSound
  <2> QED
    BY <1>2, <1>3, <2>3, <2>4 DEF PlaceInv
<1>6. CASE DriveWrites(d)
  <2> DEFINE r == drive[d]
  <2>1. /\ r.st = "busy" /\ r.op = "write" /\ drive'[d].st \in {"ready", "drq"}
        /\ \A e \in Disks : e # d => drive'[e] = drive[e] /\ media'[e] = media[e]
        /\ ~Writing(d) => media' = media
        /\ Writing(d) =>
             media'[d] = [p \in DiskBytes |->
                            IF p \in Sector(r.lba)
                              THEN r.data[p - r.lba * sector_size + 1]
                              ELSE media[d][p]]
    BY <1>6, DriveWritesKeeps
  <2>2. HandedSound'
    <3> SUFFICES ASSUME NEW e \in Disks, Writing(e)', NEW j \in 1 .. sector_size
                 PROVE  PutThere(writes', e, drive'[e].lba * sector_size + j - 1,
                                 drive'[e].data[j])
      BY Zenon DEF HandedSound
    <3>1. e # d
      BY <2>1 DEF Writing
    <3>2. drive'[e] = drive[e] /\ Writing(e)
      BY <2>1, <3>1 DEF Writing
    <3> QED
      BY <1>1, <3>2 DEF PlaceInv, HandedSound
  <2>3. BytesWherePut'
    <3> SUFFICES ASSUME NEW e \in Disks, NEW p \in DiskBytes
                 PROVE  PutThere(writes, e, p, media'[e][p])
      BY <1>1, Zenon DEF BytesWherePut
    <3>1. PutThere(writes, e, p, media[e][p])
      BY DEF PlaceInv, BytesWherePut
    <3>2. CASE media'[e][p] = media[e][p]
      BY <3>1, <3>2
    <3>3. CASE media'[e][p] # media[e][p]
      <4>1. e = d /\ Writing(d) /\ p \in Sector(r.lba)
            /\ media'[e][p] = r.data[p - r.lba * sector_size + 1]
        BY <2>1, <3>3
      <4> DEFINE j == p - r.lba * sector_size + 1
      <4>2. r.lba \in Nat /\ r.lba < total_sectors
        BY <2>1, <4>1, ServingWhere
      <4>3. j \in 1 .. sector_size /\ r.lba * sector_size \in Nat /\ p \in Nat
        <5>1. DiskBytes \subseteq Nat
          BY DEF DiskBytes
        <5> QED
          BY <4>1, <4>2, <5>1, SectorInside
      <4>4. PutThere(writes, d, r.lba * sector_size + j - 1, r.data[j])
        BY <4>1, <4>3 DEF PlaceInv, HandedSound
      <4>5. r.lba * sector_size + j - 1 = p
        <5> DEFINE x == r.lba * sector_size
        <5>1. x \in Nat /\ j = p - x + 1
          BY <4>3
        <5> HIDE DEF x, j
        <5>2. x + j - 1 = p
          BY <4>3, <5>1
        <5> QED
          BY <5>2 DEF x
      <4> QED
        BY <4>1, <4>4, <4>5
    <3> QED
      BY <3>2, <3>3
  <2>4. ReadingSound'
    <3>1. CASE d = curr_disk
      <4>1. pc = "xfer" => ata.op = "write"
        BY <2>1, <3>1 DEF IInv, InStep, Flushing
      <4> QED
        BY <1>1, <4>1 DEF ReadingSound
    <3>2. CASE d # curr_disk
      BY <1>1, <2>1, <3>2 DEF PlaceInv, ReadingSound
    <3> QED
      BY <3>1, <3>2
  <2> QED
    BY <1>2, <1>3, <2>2, <2>3, <2>4 DEF PlaceInv
<1>7. CASE DriveFlushes(d)
  <2>1. /\ media' = media /\ drive'[d].st = "ready" /\ ~Writing(d)'
        /\ \A e \in Disks : e # d => drive'[e] = drive[e]
    BY <1>7, DriveFlushesKeeps
  <2>2. \A e \in Disks : Writing(e)' => Writing(e) /\ drive'[e] = drive[e]
    BY <2>1 DEF Writing
  <2>3. BytesWherePut' /\ HandedSound'
    BY <1>1, <2>1, <2>2, PlaceFrame
  <2>4. ReadingSound'
    BY <1>1, <2>1 DEF PlaceInv, ReadingSound
  <2> QED
    BY <1>2, <1>3, <2>3, <2>4 DEF PlaceInv
<1> QED
  BY <1>4, <1>5, <1>6, <1>7 DEF DriveStep

(* Every step keeps each byte where a caller put it. *)
LEMMA NextPlaceInv == IInv /\ PlaceInv /\ [Next]_vars => PlaceInv'
<1> SUFFICES ASSUME IInv, PlaceInv, [Next]_vars PROVE PlaceInv'
  OBVIOUS
<1>0. call.total \in Nat /\ call.len \in Nat
  BY DEF IInv, TypeOK, Call
<1>1. CASE UNCHANGED vars \/ WaitsForBsy
  <2>1. UNCHANGED <<media, drive, curr_disk, call, ata, pc, writes>>
    BY <1>1 DEF vars, WaitsForBsy
  <2>2. \A d \in Disks : Writing(d)' = Writing(d)
    BY <2>1 DEF Writing
  <2>3. BytesWherePut' /\ HandedSound' /\ WriteKnown'
    BY <2>1, <2>2, PlaceFrame, WriteKnownFrame DEF PlaceInv
  <2>4. ReadingSound'
    BY <2>1 DEF PlaceInv, ReadingSound
  <2>5. BufferSound'
    BY <2>1 DEF PlaceInv, BufferSound, InCommand, PutThere
  <2> QED
    BY <2>3, <2>4, <2>5 DEF PlaceInv
<1>2. CASE \/ \E d \in Disks, o \in Outcomes, lba \in BOOLEAN :
                identify_drive(d, o, lba)
           \/ init_disk_driver_ends
           \/ \E d \in Disks : switch_disk(d)
  BY <1>2, PlaceSetup
<1>3. CASE \E lba \in Lbas, len \in Lens : disk_read(lba, len) \/ disk_write(lba, len)
  BY <1>3, PlaceEntered
<1>4. CASE NextRead \/ NextWrite \/ ReadTail
  BY <1>4, PlaceStart
<1>5. CASE NoBuffer \/ Finish \/ TailDone \/ CommandFails
  <2>1. PICK n \in Nat : Return(n)
    BY <1>0, <1>5 DEF NoBuffer, Finish, TailDone, CommandFails, PartialResult
  <2>2. /\ UNCHANGED <<media, selected, settings>>
        /\ drive' = drive \/ (pc = "xfer" /\ drive' = flush_cache)
    BY <1>5 DEF NoBuffer, Finish, TailDone, CommandFails, Succeeded
  <2> QED
    BY <2>1, <2>2, PlaceReturn
<1>6. CASE SendRead \/ SendWrite
  BY <1>6, PlaceSend DEF SendRead, SendWrite
<1>7. CASE ReadSector
  BY <1>7, PlaceReadSector
<1>8. CASE WriteSector
  BY <1>8, PlaceWriteSector
<1>9. CASE ReadDone \/ WriteDone
  <2>1. /\ UNCHANGED <<media, drive, settings>> /\ pc' = "loop"
        /\ call'.op = call.op /\ call'.disk = call.disk /\ call'.lba = call.lba
        /\ call'.len = call.len /\ (call.op = "write" => call'.buf = call.buf)
    BY <1>9, AdvanceKeeps
  <2>2. writes' = writes /\ \A d \in Disks : Writing(d)' = Writing(d)
    BY <2>1 DEF settings, Writing
  <2> QED
    BY <2>1, <2>2, PlaceQuiet
<1>10. CASE WriteTail
  BY <1>10, PlaceWriteTail
<1>11. CASE \E d \in Disks : DriveStep(d)
  BY <1>11, PlaceDrive
<1>12. CASE FlushSector
  BY <1>12, PlaceFlushSector
<1> QED
  BY <1>1, <1>2, <1>3, <1>4, <1>5, <1>6, <1>7, <1>8, <1>9, <1>10, <1>11, <1>12
  DEF Next, Driver

(* Bytes on the media, in the drives and in the commands' buffers are      *)
(* right at their places in every reachable state.                         *)
LEMMA PlaceInvariant == Spec => []PlaceInv
<1>1. Spec => [](IInv /\ PlaceInv)
  <2>1. Init => IInv /\ PlaceInv
    BY InitIInv, InitPlaceInv
  <2>2. IInv /\ PlaceInv /\ [Next]_vars => (IInv /\ PlaceInv)'
    BY NextIInv, NextPlaceInv
  <2> QED
    BY <2>1, <2>2, PTL DEF Spec
<1> QED
  BY <1>1, PTL

(* Nothing but what a caller asked for is ever on the media. *)
THEOREM BytesStayInPlace == Spec => []BytesWherePut
<1>1. PlaceInv => BytesWherePut
  BY DEF PlaceInv
<1> QED
  BY <1>1, PlaceInvariant, PTL

-----------------------------------------------------------------------------
(* No read has been called at boot. *)
LEMMA InitReadInv == Init => ReadInv
BY DEF Init, ReadInv

(* A step that leaves the caller's buffer and the count alone, and starts  *)
(* no write.                                                               *)
LEMMA ReadFrame ==
  ASSUME IInv, ReadInv, call.op = "read",
         call'.op = call.op, call'.disk = call.disk, call'.lba = call.lba,
         call'.len = call.len, call'.buf = call.buf, Moved' = Moved, pc' # "boot",
         Writing(call.disk)' => Writing(call.disk),
         media'[call.disk] = media[call.disk] \/ Writing(call.disk)
  PROVE  ReadInv'
<1>1. /\ Moved \in Nat /\ call.len \in Nat /\ Moved <= call.len
      /\ Moved > 0 => ~Writing(call.disk)
      /\ \A i \in 1 .. call.len :
           call.buf[i] = IF i <= Moved
                           THEN media[call.disk][call.lba * sector_size + i - 1]
                           ELSE Unset
  BY DEF IInv, TypeOK, Call, ReadInv, Moved
<1>2. \A i \in 1 .. call.len : i <= Moved => media'[call.disk] = media[call.disk]
  BY <1>1
<1>3. \A i \in 1 .. call.len :
        call.buf[i] = IF i <= Moved
                        THEN media'[call.disk][call.lba * sector_size + i - 1]
                        ELSE Unset
  BY <1>1, <1>2
<1>4. Writing(call.disk)' => Writing(call.disk)
  OBVIOUS
<1> HIDE DEF Moved
<1> QED
  BY <1>1, <1>3, <1>4 DEF ReadInv

(* A call returns what it has moved. *)
LEMMA ReadReturn ==
  ASSUME IInv, ReadInv, InCall, call.op = "read", Return(call.total),
         UNCHANGED <<media, drive>>
  PROVE  ReadInv'
<1>1. /\ call'.op = call.op /\ call'.disk = call.disk /\ call'.lba = call.lba
      /\ call'.len = call.len /\ call'.buf = call.buf /\ call'.ret = call.total
      /\ pc' = "idle"
  BY ReturnFields DEF IInv, TypeOK, Call
<1>2. Moved' = Moved
  BY <1>1 DEF Moved, InCall
<1>3. Writing(call.disk)' => Writing(call.disk)
  BY <1>1 DEF Writing
<1> QED
  BY <1>1, <1>2, <1>3, ReadFrame

(* disk_read takes a command's bytes. *)
LEMMA ReadTakes ==
  ASSUME IInv, PlaceInv, ReadInv, ReadDone
  PROVE  ReadInv'
<1> DEFINE b == BytesMoved(ata.count)
           T == call.total
           m == call.lba * sector_size
           q == call.at * sector_size
           f == media[call.disk]
<1>1. Succeeded("read", FALSE) /\ pc = "xfer" /\ ata.op = "read" /\ ata.i = ata.count
  BY DEF ReadDone, Succeeded
<1>2. /\ call.op = "read" /\ call.at - call.lba \in Nat
      /\ T = (call.at - call.lba) * sector_size /\ call.at \in Nat /\ call.lba \in Nat
      /\ T \in Nat /\ call.len \in Nat
  BY <1>1, CommandDone
<1>3. b \in Nat /\ b <= ata.count * sector_size /\ T + b <= call.len
  BY <1>1, BytesTaken
<1>4. /\ UNCHANGED <<media, drive, settings>> /\ pc' = "loop"
      /\ call'.op = call.op /\ call'.disk = call.disk /\ call'.lba = call.lba
      /\ call'.len = call.len /\ call'.total = T + b /\ call'.buf = Copied(b)
  BY <1>2, AdvanceKeeps
<1>5. call.disk = curr_disk /\ ata.lba = call.at
  BY <1>1 DEF IInv, CallSound, CommandSound, InCall, InCommand
<1>6. \A j \in 1 .. ata.count * sector_size : ata.temp[j] = f[q + j - 1]
  BY <1>1, <1>5 DEF PlaceInv, ReadingSound
<1>7. q = m + T /\ m \in Nat
  <2> DEFINE done == call.at - call.lba
  <2>1. call.lba + done = call.at /\ done \in Nat /\ T = done * sector_size
    BY <1>2
  <2> HIDE DEF done
  <2>2. (call.lba + done) * sector_size = m + done * sector_size /\ m \in Nat
    BY <1>2, <2>1, Sizes, Products
  <2> QED
    BY <2>1, <2>2
<1>8. \A i \in 1 .. call.len : call.buf[i] = IF i <= T THEN f[m + i - 1] ELSE Unset
  <2>1. Moved = T
    BY <1>1 DEF Moved
  <2> QED
    BY <1>2, <2>1 DEF ReadInv
<1>9. ~Writing(call.disk)
  BY <1>1, <1>5 DEF IInv, InStep, Flushing, Writing
<1>a. ata.count * sector_size \in Nat
  BY <1>1, CommandDone
<1>b. \A i \in 1 .. call.len :
        Copied(b)[i] = IF i \in T + 1 .. T + b THEN ata.temp[i - T] ELSE call.buf[i]
  BY DEF Copied
<1> DEFINE c == ata.count * sector_size
<1> HIDE DEF b, T, m, q, f, c
<1>10. ASSUME NEW i \in 1 .. call.len
       PROVE  Copied(b)[i] = IF i <= T + b THEN f[m + i - 1] ELSE Unset
  <2>1. CASE i \in T + 1 .. T + b
    <3>1. i - T \in 1 .. c /\ q + (i - T) - 1 = m + i - 1
      <4>1. b <= c /\ c \in Nat
        BY <1>3, <1>a DEF c
      <4> QED
        BY <1>2, <1>3, <1>7, <2>1, <4>1
    <3>2. ata.temp[i - T] = f[q + (i - T) - 1]
      BY <1>6, <3>1 DEF c
    <3> QED
      BY <1>2, <1>3, <1>b, <2>1, <3>1, <3>2
  <2>2. CASE i \notin T + 1 .. T + b
    BY <1>2, <1>3, <1>8, <1>b, <2>2
  <2> QED
    BY <2>1, <2>2
<1>11. Moved' = T + b
  BY <1>4 DEF Moved
<1>12. \A i \in 1 .. call'.len :
         call'.buf[i] = IF i <= Moved'
                          THEN media'[call'.disk][call'.lba * sector_size + i - 1]
                          ELSE Unset
  <2>1. media'[call'.disk] = f /\ call'.lba * sector_size = m
    BY <1>4 DEF f, m
  <2> QED
    BY <1>4, <1>10, <1>11, <2>1
<1>13. ~Writing(call.disk)'
  BY <1>4, <1>9 DEF Writing
<1> QED
  BY <1>3, <1>4, <1>11, <1>12, <1>13 DEF ReadInv

(* The commands of a disk_read are reads. *)
LEMMA ReadsOnly ==
  ASSUME IInv, call.op = "read", InCommand
  PROVE  ata.op = "read" /\ ~ata.tail
BY DEF IInv, CommandSound, HasTail, TypeOK, Command

(* Every step keeps what a disk_read has moved equal to the media. *)
LEMMA NextReadInv == IInv /\ PlaceInv /\ ReadInv /\ [Next]_vars => ReadInv'
<1> SUFFICES ASSUME IInv, PlaceInv, ReadInv, [Next]_vars PROVE ReadInv'
  OBVIOUS
<1>0. call.disk \in Disks /\ curr_disk \in Disks
  BY DEF IInv, TypeOK, Call
<1>1. CASE UNCHANGED vars \/ WaitsForBsy
  <2>1. UNCHANGED <<media, drive, call, pc>>
    BY <1>1 DEF vars, WaitsForBsy
  <2> QED
    BY <2>1 DEF ReadInv, Moved, Writing
<1>2. CASE \/ \E d \in Disks, o \in Outcomes, lba \in BOOLEAN :
                identify_drive(d, o, lba)
           \/ init_disk_driver_ends
  <2>1. pc = "boot" /\ call' = call
    BY <1>2 DEF identify_drive, init_disk_driver_ends
  <2> QED
    BY <2>1 DEF ReadInv
<1>3. CASE \E d \in Disks : switch_disk(d)
  <2>1. UNCHANGED <<media, drive, call, pc>>
    BY <1>3 DEF switch_disk
  <2> QED
    BY <2>1 DEF ReadInv, Moved, Writing
<1>4. CASE \E lba \in Lbas, len \in Lens : disk_read(lba, len) \/ disk_write(lba, len)
  <2>1. PICK lba \in Lbas, len \in Lens : disk_read(lba, len) \/ disk_write(lba, len)
    BY <1>4
  <2>2. len \in Nat
    BY DiskIOAssumption
  <2>3. pc' # "boot"
    BY <2>1 DEF disk_read, disk_write, Entered
  <2>4. CASE disk_write(lba, len)
    <3>1. call'.op = "write"
      BY <2>4 DEF disk_write, Entered
    <3> QED
      BY <2>3, <3>1 DEF ReadInv
  <2>5. CASE disk_read(lba, len)
    <3>1. /\ call'.len = len /\ call'.total = 0 /\ call'.ret = 0
          /\ call'.buf = [i \in 1 .. len |-> IF "read" = "read" THEN Unset
                                              ELSE Byte(Len(writes) + 1, i - 1)]
      BY <2>5 DEF disk_read, Entered
    <3>2. Moved' = 0
      BY <3>1 DEF Moved
    <3>3. \A i \in 1 .. len : call'.buf[i] = Unset /\ ~(i <= 0)
      BY <2>2, <3>1
    <3> QED
      BY <2>2, <2>3, <3>1, <3>2, <3>3 DEF ReadInv
  <2> QED
    BY <2>1, <2>4, <2>5
<1>5. CASE /\ call.op # "read" /\ pc # "boot"
           /\ call'.op = call.op /\ pc' # "boot"
  BY <1>5 DEF ReadInv
<1>6. CASE Driver /\ call.op = "read" /\ pc # "boot"
  <2>1. CASE NextRead \/ NextWrite
    <3>1. /\ InCall /\ UNCHANGED <<media, drive>> /\ pc = "loop"
      BY <2>1 DEF NextRead, NextWrite, StartCommand, InCall
    <3>2. CASE Return(call.total)
      BY <1>6, <3>1, <3>2, ReadReturn
    <3>3. CASE ~Return(call.total)
      <4>1. call' = call /\ pc' = "wait"
        BY <2>1, <3>3 DEF NextRead, NextWrite, StartCommand
      <4> QED
        BY <3>1, <4>1 DEF ReadInv, Moved, Writing
    <3> QED
      BY <3>2, <3>3
  <2>2. CASE NoBuffer \/ Finish \/ CommandFails
    <3>1. InCall /\ Return(call.total) /\ UNCHANGED <<media, drive>>
      BY <1>6, <2>2 DEF NoBuffer, Finish, CommandFails, PartialResult, InCall
    <3> QED
      BY <1>6, <3>1, ReadReturn
  <2>3. CASE ReadTail \/ WriteSector \/ WriteDone \/ WriteTail \/ TailDone
    <3>1. ~ReadTail
      BY <1>6 DEF ReadTail, HasTail
    <3>2. ~(WriteSector \/ WriteDone \/ TailDone \/ WriteTail)
      BY <1>6, ReadsOnly DEF WriteSector, WriteDone, TailDone, WriteTail, Succeeded,
                              InCommand
    <3> QED
      BY <2>3, <3>1, <3>2
  <2>4. CASE SendRead \/ SendWrite
    <3>1. /\ pc = "wait" /\ pc' = "xfer" /\ BsyClear
          /\ UNCHANGED <<media, call, curr_disk>>
      BY <2>4 DEF SendRead, SendWrite, SendCommand, settings
    <3>2. drive[curr_disk].st = "ready"
      BY <3>1, ReadyToSend
    <3>3. /\ drive'[curr_disk].data = <<>>
          /\ \A d \in Disks : d # curr_disk => drive'[d] = drive[d]
      BY <1>0, <2>4, <3>2 DEF SendRead, SendWrite, SendCommand, IInv, TypeOK
    <3>4. Writing(call.disk)' => Writing(call.disk)
      BY <1>0, <3>1, <3>3 DEF Writing
    <3>5. Moved' = Moved
      BY <3>1 DEF Moved
    <3> QED
      BY <1>6, <3>1, <3>4, <3>5, ReadFrame
  <2>5. CASE ReadSector
    <3> DEFINE D == drive[curr_disk]
    <3>1. /\ pc = "xfer" /\ ata.op = D.op /\ D \in DriveState /\ D.st = "drq"
          /\ UNCHANGED <<media, call, pc>>
      BY <2>5, SectorSteps
    <3>2. drive' = [drive EXCEPT ![curr_disk] =
                      IF D.left = 0 THEN Idle ELSE [D EXCEPT !.st = "busy"]]
          /\ ata.op = "read"
      BY <2>5 DEF ReadSector
    <3>3. /\ drive'[curr_disk].st = "ready" \/ drive'[curr_disk].op = "read"
          /\ \A d \in Disks : d # curr_disk => drive'[d] = drive[d]
      BY <1>0, <3>1, <3>2 DEF IInv, TypeOK, DriveState, Idle
    <3>4. Writing(call.disk)' => Writing(call.disk)
      BY <1>0, <3>1, <3>3 DEF Writing
    <3>5. Moved' = Moved
      BY <3>1 DEF Moved
    <3> QED
      BY <1>6, <3>1, <3>4, <3>5, ReadFrame
  <2>6. CASE ReadDone
    BY <2>6, ReadTakes
  <2>7. CASE init_disk_driver_ends
    BY <1>6, <2>7 DEF init_disk_driver_ends
  <2>8. CASE FlushSector
    <3>1. /\ UNCHANGED <<media, call, pc>> /\ pc = "xfer"
          /\ \A d \in Disks : Writing(d)' = Writing(d)
      BY <2>8, FlushSectorKeeps
    <3>2. Writing(call.disk)' => Writing(call.disk)
      BY <1>0, <3>1 DEF Writing
    <3>3. Moved' = Moved
      BY <3>1 DEF Moved
    <3> QED
      BY <1>6, <3>1, <3>2, <3>3, ReadFrame
  <2> QED
    BY <1>6, <2>1, <2>2, <2>3, <2>4, <2>5, <2>6, <2>7, <2>8 DEF Driver
<1>7. CASE \E d \in Disks : DriveStep(d)
  <2>1. PICK d \in Disks : DriveStep(d)
    BY <1>7
  <2>2. call' = call /\ pc' = pc /\ Moved' = Moved
    BY <2>1 DEF DriveStep, Moved
  <2>3. \A e \in Disks : /\ Writing(e)' => Writing(e)
                         /\ media'[e] = media[e] \/ Writing(e)
    <3>1. CASE DriveReads(d)
      BY <2>1, <3>1, DriveReadsKeeps DEF Writing
    <3>2. CASE DriveWrites(d)
      BY <2>1, <3>2, DriveWritesKeeps DEF Writing
    <3>3. CASE DriveErrs(d) \/ DriveSticks(d)
      BY <2>1, <3>3, DriveFailsKeeps DEF Writing
    <3>4. CASE DriveFlushes(d)
      BY <2>1, <3>4, DriveFlushesKeeps DEF Writing
    <3> QED
      BY <2>1, <3>1, <3>2, <3>3, <3>4 DEF DriveStep
  <2>4. CASE call.op # "read"
    BY <2>2, <2>4 DEF ReadInv
  <2>5. CASE call.op = "read"
    <3>1. pc # "boot"
      BY <2>5 DEF ReadInv
    <3>2. Writing(call.disk)' => Writing(call.disk)
      BY <1>0, <2>2, <2>3 DEF Writing
    <3>3. media'[call.disk] = media[call.disk] \/ Writing(call.disk)
      BY <1>0, <2>3
    <3> QED
      BY <2>2, <2>5, <3>1, <3>2, <3>3, ReadFrame
  <2> QED
    BY <2>4, <2>5
<1>8. CASE Driver /\ ~(call.op = "read" /\ pc # "boot")
  <2>1. CASE init_disk_driver_ends
    BY <1>2, <2>1
  <2>2. CASE ~init_disk_driver_ends
    <3>1. pc # "boot" /\ pc' # "boot"
      BY <1>8, <2>2 DEF Driver, NextRead, NextWrite, StartCommand, NoBuffer, Finish,
           ReadTail, SendRead, SendWrite, SendCommand, ReadSector, WriteSector, ReadDone,
           WriteDone, WriteTail, TailDone, CommandFails, Succeeded, Advance, Return,
           FlushSector
    <3>2. call'.op = call.op
      <4>1. CASE call' = call
        BY <4>1
      <4>2. CASE \E n \in Nat : Return(n)
        BY <4>2, ReturnFields DEF IInv
      <4>3. CASE ReadDone \/ WriteDone
        BY <4>3, AdvanceKeeps
      <4>4. call.total \in Nat /\ call.len \in Nat
        BY DEF IInv, TypeOK, Call
      <4> QED
        BY <1>8, <2>2, <4>1, <4>2, <4>3, <4>4
        DEF Driver, NextRead, NextWrite, StartCommand, NoBuffer, Finish, ReadTail,
            SendRead, SendWrite, SendCommand, ReadSector, WriteSector, WriteTail,
            TailDone, CommandFails, PartialResult, FlushSector
    <3> QED
      BY <1>5, <1>8, <3>1, <3>2
  <2> QED
    BY <2>1, <2>2
<1> QED
  BY <1>1, <1>2, <1>3, <1>4, <1>6, <1>7, <1>8 DEF Next

(* disk_read returns how many bytes of the caller's buffer it filled, all  *)
(* from the place asked for.                                               *)
THEOREM ReadsAreMedia == Spec => []ReadsReturnMedia
<1>1. Init => IInv /\ PlaceInv /\ ReadInv
  BY InitIInv, InitPlaceInv, InitReadInv
<1>2. IInv /\ PlaceInv /\ ReadInv /\ [Next]_vars => (IInv /\ PlaceInv /\ ReadInv)'
  BY NextIInv, NextPlaceInv, NextReadInv
<1>3. IInv /\ ReadInv => ReadsReturnMedia
  BY DEF IInv, CallSound, ReadInv, ReadsReturnMedia, Ended, Moved
<1> QED
  BY <1>1, <1>2, <1>3, PTL DEF Spec

-----------------------------------------------------------------------------
(* A place before a sector is not in it, nor in a later one. *)
LEMMA BeforeSector ==
  ASSUME NEW a \in Nat, NEW l \in Nat, a <= l, NEW p \in Nat, p < a * sector_size
  PROVE  p \notin Sector(l)
<1> DEFINE x == a * sector_size
           y == l * sector_size
           z == (l + 1) * sector_size
<1>1. x <= y /\ x \in Nat /\ y \in Nat
  BY Sizes, Products
<1>2. Sector(l) = y .. z - 1 /\ p < x
  BY DEF Sector
<1> HIDE DEF x, y, z
<1> QED
  BY <1>1, <1>2

(* The places of the bytes a write has counted so far. *)
LEMMA CountedPlaces ==
  ASSUME IInv, InCall, call.op = "write", NEW i \in 1 .. call.total
  PROVE  /\ call.lba * sector_size + i - 1 \in Nat
         /\ call.lba * sector_size + i - 1 < call.at * sector_size
<1> DEFINE done == call.at - call.lba
           m == call.lba * sector_size
           q == call.at * sector_size
<1>1. /\ call.at \in Nat /\ call.lba \in Nat /\ call.total \in Nat
      /\ call.total = done * sector_size /\ done \in Nat
  BY DEF IInv, TypeOK, Call, CallSound
<1>2. q = m + call.total /\ m \in Nat
  <2>1. call.lba + done = call.at
    BY <1>1
  <2> HIDE DEF done
  <2>2. (call.lba + done) * sector_size = m + done * sector_size /\ m \in Nat
    BY <1>1, Sizes, Products
  <2> QED
    BY <1>1, <2>1, <2>2
<1>3. call.total \in Nat /\ i \in 1 .. call.total
  BY <1>1
<1> HIDE DEF m, q, done
<1>4. m + i - 1 \in Nat /\ m + i - 1 < q
  BY <1>2, <1>3
<1> QED
  BY <1>4 DEF m, q

(* The same for a byte of the command under way. *)
LEMMA NextPlaces ==
  ASSUME IInv, InCall, call.op = "write", NEW i \in Nat, i > call.total
  PROVE  /\ i - call.total \in Nat /\ i - call.total >= 1
         /\ call.lba * sector_size + i - 1 = call.at * sector_size + (i - call.total) - 1
         /\ call.total + (i - call.total) = i
         /\ call.total + (i - call.total) - 1 = i - 1
<1> DEFINE done == call.at - call.lba
           m == call.lba * sector_size
           q == call.at * sector_size
<1>1. /\ call.at \in Nat /\ call.lba \in Nat /\ call.total \in Nat
      /\ call.total = done * sector_size /\ done \in Nat
  BY DEF IInv, TypeOK, Call, CallSound
<1>2. q = m + call.total /\ m \in Nat
  <2>1. call.lba + done = call.at
    BY <1>1
  <2> HIDE DEF done
  <2>2. (call.lba + done) * sector_size = m + done * sector_size /\ m \in Nat
    BY <1>1, Sizes, Products
  <2> QED
    BY <1>1, <2>1, <2>2
<1>3. call.total \in Nat
  BY <1>1
<1> HIDE DEF m, q, done
<1>4. /\ i - call.total \in Nat /\ i - call.total >= 1
      /\ m + i - 1 = q + (i - call.total) - 1
      /\ call.total + (i - call.total) = i
      /\ call.total + (i - call.total) - 1 = i - 1
  BY <1>2, <1>3
<1> QED
  BY <1>4 DEF m, q

(* No write has been called at boot. *)
LEMMA InitHonestInv == Init => HonestInv
BY DEF Init, HonestInv, CountedLanded, BufferNext, HandedLanded, InCommand

(* A step under which what a write has counted stays landed. *)
LEMMA CountedFrame ==
  ASSUME CountedLanded, writes' = writes, Moved' = Moved,
         call'.op = call.op, call'.disk = call.disk, call'.lba = call.lba,
         call.op = "write" =>
           \A i \in 1 .. Moved : \A b :
              Landed(drive[call.disk], media[call.disk], call.lba * sector_size + i - 1, b)
              => Landed(drive'[call.disk], media'[call.disk],
                        call.lba * sector_size + i - 1, b)
  PROVE  CountedLanded'
<1> HIDE DEF Moved
<1> SUFFICES ASSUME call.op = "write", NEW i \in 1 .. Moved
             PROVE  Landed(drive'[call.disk], media'[call.disk],
                           call.lba * sector_size + i - 1, Byte(Len(writes), i - 1))
  BY Zenon DEF CountedLanded
<1>1. Landed(drive[call.disk], media[call.disk],
             call.lba * sector_size + i - 1, Byte(Len(writes), i - 1))
  BY Zenon DEF CountedLanded
<1> QED
  BY <1>1, Zenon

(* A step that leaves the disks alone and the driver outside a command. *)
LEMMA HonestQuiet ==
  ASSUME HonestInv, late' = late, pc' \notin {"wait", "xfer"}, writes' = writes,
         UNCHANGED <<media, drive>>, Moved' = Moved \/ call.op # "write",
         call'.op = call.op, call'.disk = call.disk, call'.lba = call.lba
  PROVE  HonestInv'
<1>1. BufferNext' /\ HandedLanded'
  BY DEF BufferNext, HandedLanded, InCommand
<1>2. CASE call.op # "write"
  BY <1>1, <1>2 DEF HonestInv, CountedLanded
<1>3. CASE call.op = "write"
  <2>1. ASSUME ~late PROVE CountedLanded'
    BY <1>3, <2>1, CountedFrame DEF HonestInv
  <2> QED
    BY <1>1, <2>1 DEF HonestInv
<1> QED
  BY <1>2, <1>3

(* A call of disk_write returns what it has counted. *)
LEMMA HonestReturn ==
  ASSUME IInv, HonestInv, InCall, NEW n \in Nat, Return(n),
         n = call.total \/ call.op # "write",
         UNCHANGED <<media, drive, selected, settings>>
  PROVE  HonestInv'
<1>1. writes' = writes /\ late' = late
  BY DEF settings
<1>2. /\ pc' = "idle" /\ call'.op = call.op /\ call'.disk = call.disk
      /\ call'.lba = call.lba /\ call'.ret = n
  BY ReturnFields DEF IInv
<1>3. Moved' = Moved \/ call.op # "write"
  BY <1>2 DEF Moved, InCall
<1> QED
  BY <1>1, <1>2, <1>3, HonestQuiet

(* disk_write's loop ended with no partial sector: all is counted. *)
LEMMA HonestFinish ==
  ASSUME IInv, HonestInv, Finish
  PROVE  HonestInv'
<1> DEFINE done == call.at - call.lba
<1>1. /\ pc = "loop" /\ InCall /\ call.left = 0 /\ ~HasTail
      /\ UNCHANGED <<media, drive, selected, settings>>
      /\ Return(IF call.op = "read" THEN call.total ELSE call.len)
  BY DEF Finish, InCall
<1>2. call.total \in Nat /\ call.len \in Nat /\ call.at \in Nat /\ call.lba \in Nat
  BY DEF IInv, TypeOK, Call
<1>3. call.op = "write" => call.len = call.total
  <2> SUFFICES ASSUME call.op = "write" PROVE call.len = call.total
    OBVIOUS
  <2>1. /\ call.total = done * sector_size /\ done \in Nat
        /\ call.len = (done + call.left) * sector_size + (call.len % sector_size)
    BY <1>1, <1>2 DEF IInv, CallSound
  <2>2. call.len % sector_size = 0 /\ done + call.left = done
    BY <1>1, <2>1 DEF HasTail
  <2> HIDE DEF done
  <2>3. call.len = call.total + 0
    BY <2>1, <2>2
  <2> QED
    BY <1>2, <2>3
<1> QED
  BY <1>1, <1>2, <1>3, HonestReturn

(* A write's command that has handed over all its sectors has landed the   *)
(* caller's next bytes.                                                    *)
LEMMA CommandLanded ==
  ASSUME IInv, HonestInv, ~late, pc = "xfer", ata.op = "write", ata.i = ata.count,
         call.op = "write", NEW i \in Nat, i > call.total, i <= call.len,
         i - call.total <= ata.count * sector_size
  PROVE  Landed(drive[call.disk], media[call.disk], call.lba * sector_size + i - 1,
                Byte(Len(writes), i - 1))
<1> DEFINE j == i - call.total
<1>1. /\ InCall /\ InCommand /\ call.disk = curr_disk /\ ata.lba = call.at
      /\ ata.count \in Nat
  BY DEF InCall, InCommand, IInv, CallSound, CommandSound, TypeOK, Command
<1>2. /\ j \in Nat /\ j >= 1
      /\ call.lba * sector_size + i - 1 = call.at * sector_size + j - 1
      /\ call.total + j = i /\ call.total + j - 1 = i - 1
  BY <1>1, NextPlaces
<1>3. ata.count * sector_size \in Nat
  BY <1>1, Sizes, Products
<1>4. j \in 1 .. ata.count * sector_size
  <2> DEFINE c == ata.count * sector_size
  <2>1. c \in Nat /\ j <= c
    BY <1>3
  <2> HIDE DEF c, j
  <2>2. j \in 1 .. c
    BY <1>2, <2>1
  <2> QED
    BY <2>2 DEF c
<1> HIDE DEF j
<1>5. ata.temp[j] = Byte(Len(writes), call.total + j - 1)
  BY <1>1, <1>2, <1>4 DEF HonestInv, BufferNext
<1>6. Landed(drive[curr_disk], media[curr_disk], ata.lba * sector_size + j - 1,
             ata.temp[j])
  <2>1. ~(ata.i < ata.count) /\ ata.i * sector_size = ata.count * sector_size
    BY <1>1
  <2> QED
    BY <1>4, <2>1 DEF HonestInv, HandedLanded
<1> QED
  BY <1>1, <1>2, <1>5, <1>6

(* The wrapper counts a command's bytes. *)
LEMMA HonestAdvance ==
  ASSUME IInv, HonestInv, ReadDone \/ WriteDone
  PROVE  HonestInv'
<1>1. /\ UNCHANGED <<media, drive, ata, settings>> /\ pc' = "loop"
      /\ call'.op = call.op /\ call'.disk = call.disk /\ call'.lba = call.lba
      /\ call.op = "write" => call'.total = call.total + ata.count * sector_size
  BY AdvanceKeeps
<1>2. writes' = writes /\ late' = late
  BY <1>1 DEF settings
<1>3. CASE call.op # "write"
  BY <1>1, <1>2, <1>3, HonestQuiet
<1>4. CASE call.op = "write"
  <2>1. PICK op \in {"read", "write"} : Succeeded(op, FALSE)
    BY DEF ReadDone, WriteDone
  <2>2. /\ pc = "xfer" /\ call.op = op /\ ata.count \in 1 .. call.left /\ call.total \in Nat
        /\ ata.count * sector_size \in Nat /\ call.len \in Nat /\ call.left \in Nat
    BY <2>1, CommandDone
  <2>3. InCall /\ ata.i = ata.count /\ ata.op = "write"
    BY <1>4, <2>1, <2>2 DEF InCall, Succeeded
  <2>4. call.total + ata.count * sector_size <= call.len
    <3>1. ata.count \in Nat /\ ata.count <= call.left
      BY <2>2
    <3> QED
      BY <1>4, <2>3, <3>1, ChunkInside
  <2>5. Moved = call.total /\ Moved' = call.total + ata.count * sector_size
    BY <1>1, <1>4, <2>2 DEF Moved
  <2> DEFINE c == ata.count * sector_size
  <2>6. ASSUME ~late, NEW i \in 1 .. call.total + c
        PROVE  Landed(drive[call.disk], media[call.disk], call.lba * sector_size + i - 1,
                      Byte(Len(writes), i - 1))
    <3>1. CASE i \in 1 .. call.total
      BY <1>4, <2>5, <2>6, <3>1 DEF HonestInv, CountedLanded
    <3>2. CASE i \notin 1 .. call.total
      <4>1. c \in Nat /\ call.total + c <= call.len
        BY <2>2, <2>4
      <4> HIDE DEF c
      <4>2. i \in Nat /\ i > call.total /\ i <= call.len /\ i - call.total <= c
        BY <2>2, <2>6, <3>2, <4>1
      <4> QED
        BY <1>4, <2>2, <2>3, <2>6, <4>2, CommandLanded DEF c
    <3> QED
      BY <3>1, <3>2
  <2> HIDE DEF c
  <2>7. Moved' = call.total + c
    BY <2>5 DEF c
  <2>8. ASSUME ~late PROVE CountedLanded'
    <3> SUFFICES ASSUME NEW i \in 1 .. Moved'
                 PROVE  Landed(drive'[call'.disk], media'[call'.disk],
                               call'.lba * sector_size + i - 1,
                               Byte(Len(writes'), i - 1))
      BY Zenon DEF CountedLanded
    <3>1. i \in 1 .. call.total + c
      BY <2>7
    <3> QED
      BY <1>1, <1>2, <2>6, <2>8, <3>1
  <2>9. BufferNext' /\ HandedLanded'
    BY <1>1 DEF BufferNext, HandedLanded, InCommand
  <2> QED
    BY <1>2, <2>8, <2>9 DEF HonestInv
<1> QED
  BY <1>3, <1>4

(* A drive that is not putting a sector away takes a step that leaves the  *)
(* media alone: what had landed on it has landed still.                    *)
LEMMA LandedKept ==
  ASSUME NEW r, NEW r1, NEW m, NEW p, NEW b, r.st # "stuck",
         ~(r.st = "busy" /\ r.op = "write" /\ r.data # <<>>),
         ~(r1.st = "busy" /\ r1.op = "write" /\ r1.data # <<>> /\ p \in Sector(r1.lba)),
         Landed(r, m, p, b)
  PROVE  Landed(r1, m, p, b)
BY DEF Landed

(* The partial last sector is written: the whole length is returned. *)
LEMMA HonestTailDone ==
  ASSUME IInv, HonestInv, TailDone
  PROVE  HonestInv'
<1>1. /\ pc = "xfer" /\ ata.i = ata.count /\ ata.op = "write" /\ ata.tail
      /\ Return(call.len) /\ UNCHANGED <<media, selected, settings>>
      /\ drive' = flush_cache
  BY DEF TailDone, Succeeded
<1>2. InCall /\ InCommand /\ writes' = writes /\ late' = late
      /\ UNCHANGED <<valid, probed, curr_disk, selected>>
  BY <1>1 DEF InCall, InCommand, settings
<1>3. call.left = 0 /\ HasTail /\ ata.count = 1
  BY <1>1, <1>2 DEF IInv, CommandSound
<1>4. call.op = "write" /\ call.len \in Nat /\ call.total \in Nat
  BY <1>3 DEF HasTail, IInv, TypeOK, Call
<1>5. call.len - call.total <= ata.count * sector_size
  <2> DEFINE done == call.at - call.lba
             r == call.len % sector_size
  <2>1. /\ call.at \in Nat /\ call.lba \in Nat
    BY DEF IInv, TypeOK, Call
  <2>2. /\ call.total = done * sector_size /\ done \in Nat
        /\ call.len = (done + call.left) * sector_size + r
    BY <1>2, <1>4, <2>1 DEF IInv, CallSound
  <2>3. r \in 0 .. sector_size - 1 /\ 1 * sector_size = sector_size
    BY <1>4, SectorsOfLength, Sizes, Products
  <2>4. done + call.left = done
    BY <1>3, <2>2
  <2> HIDE DEF done, r
  <2>5. call.len = call.total + r
    BY <2>2, <2>4
  <2>6. ata.count * sector_size = sector_size
    BY <1>3, <2>3
  <2> QED
    BY <1>4, <2>3, <2>5, <2>6, Sizes
<1>6. /\ pc' = "idle" /\ call'.op = call.op /\ call'.disk = call.disk
      /\ call'.lba = call.lba /\ call'.ret = call.len
  BY <1>1, <1>4, ReturnFields DEF IInv
<1>7. Moved = call.total /\ Moved' = call.len
  BY <1>1, <1>6 DEF Moved
<1>8. ASSUME ~late, NEW i \in 1 .. call.len
      PROVE  Landed(drive[call.disk], media[call.disk], call.lba * sector_size + i - 1,
                    Byte(Len(writes), i - 1))
  <2>1. CASE i \in 1 .. call.total
    BY <1>4, <1>7, <1>8, <2>1 DEF HonestInv, CountedLanded
  <2>2. CASE i \notin 1 .. call.total
    <3> DEFINE c == ata.count * sector_size
    <3>1. c \in Nat /\ call.len - call.total <= c
      BY <1>3, <1>5, Sizes, Products
    <3> HIDE DEF c
    <3>2. i \in Nat /\ i > call.total /\ i <= call.len /\ i - call.total <= c
      BY <1>4, <1>8, <2>2, <3>1
    <3> QED
      BY <1>1, <1>4, <1>8, <3>2, CommandLanded DEF c
  <2> QED
    BY <2>1, <2>2
<1>a. \A p, b : Landed(drive[call.disk], media[call.disk], p, b)
                  => Landed(drive'[call.disk], media[call.disk], p, b)
  <2>1. call.disk = curr_disk /\ curr_disk \in Disks
    BY <1>2 DEF IInv, CallSound, TypeOK
  <2>2. CASE drive' = drive
    BY <2>2
  <2>3. CASE drive[curr_disk].st = "ready" /\ Flushing(curr_disk)'
    BY <1>2, <2>1, <2>3, LandedKept DEF Flushing
  <2> QED
    BY <1>1, <1>2, <2>2, <2>3, FlushCache
<1>9. ASSUME ~late PROVE CountedLanded'
  <2> SUFFICES ASSUME NEW i \in 1 .. Moved'
               PROVE  Landed(drive'[call'.disk], media'[call'.disk],
                             call'.lba * sector_size + i - 1, Byte(Len(writes'), i - 1))
    BY Zenon DEF CountedLanded
  <2>1. i \in 1 .. call.len
    BY <1>7
  <2>2. Landed(drive'[call.disk], media[call.disk], call.lba * sector_size + i - 1,
               Byte(Len(writes), i - 1))
    BY <1>8, <1>9, <1>a, <2>1
  <2> QED
    BY <1>1, <1>2, <1>6, <2>2
<1>10. BufferNext' /\ HandedLanded'
  BY <1>6 DEF BufferNext, HandedLanded, InCommand
<1> QED
  BY <1>2, <1>9, <1>10 DEF HonestInv

(* A command is begun. *)
LEMMA HonestStart ==
  ASSUME IInv, PlaceInv, HonestInv, NextRead \/ NextWrite \/ ReadTail
  PROVE  HonestInv'
<1>1. /\ pc = "loop" /\ InCall /\ UNCHANGED <<media, drive, selected, settings>>
      /\ call.total \in Nat /\ call.left \in Nat /\ call.len \in Nat
  BY DEF NextRead, NextWrite, ReadTail, StartCommand, InCall, IInv, TypeOK, Call
<1>2. CASE Return(call.total)
  BY <1>1, <1>2, HonestReturn
<1>3. CASE ~Return(call.total)
  <2>1. writes' = writes /\ late' = late
    BY <1>1 DEF settings
  <2>2. pc' = "wait" /\ call' = call
    BY <1>3 DEF NextRead, NextWrite, ReadTail, StartCommand
  <2>3. Moved' = Moved
    BY <1>1, <2>2 DEF Moved
  <2>4. ASSUME ~late PROVE CountedLanded'
    BY <1>1, <2>1, <2>2, <2>3, <2>4, CountedFrame DEF HonestInv
  <2>5. HandedLanded'
    BY <2>2 DEF HandedLanded
  <2>6. BufferNext'
    <3>1. SUFFICES ASSUME ata'.op = "write", NEW j \in 1 .. ata'.count * sector_size,
                          call.total + j <= call.len
                   PROVE  ata'.temp[j] = Byte(Len(writes), call.total + j - 1)
      BY <2>1, <2>2 DEF BufferNext
    <3> DEFINE n == CommandCount(SectorCode(call.left))
               k == n * sector_size
    <3>2. NextWrite /\ call.op = "write" /\ call.left > 0
      BY <1>3, <3>1 DEF NextRead, NextWrite, ReadTail, StartCommand
    <3>3. n \in 1 .. call.left /\ SectorsOf(SectorCode(call.left)) = n
      BY <1>1, <3>2, Counts
    <3>4. ata'.count = n /\ ata'.temp = Chunk(k)
      BY <1>3, <3>2, <3>3 DEF NextWrite, StartCommand
    <3>5. k \in Nat
      BY <1>1, <3>2, <3>3, ChunkInside
    <3>6. ata'.count * sector_size = k
      BY <3>4
    <3> HIDE DEF n, k
    <3>7. j \in 1 .. k /\ j \in Nat /\ j >= 1
      BY <3>5, <3>6
    <3>8. Chunk(k)[j] = call.buf[call.total + j]
      BY <3>7 DEF Chunk
    <3>9. call.buf[call.total + j] = Byte(Len(writes), call.total + j - 1)
      BY <1>1, <3>1, <3>2, <3>7, PlaceOfByte DEF PlaceInv
    <3> QED
      BY <3>4, <3>8, <3>9
  <2> QED
    BY <2>1, <2>4, <2>5, <2>6 DEF HonestInv
<1> QED
  BY <1>2, <1>3

(* The command is sent: no sector has been handed over, and what was       *)
(* counted before had landed on a drive that was ready.                    *)
LEMMA HonestSend ==
  ASSUME IInv, HonestInv, NEW op \in {"read", "write"}, SendCommand(op)
  PROVE  HonestInv'
<1>1. /\ pc = "wait" /\ pc' = "xfer" /\ BsyClear
      /\ UNCHANGED <<media, call, ata, curr_disk, writes, late>>
      /\ curr_disk \in Disks /\ call.disk \in Disks
  BY DEF SendCommand, settings, IInv, TypeOK, Call
<1>2. drive[curr_disk].st = "ready"
  BY <1>1, ReadyToSend
<1>3. /\ drive'[curr_disk].st = "busy" /\ drive'[curr_disk].data = <<>>
      /\ \A d \in Disks : d # curr_disk => drive'[d] = drive[d]
  BY <1>1, <1>2 DEF SendCommand, IInv, TypeOK
<1>4. \A p, b : Landed(drive[call.disk], media[call.disk], p, b)
                  => Landed(drive'[call.disk], media'[call.disk], p, b)
  <2>1. CASE call.disk = curr_disk
    BY <1>1, <1>2, <1>3, <2>1, LandedKept
  <2>2. CASE call.disk # curr_disk
    BY <1>1, <1>3, <2>2
  <2> QED
    BY <2>1, <2>2
<1>5. Moved' = Moved
  BY <1>1 DEF Moved
<1>6. ASSUME ~late PROVE CountedLanded'
  BY <1>1, <1>4, <1>5, <1>6, CountedFrame DEF HonestInv
<1>7. ASSUME ~late PROVE BufferNext'
  BY <1>1, <1>7 DEF HonestInv, BufferNext, InCommand
<1>8. HandedLanded'
  <2>1. ata.i = 0 /\ 0 * sector_size = 0
    BY <1>1, Sizes, Products DEF IInv, CommandSound, InCommand
  <2>2. ata'.i * sector_size = 0
    BY <1>1, <2>1
  <2>3. \A j \in 1 .. ata'.i * sector_size : FALSE
    BY <2>2
  <2> QED
    BY <2>3 DEF HandedLanded
<1> QED
  BY <1>1, <1>6, <1>7, <1>8 DEF HonestInv

(* A sector is read: nothing that has landed changes. *)
LEMMA HonestReadSector ==
  ASSUME IInv, HonestInv, ReadSector
  PROVE  HonestInv'
<1> DEFINE D == drive[curr_disk]
<1>1. /\ pc = "xfer" /\ ata.op = D.op /\ D \in DriveState /\ D.st = "drq"
      /\ UNCHANGED <<media, call, pc, writes, late>> /\ curr_disk \in Disks
  BY SectorSteps DEF settings
<1>2. /\ drive' = [drive EXCEPT ![curr_disk] =
                     IF D.left = 0 THEN Idle ELSE [D EXCEPT !.st = "busy"]]
      /\ ata.op = "read" /\ ata' = [ata EXCEPT !.i = @ + 1, !.temp = @ \o D.data]
      /\ ata \in Command /\ call.disk \in Disks
  BY DEF ReadSector, IInv, TypeOK, Call
<1>3. ata'.op = "read"
  BY <1>2 DEF Command
<1>4. /\ drive'[curr_disk].st = "ready" \/ drive'[curr_disk].op = "read"
      /\ \A d \in Disks : d # curr_disk => drive'[d] = drive[d]
  BY <1>1, <1>2 DEF IInv, TypeOK, DriveState, Idle
<1>5. \A p, b : Landed(drive[call.disk], media[call.disk], p, b)
                  => Landed(drive'[call.disk], media'[call.disk], p, b)
  <2>1. CASE call.disk = curr_disk
    BY <1>1, <1>4, <2>1, LandedKept
  <2>2. CASE call.disk # curr_disk
    BY <1>1, <1>2, <1>4, <2>2
  <2> QED
    BY <2>1, <2>2
<1>6. Moved' = Moved
  BY <1>1 DEF Moved
<1>7. ASSUME ~late PROVE CountedLanded'
  BY <1>1, <1>5, <1>6, <1>7, CountedFrame DEF HonestInv
<1>8. BufferNext' /\ HandedLanded'
  BY <1>3 DEF BufferNext, HandedLanded
<1> QED
  BY <1>1, <1>7, <1>8 DEF HonestInv

(* A sector handed over lands on the drive, after those before it have     *)
(* landed on the media.                                                    *)
LEMMA HonestWriteSector ==
  ASSUME IInv, HonestInv, WriteSector
  PROVE  HonestInv'
<1> DEFINE D == drive[curr_disk]
           l == ata.lba + ata.i
           k == ata.i * sector_size
           m == ata.lba * sector_size
           data == SubSeq(ata.temp, ata.i * sector_size + 1, (ata.i + 1) * sector_size)
           X == [D EXCEPT !.st = "busy", !.data = data]
<1>1. /\ pc = "xfer" /\ ata.i < ata.count /\ ata.i \in Nat /\ ata.count \in Nat
      /\ D.st = "drq" /\ D \in DriveState /\ curr_disk \in Disks
      /\ ata.lba \in Nat /\ ata.temp \in Seq(Bytes)
      /\ ata.lba + ata.count <= total_sectors
      /\ (ata.i + 1) * sector_size = k + sector_size /\ k \in Nat
      /\ (ata.i + 1) * sector_size <= ata.count * sector_size
      /\ UNCHANGED <<media, call, pc, curr_disk, writes, late>>
  BY SectorSteps DEF settings
<1>2. /\ ata.op = "write" /\ ata' = [ata EXCEPT !.i = @ + 1, !.flush = TRUE]
      /\ drive' = [drive EXCEPT ![curr_disk] = X] /\ ata \in Command
      /\ call.disk \in Disks
  BY DEF WriteSector, IInv, TypeOK, Call
<1>3. D.lba = l /\ D.op = "write"
  BY <1>1, <1>2 DEF IInv, InStep, Flushing, Writing
<1>4. Len(ata.temp) = ata.count * sector_size
  BY <1>1, <1>2 DEF IInv, CommandSound, InCommand
<1>5. data # <<>> /\ \A j \in 1 .. sector_size : data[j] = ata.temp[k + j]
  BY <1>1, <1>4, SectorOfBuffer
<1> HIDE DEF data
<1>6. /\ X.st = "busy" /\ X.op = "write" /\ X.data = data /\ X.lba = l
  BY <1>1, <1>3 DEF DriveState
<1>7. /\ drive'[curr_disk] = X /\ \A d \in Disks : d # curr_disk => drive'[d] = drive[d]
  BY <1>1, <1>2 DEF IInv, TypeOK
<1> HIDE DEF X
<1>8. /\ ata'.op = "write" /\ ata'.lba = ata.lba /\ ata'.temp = ata.temp
      /\ ata'.count = ata.count /\ ata'.i = ata.i + 1
  BY <1>2 DEF Command
<1>9. /\ l \in Nat /\ l < total_sectors /\ ata.lba <= l
      /\ l * sector_size = m + k /\ m \in Nat
  <2>2. /\ ata.lba \in Nat /\ ata.i \in Nat /\ ata.count \in Nat
        /\ ata.i < ata.count /\ ata.lba + ata.count <= total_sectors
    BY <1>1
  <2>1. l \in Nat /\ l < total_sectors /\ ata.lba <= l
    BY <2>2, Sizes
  <2>3. (ata.lba + ata.i) * sector_size = ata.lba * sector_size + ata.i * sector_size
        /\ ata.lba * sector_size \in Nat
    BY <2>2, Sizes, Products
  <2> QED
    BY <2>1, <2>3
<1>10. call.op = "write" /\ InCall /\ ata.lba = call.at /\ InCommand
  <2>1. InCall /\ InCommand
    BY <1>1 DEF InCall, InCommand
  <2> QED
    BY <1>2, <2>1 DEF IInv, CommandSound, HasTail
<1>11. Moved' = Moved /\ Moved = call.total
  BY <1>1 DEF Moved
<1>12. ASSUME ~late PROVE CountedLanded'
  <2>1. ASSUME NEW i \in 1 .. Moved, NEW b,
               Landed(drive[call.disk], media[call.disk], call.lba * sector_size + i - 1, b)
        PROVE  Landed(drive'[call.disk], media'[call.disk],
                      call.lba * sector_size + i - 1, b)
    <3> DEFINE p == call.lba * sector_size + i - 1
    <3>1. p \in Nat /\ p < call.at * sector_size
      BY <1>10, <1>11, CountedPlaces
    <3> HIDE DEF p, l
    <3>2. p \notin Sector(l)
      BY <1>1, <1>9, <1>10, <3>1, BeforeSector
    <3>3. Landed(drive[call.disk], media[call.disk], p, b)
      BY <2>1 DEF p
    <3>4. Landed(drive'[call.disk], media'[call.disk], p, b)
      <4>1. CASE call.disk = curr_disk
        <5>1. media' = media /\ D.st = "drq" /\ drive'[call.disk] = X /\ X.lba = l
          BY <1>1, <1>6, <1>7, <4>1
        <5> QED
          BY <3>2, <3>3, <4>1, <5>1, LandedKept
      <4>2. CASE call.disk # curr_disk
        BY <1>1, <1>2, <1>7, <3>3, <4>2
      <4> QED
        BY <4>1, <4>2
    <3> QED
      BY <3>4 DEF p
  <2> QED
    BY <1>1, <1>11, <1>12, <2>1, CountedFrame DEF HonestInv
<1>13. ASSUME ~late PROVE BufferNext'
  <2>1. BufferNext
    BY <1>13 DEF HonestInv
  <2> SUFFICES ASSUME NEW j \in 1 .. ata'.count * sector_size,
                      call'.total + j <= call'.len
               PROVE  ata'.temp[j] = Byte(Len(writes'), call'.total + j - 1)
    BY Zenon DEF BufferNext
  <2>2. /\ ata'.count * sector_size = ata.count * sector_size /\ call' = call
        /\ writes' = writes
    BY <1>1, <1>8
  <2>3. j \in 1 .. ata.count * sector_size /\ call.total + j <= call.len
    BY <2>2
  <2>4. ata.temp[j] = Byte(Len(writes), call.total + j - 1)
    BY <1>2, <1>10, <2>1, <2>3 DEF BufferNext
  <2> QED
    BY <1>8, <2>2, <2>4
<1>14. ASSUME ~late PROVE HandedLanded'
  <2>1. \A j \in 1 .. k : Landed(D, media[curr_disk], m + j - 1, ata.temp[j])
    BY <1>1, <1>2, <1>14 DEF HonestInv, HandedLanded, Flushing
  <2>2. ASSUME NEW j \in 1 .. k + sector_size
        PROVE  Landed(X, media[curr_disk], m + j - 1, ata.temp[j])
    <3> DEFINE p == m + j - 1
    <3> HIDE DEF k, m, l
    <3>0. k \in Nat /\ m \in Nat /\ sector_size \in Nat /\ j \in Nat /\ j >= 1
      BY <1>1, <1>9, <2>2, Sizes
    <3>1. CASE j <= k
      <4>1. Landed(D, media[curr_disk], p, ata.temp[j])
        BY <2>1, <3>0, <3>1
      <4>2. p \in Nat /\ p < l * sector_size
        <5> DEFINE y == l * sector_size
        <5>1. y = m + k
          BY <1>9
        <5> HIDE DEF y
        <5>2. p \in Nat /\ p < y
          BY <3>0, <3>1, <5>1
        <5> QED
          BY <5>2 DEF y
      <4> HIDE DEF p
      <4>3. p \notin Sector(l)
        BY <1>9, <4>2, BeforeSector
      <4>4. Landed(X, media[curr_disk], p, ata.temp[j])
        BY <1>1, <1>6, <4>1, <4>3, LandedKept
      <4> QED
        BY <4>4 DEF p
    <3>2. CASE j > k
      <4> DEFINE y == l * sector_size
      <4>1. y = m + k
        BY <1>9
      <4> HIDE DEF y
      <4>2. /\ j - k \in 1 .. sector_size /\ p = y + (j - k) - 1
            /\ p - y + 1 = j - k /\ k + (j - k) = j
        BY <2>2, <3>0, <3>2, <4>1
      <4>3. p \in Sector(l) /\ p \in DiskBytes
        <5>1. /\ l * sector_size + (j - k) - 1 \in Sector(l)
              /\ l * sector_size + (j - k) - 1 \in DiskBytes
          BY <1>9, <4>2, SectorInside
        <5> QED
          BY <4>2, <5>1 DEF y
      <4>4. X.data[p - X.lba * sector_size + 1] = ata.temp[j]
        <5>1. X.lba * sector_size = y
          BY <1>6 DEF y
        <5>2. data[j - k] = ata.temp[k + (j - k)]
          BY <1>5, <4>2
        <5> QED
          BY <1>6, <4>2, <5>1, <5>2
      <4> HIDE DEF p
      <4>5. Landed(X, media[curr_disk], p, ata.temp[j])
        BY <1>5, <1>6, <4>3, <4>4 DEF Landed
      <4> QED
        BY <4>5 DEF p
    <3> QED
      BY <3>0, <3>1, <3>2
  <2>3. ata'.i * sector_size = k + sector_size
    BY <1>1, <1>8
  <2> HIDE DEF k
  <2> SUFFICES ASSUME NEW j \in 1 .. ata'.i * sector_size
               PROVE  Landed(drive'[curr_disk'], media'[curr_disk'],
                             ata'.lba * sector_size + j - 1, ata'.temp[j])
    BY Zenon DEF HandedLanded
  <2>4. j \in 1 .. k + sector_size
    BY <2>3
  <2>5. Landed(X, media[curr_disk], m + j - 1, ata.temp[j])
    BY <2>2, <2>4
  <2> QED
    BY <1>1, <1>7, <1>8, <2>5
<1> QED
  BY <1>1, <1>12, <1>13, <1>14 DEF HonestInv

(* A FLUSH after a sector keeps what has landed: a drive that has the      *)
(* sector ignores it, and one that gives the write up has sectors to come, *)
(* so that the driver finds out.                                           *)
LEMMA HonestFlushSector ==
  ASSUME IInv, HonestInv, FlushSector
  PROVE  HonestInv'
<1> DEFINE D == drive[curr_disk]
<1>1. /\ pc = "xfer" /\ pc' = "xfer" /\ UNCHANGED <<media, call, settings>>
      /\ ata'.op = ata.op /\ ata'.lba = ata.lba /\ ata'.count = ata.count
      /\ ata'.i = ata.i /\ ata'.temp = ata.temp
      /\ \A d \in Disks : /\ d # curr_disk => drive'[d] = drive[d]
                          /\ Writing(d)' = Writing(d)
                          /\ Writing(d) => drive'[d] = drive[d]
      /\ \/ drive' = drive
         \/ D.st = "ready" /\ Flushing(curr_disk)'
         \/ D.st = "drq" /\ drive'[curr_disk].st = "ready"
  BY FlushSectorKeeps
<1>2. UNCHANGED <<curr_disk, writes, late>> /\ Moved' = Moved
      /\ call.disk \in Disks /\ curr_disk \in Disks
  BY <1>1 DEF settings, Moved, IInv, TypeOK, Call
<1>3. \A p, b : Landed(D, media[curr_disk], p, b)
                  => Landed(drive'[curr_disk], media[curr_disk], p, b)
  <2>1. CASE drive' = drive
    BY <2>1
  <2>2. CASE D.st = "ready" /\ Flushing(curr_disk)'
    BY <1>2, <2>2, LandedKept DEF Flushing
  <2>3. CASE D.st = "drq" /\ drive'[curr_disk].st = "ready"
    BY <2>3, LandedKept
  <2> QED
    BY <1>1, <2>1, <2>2, <2>3
<1>4. \A p, b : Landed(drive[call.disk], media[call.disk], p, b)
                  => Landed(drive'[call.disk], media'[call.disk], p, b)
  <2>1. CASE call.disk = curr_disk
    BY <1>1, <1>3, <2>1
  <2>2. CASE call.disk # curr_disk
    BY <1>1, <1>2, <2>2
  <2> QED
    BY <2>1, <2>2
<1>5. ASSUME ~late PROVE CountedLanded'
  BY <1>1, <1>2, <1>4, <1>5, CountedFrame DEF HonestInv
<1>6. ASSUME ~late PROVE BufferNext'
  BY <1>1, <1>2, <1>6 DEF HonestInv, BufferNext, InCommand
<1>7. ASSUME ~late PROVE HandedLanded'
  <2>1. SUFFICES ASSUME ata.op = "write"
                 PROVE  \/ /\ \/ drive'[curr_disk].st \in {"ready", "stuck"}
                              \/ Flushing(curr_disk)'
                           /\ ata.i < ata.count
                        \/ \A j \in 1 .. ata.i * sector_size :
                             Landed(drive'[curr_disk], media[curr_disk],
                                    ata.lba * sector_size + j - 1, ata.temp[j])
    BY <1>1, <1>2 DEF HandedLanded
  <2>2. CASE ata.i < ata.count /\ D.st \in {"ready", "drq"} /\ drive' # drive
    BY <1>1, <2>2
  <2>3. CASE ~(ata.i < ata.count) /\ D.st = "drq"
    BY <1>1, <2>1, <2>3 DEF IInv, InStep, Flushing, Writing
  <2>4. CASE drive' = drive \/ ~(ata.i < ata.count)
    <3>1. \/ /\ D.st \in {"ready", "stuck"} \/ Flushing(curr_disk)
             /\ ata.i < ata.count
          \/ \A j \in 1 .. ata.i * sector_size :
               Landed(D, media[curr_disk], ata.lba * sector_size + j - 1, ata.temp[j])
      BY <1>1, <1>7, <2>1 DEF HonestInv, HandedLanded
    <3>2. drive' = drive => (Flushing(curr_disk)' = Flushing(curr_disk))
      BY <1>2 DEF Flushing
    <3> QED
      BY <1>3, <2>4, <3>1, <3>2
  <2> QED
    BY <1>1, <2>2, <2>3, <2>4
<1> QED
  BY <1>2, <1>5, <1>6, <1>7 DEF HonestInv

(* The write of the partial sector is begun: its buffer starts with the    *)
(* caller's last bytes.                                                    *)
LEMMA HonestWriteTail ==
  ASSUME IInv, PlaceInv, HonestInv, WriteTail
  PROVE  HonestInv'
<1> DEFINE r == call.len % sector_size
<1>1. /\ pc = "xfer" /\ InCall /\ call.op = "write"
      /\ r \in 1 .. sector_size - 1 /\ call.len = call.total + r /\ call.total \in Nat
      /\ \A j \in 1 .. sector_size :
           TailBuffer[j] = IF j <= r THEN call.buf[call.total + j] ELSE ata.temp[j]
  BY TailMerged
<1>2. /\ pc' = "wait" /\ UNCHANGED <<media, drive, call, writes, late>>
      /\ ata'.count = 1 /\ ata'.temp = TailBuffer
  BY WriteTailKeeps DEF settings
<1> HIDE DEF r
<1>3. Moved' = Moved
  BY <1>1, <1>2 DEF Moved
<1>4. ASSUME ~late PROVE CountedLanded'
  BY <1>2, <1>3, <1>4, CountedFrame DEF HonestInv
<1>5. HandedLanded'
  BY <1>2 DEF HandedLanded
<1>6. BufferNext'
  <2>1. 1 * sector_size = sector_size
    BY Sizes, Products
  <2>2. ata'.count * sector_size = sector_size
    BY <1>2, <2>1
  <2>3. SUFFICES ASSUME NEW j \in 1 .. sector_size, call.total + j <= call.len
                 PROVE  TailBuffer[j] = Byte(Len(writes), call.total + j - 1)
    BY <1>2, <2>2 DEF BufferNext
  <2>4. j \in Nat /\ j >= 1 /\ j <= r
    BY <1>1, <2>3, Sizes
  <2>5. call.buf[call.total + j] = Byte(Len(writes), call.total + j - 1)
    BY <1>1, <2>3, <2>4, PlaceOfByte DEF PlaceInv
  <2> QED
    BY <1>1, <2>4, <2>5
<1> QED
  BY <1>2, <1>4, <1>5, <1>6 DEF HonestInv

(* A drive's step keeps what has landed, unless it fails: then what was    *)
(* counted before the command under way is kept.                           *)
LEMMA DriveKeepsLanded ==
  ASSUME IInv, NEW d \in Disks, DriveStep(d), NEW p, NEW b,
         ~(DriveErrs(d) /\ Writing(d) /\ p \in Sector(drive[d].lba)),
         Landed(drive[d], media[d], p, b)
  PROVE  Landed(drive'[d], media'[d], p, b)
<1> DEFINE r == drive[d]
<1>0. r.st = "busy" /\ p \in DiskBytes
  BY DEF DriveStep, DriveErrs, DriveReads, DriveWrites, DriveFlushes, DriveSticks, Landed
<1>1. CASE DriveReads(d)
  <2>1. media' = media /\ drive'[d].st = "drq" /\ r.op = "read"
    BY <1>1, DriveReadsKeeps DEF DriveReads
  <2> QED
    BY <1>0, <2>1, LandedKept
<1>2. CASE DriveSticks(d)
  <2>1. drive'[d].st = "stuck"
    BY <1>2, DriveFailsKeeps
  <2> QED
    BY <1>0, <2>1 DEF Landed
<1>3. CASE DriveErrs(d)
  <2>1. media' = media /\ drive'[d].st = "ready"
    BY <1>3, DriveFailsKeeps
  <2>2. media[d][p] = b
    BY <1>0, <1>3 DEF Landed, Writing
  <2> QED
    BY <1>0, <2>1, <2>2 DEF Landed
<1>4. CASE DriveWrites(d)
  <2>1. /\ r.op = "write" /\ drive'[d].st \in {"ready", "drq"}
        /\ ~Writing(d) => media' = media
        /\ Writing(d) =>
             media'[d] = [x \in DiskBytes |->
                            IF x \in Sector(r.lba)
                              THEN r.data[x - r.lba * sector_size + 1]
                              ELSE media[d][x]]
    BY <1>4, DriveWritesKeeps
  <2>2. media'[d][p] = b
    <3>1. CASE ~Writing(d)
      BY <1>0, <2>1, <3>1 DEF Landed, Writing
    <3>2. CASE Writing(d)
      <4>1. media'[d][p] = IF p \in Sector(r.lba)
                             THEN r.data[p - r.lba * sector_size + 1] ELSE media[d][p]
        BY <1>0, <2>1, <3>2
      <4> QED
        BY <1>0, <3>2, <4>1 DEF Landed, Writing
    <3> QED
      BY <3>1, <3>2
  <2> QED
    BY <1>0, <2>1, <2>2 DEF Landed
<1>5. CASE DriveFlushes(d)
  <2>1. media' = media /\ drive'[d].st = "ready" /\ r.op = "flush"
    BY <1>5, DriveFlushesKeeps DEF Flushing
  <2> QED
    BY <1>0, <2>1, LandedKept
<1> QED
  BY <1>1, <1>2, <1>3, <1>4, <1>5 DEF DriveStep

(* An error that comes before the last sector finds the driver still in    *)
(* the command.                                                            *)
LEMMA EarlyError ==
  ASSUME IInv, NEW d \in Disks, drive[d].st = "busy", ~OnLastSector(d),
         drive[d].op # "flush"
  PROVE  /\ pc = "xfer" /\ d = curr_disk
         /\ ata.op = "write" => ata.i < ata.count
         /\ Writing(d) => drive[d].lba >= ata.lba /\ ata.lba = call.at
<1>1. ~(Writing(d) /\ drive[d].left = 1)
  BY DEF Writing, OnLastSector
<1>2. /\ pc = "xfer" /\ d = curr_disk /\ ata.i \in Nat /\ ata.count \in Nat
      /\ ata.lba \in Nat /\ ata.i <= ata.count
  BY <1>1, ServingWhere
<1>3. drive[d].op = ata.op /\ ata.lba = call.at
  BY <1>2 DEF IInv, InStep, Flushing, CommandSound, InCommand
<1>4. CASE Writing(d)
  <2>1. /\ ata.i >= 1 /\ drive[d].lba = ata.lba + ata.i - 1
        /\ drive[d].left = ata.count - ata.i + 1
    BY <1>2, <1>4 DEF IInv, InStep, Flushing, Writing
  <2> QED
    BY <1>1, <1>2, <1>3, <1>4, <2>1
<1>5. CASE ~Writing(d)
  <2>1. ata.op = "write" => ata.i < ata.count
    BY <1>2, <1>3, <1>5 DEF IInv, InStep, Flushing
  <2> QED
    BY <1>2, <1>5, <2>1
<1> QED
  BY <1>4, <1>5

(* A drive serves its command, or fails. *)
LEMMA HonestDrive ==
  ASSUME IInv, ReadInv, HonestInv, NEW d \in Disks, DriveStep(d)
  PROVE  HonestInv'
<1> SUFFICES ASSUME ~late' PROVE CountedLanded' /\ BufferNext' /\ HandedLanded'
  BY DEF HonestInv
<1>1. /\ UNCHANGED <<call, ata, pc, curr_disk, writes>> /\ Moved' = Moved
      /\ curr_disk \in Disks /\ call.disk \in Disks
  BY DEF DriveStep, Moved, IInv, TypeOK, Call
<1>2. ~late /\ (DriveErrs(d) => ~OnLastSector(d))
  <2>1. CASE DriveErrs(d)
    <3>1. late' = (late \/ OnLastSector(d))
      BY <2>1, Zenon DEF DriveErrs
    <3> QED
      BY <3>1, Zenon
  <2>2. CASE ~DriveErrs(d)
    <3>1. late' = late
      BY <2>2, Zenon DEF DriveStep
    <3> QED
      BY <2>2, <3>1
  <2> QED
    BY <2>1, <2>2
<1>3. CountedLanded /\ BufferNext /\ HandedLanded
  BY <1>2 DEF HonestInv
<1>4. drive[d].st = "busy"
  BY DEF DriveStep, DriveErrs, DriveReads, DriveWrites, DriveFlushes, DriveSticks
<1>5. \A e \in Disks : e # d => drive'[e] = drive[e] /\ media'[e] = media[e]
  <2>1. CASE DriveReads(d)
    BY <2>1, DriveReadsKeeps
  <2>2. CASE DriveWrites(d)
    BY <2>2, DriveWritesKeeps
  <2>3. CASE DriveErrs(d) \/ DriveSticks(d)
    BY <2>3, DriveFailsKeeps
  <2>4. CASE DriveFlushes(d)
    BY <2>4, DriveFlushesKeeps
  <2> QED
    BY <2>1, <2>2, <2>3, <2>4 DEF DriveStep
<1>6. CountedLanded'
  <2>1. ASSUME call.op = "write", NEW i \in 1 .. Moved, NEW b,
               Landed(drive[call.disk], media[call.disk], call.lba * sector_size + i - 1, b)
        PROVE  Landed(drive'[call.disk], media'[call.disk],
                      call.lba * sector_size + i - 1, b)
    <3> DEFINE p == call.lba * sector_size + i - 1
    <3>1. CASE call.disk # d
      BY <1>1, <1>5, <2>1, <3>1
    <3>2. CASE call.disk = d
      <4>1. ~(DriveErrs(d) /\ Writing(d) /\ p \in Sector(drive[d].lba))
        <5> SUFFICES ASSUME DriveErrs(d), Writing(d) PROVE p \notin Sector(drive[d].lba)
          OBVIOUS
        <5>1. /\ pc = "xfer" /\ drive[d].lba >= ata.lba /\ ata.lba = call.at
          BY <1>2, <1>4, EarlyError DEF Writing
        <5>2. InCall /\ Moved = call.total
          BY <5>1 DEF InCall, Moved
        <5>3. p \in Nat /\ p < call.at * sector_size
          BY <2>1, <5>2, CountedPlaces
        <5>4. call.at \in Nat /\ drive[d].lba \in Nat
          BY DEF IInv, TypeOK, Call, DriveState
        <5> HIDE DEF p
        <5> QED
          BY <5>1, <5>3, <5>4, BeforeSector
      <4> HIDE DEF p
      <4>2. Landed(drive[d], media[d], p, b)
        BY <2>1, <3>2 DEF p
      <4>3. Landed(drive'[d], media'[d], p, b)
        BY <4>1, <4>2, DriveKeepsLanded
      <4> QED
        BY <3>2, <4>3 DEF p
    <3> QED
      BY <3>1, <3>2
  <2> QED
    BY <1>1, <1>3, <2>1, CountedFrame
<1>7. BufferNext'
  BY <1>1, <1>3 DEF BufferNext, InCommand
<1>8. HandedLanded'
  <2>0. SUFFICES ASSUME pc' = "xfer", ata'.op = "write",
                        ~(/\ \/ drive'[curr_disk'].st \in {"ready", "stuck"}
                             \/ Flushing(curr_disk)'
                          /\ ata'.i < ata'.count),
                        NEW j \in 1 .. ata'.i * sector_size
                 PROVE  Landed(drive'[curr_disk'], media'[curr_disk'],
                               ata'.lba * sector_size + j - 1, ata'.temp[j])
    BY Zenon DEF HandedLanded
  <2>1. /\ pc = "xfer" /\ ata.op = "write" /\ j \in 1 .. ata.i * sector_size
        /\ ~(drive'[curr_disk].st \in {"ready", "stuck"} /\ ata.i < ata.count)
        /\ ~(Flushing(curr_disk)' /\ ata.i < ata.count)
    BY <1>1, <2>0
  <2> SUFFICES Landed(drive'[curr_disk], media'[curr_disk],
                      ata.lba * sector_size + j - 1, ata.temp[j])
    BY <1>1
  <2>2. CASE curr_disk # d
    <3>1. drive'[curr_disk] = drive[curr_disk] /\ media'[curr_disk] = media[curr_disk]
      BY <1>1, <1>5, <2>2
    <3>2. Flushing(curr_disk)' = Flushing(curr_disk)
      BY <1>1, <3>1 DEF Flushing
    <3> QED
      BY <1>3, <2>1, <3>1, <3>2 DEF HandedLanded
  <2>3. CASE curr_disk = d /\ Flushing(d)
    <3>1. drive'[d].st \in {"ready", "stuck"}
      <4>1. ~DriveReads(d) /\ ~DriveWrites(d)
        BY <2>3 DEF Flushing, DriveReads, DriveWrites
      <4> QED
        BY <4>1, DriveFailsKeeps, DriveFlushesKeeps DEF DriveStep
    <3>2. Landed(drive[d], media[d], ata.lba * sector_size + j - 1, ata.temp[j])
      BY <1>3, <2>1, <2>3, <3>1 DEF HandedLanded
    <3>3. ~Writing(d)
      BY <2>3 DEF Flushing, Writing
    <3> QED
      BY <2>3, <3>2, <3>3, DriveKeepsLanded
  <2>4. CASE curr_disk = d /\ ~Flushing(d)
    <3>1. Landed(drive[d], media[d], ata.lba * sector_size + j - 1, ata.temp[j])
      BY <1>3, <1>4, <2>1, <2>4 DEF HandedLanded
    <3>2. ~DriveErrs(d)
      <4> SUFFICES ASSUME DriveErrs(d) PROVE FALSE
        OBVIOUS
      <4>1. drive'[d].st = "ready"
        BY DriveFailsKeeps
      <4>2. ata.i < ata.count
        BY <1>2, <1>4, <2>1, <2>4, EarlyError DEF Flushing
      <4> QED
        BY <2>1, <2>4, <4>1, <4>2
    <3> QED
      BY <2>4, <3>1, <3>2, DriveKeepsLanded
  <2> QED
    BY <2>2, <2>3, <2>4
<1> QED
  BY <1>6, <1>7, <1>8

(* Every step keeps what a disk_write has counted landed, as long as no    *)
(* drive failed the last sector of a write.                                *)
LEMMA NextHonestInv ==
  IInv /\ PlaceInv /\ ReadInv /\ HonestInv /\ [Next]_vars => HonestInv'
<1> SUFFICES ASSUME IInv, PlaceInv, ReadInv, HonestInv, [Next]_vars PROVE HonestInv'
  OBVIOUS
<1>0. call.total \in Nat
  BY DEF IInv, TypeOK, Call
<1>1. CASE UNCHANGED vars \/ WaitsForBsy
  <2>1. UNCHANGED <<media, drive, call, ata, pc, curr_disk, writes, late>>
    BY <1>1 DEF vars, WaitsForBsy
  <2>2. Moved' = Moved
    BY <2>1 DEF Moved
  <2>3. ASSUME ~late PROVE CountedLanded'
    BY <2>1, <2>2, <2>3, CountedFrame DEF HonestInv
  <2>4. ASSUME ~late PROVE BufferNext' /\ HandedLanded'
    BY <2>1, <2>4 DEF HonestInv, BufferNext, HandedLanded, InCommand, Flushing
  <2> QED
    BY <2>1, <2>3, <2>4 DEF HonestInv
<1>2. CASE \/ \E d \in Disks, o \in Outcomes, lba \in BOOLEAN :
                identify_drive(d, o, lba)
           \/ init_disk_driver_ends
  <2>1. pc = "boot" /\ call' = call /\ pc' \in {"boot", "idle"}
    BY <1>2 DEF identify_drive, init_disk_driver_ends
  <2>2. call.op = "none"
    BY <2>1 DEF ReadInv
  <2> QED
    BY <2>1, <2>2 DEF HonestInv, CountedLanded, BufferNext, HandedLanded, InCommand
<1>3. CASE \E d \in Disks : switch_disk(d)
  <2>1. pc = "idle" /\ UNCHANGED <<media, drive, call, pc, writes, late>>
    BY <1>3 DEF switch_disk
  <2>2. Moved' = Moved
    BY <2>1 DEF Moved
  <2> QED
    BY <2>1, <2>2, HonestQuiet
<1>4. CASE \E lba \in Lbas, len \in Lens : disk_read(lba, len) \/ disk_write(lba, len)
  <2>1. call'.total = 0 /\ call'.ret = 0 /\ pc' \in {"loop", "idle"}
    BY <1>4 DEF disk_read, disk_write, Entered
  <2>2. Moved' = 0
    BY <2>1 DEF Moved
  <2>3. CountedLanded'
    BY <2>2 DEF CountedLanded
  <2>4. BufferNext' /\ HandedLanded'
    BY <2>1 DEF BufferNext, HandedLanded, InCommand
  <2> QED
    BY <2>3, <2>4 DEF HonestInv
<1>5. CASE NextRead \/ NextWrite \/ ReadTail
  BY <1>5, HonestStart
<1>6. CASE NoBuffer \/ CommandFails
  <2>1. InCall /\ Return(call.total) /\ UNCHANGED <<media, drive, selected, settings>>
    BY <1>6 DEF NoBuffer, CommandFails, PartialResult, InCall
  <2> QED
    BY <1>0, <2>1, HonestReturn
<1>7. CASE Finish
  BY <1>7, HonestFinish
<1>8. CASE SendRead \/ SendWrite
  BY <1>8, HonestSend DEF SendRead, SendWrite
<1>9. CASE ReadSector
  BY <1>9, HonestReadSector
<1>10. CASE WriteSector
  BY <1>10, HonestWriteSector
<1>11. CASE ReadDone \/ WriteDone
  BY <1>11, HonestAdvance
<1>12. CASE WriteTail
  BY <1>12, HonestWriteTail
<1>13. CASE TailDone
  BY <1>13, HonestTailDone
<1>14. CASE \E d \in Disks : DriveStep(d)
  BY <1>14, HonestDrive
<1>15. CASE FlushSector
  BY <1>15, HonestFlushSector
<1> QED
  BY <1>1, <1>2, <1>3, <1>4, <1>5, <1>6, <1>7, <1>8, <1>9, <1>10, <1>11, <1>12, <1>13,
     <1>14, <1>15
  DEF Next, Driver

(* What disk_write returns is on the media once the drives are idle,       *)
(* unless a drive failed after the driver had stopped asking.              *)
THEOREM WritesAreHonest == Spec => []WriteHonestUnlessLate
<1> DEFINE All == IInv /\ PlaceInv /\ ReadInv /\ HonestInv
<1>1. Init => All
  BY InitIInv, InitPlaceInv, InitReadInv, InitHonestInv
<1>2. All /\ [Next]_vars => All'
  BY NextIInv, NextPlaceInv, NextReadInv, NextHonestInv
<1>3. All => WriteHonestUnlessLate
  <2> SUFFICES ASSUME All, ~late, pc = "idle", call.op = "write",
                      \A d \in Disks : drive[d].st = "ready", NEW i \in 1 .. call.ret
               PROVE  LET w == writes[Len(writes)] IN
                      media[w.disk][w.lba * sector_size + i - 1]
                        = Byte(Len(writes), i - 1)
    BY DEF WriteHonestUnlessLate, WriteResultHonest, Ended
  <2>1. /\ writes[Len(writes)].disk = call.disk /\ writes[Len(writes)].lba = call.lba
        /\ call.disk \in Disks
    BY DEF PlaceInv, WriteKnown, IInv, TypeOK, Call
  <2>2. Moved = call.ret
    BY DEF Moved
  <2>3. Landed(drive[call.disk], media[call.disk], call.lba * sector_size + i - 1,
               Byte(Len(writes), i - 1))
    BY <2>2 DEF HonestInv, CountedLanded
  <2>4. media[call.disk][call.lba * sector_size + i - 1] = Byte(Len(writes), i - 1)
    BY <2>1, <2>3 DEF Landed
  <2> QED
    BY <2>1, <2>4
<1> QED
  BY <1>1, <1>2, <1>3, PTL DEF Spec
=============================================================================
