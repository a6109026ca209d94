------------------------------ MODULE MscRead ------------------------------
(***************************************************************************)
(* The READ command of the mass-storage core: the card sectors of the       *)
(* blocks asked for are looked up run by run (ImageMap), streamed from the  *)
(* card (SdReadStream) into rotating chunk buffers, and each chunk is sent  *)
(* over USB while the next one is filled.                                   *)
(*                                                                         *)
(* Lengths count sectors of 512 bytes. What is on the card does not change  *)
(* while an image is mounted; the card under a mounted image is the         *)
(* business of MscMedia, the queues of the controller that of MscTransport. *)
(***************************************************************************)
EXTENDS ImageMap, SdReadStream

CONSTANTS
  NBuf,       (* MSC_NBUF                                                  *)
  StreamMax,  (* SD_STREAM_MAX_SECTORS                                     *)
  ByteWord,   (* 2^32 bytes, in sectors: the width of a byte count         *)
  Starts,     (* bound: the blocks a command starts at                    *)
  CmdLens     (* bound: blocks a command asks for, and sectors the host    *)
              (* expects                                                   *)

ASSUME CommandAssumption ==
  /\ Buf = 0..NBuf - 1 /\ NBuf \in Nat \ {0, 1} /\ StreamMax \in Nat \ {0}
  /\ ByteWord \in Nat \ {0} /\ CmdLens \subseteq Nat \X (0..ByteWord - 1) /\ Starts \subseteq Nat

(* What FatFs and the tools that make images promise of a card: chains that *)
(* lie on it and share no cluster (and scan_dir passes over a small file);  *)
(* in a VHD and a VMDK that can be mounted, for each sector of the disk     *)
(* tables in the file, and a place in it for what the tables say is there.  *)
Volume(d) ==
  /\ \A name \in DOMAIN d : LET f == d[name] IN
       /\ f.clusters \in Seq(Nat) /\ f.size \in Nat
       /\ \A k \in DOMAIN f.clusters : f.clusters[k] >= 2 /\ FirstSector(f.clusters[k]) + Csize <= NBlk
       /\ \A i \in DOMAIN f.holds : i \in 0..SectorsOf(f) - 1 /\ i \div Csize < Len(f.clusters)
       /\ (f.kind = "iso" <=> f.suffix = "iso") /\ (f.suffix # "vmdk" => f.size >= 8)
  /\ \A a \in DOMAIN d, b \in DOMAIN d : \A k \in DOMAIN d[a].clusters, l \in DOMAIN d[b].clusters :
       d[a].clusters[k] = d[b].clusters[l] => a = b /\ k = l

BlockOfVhd(f, head, v) ==
  LET k == v \div head.unit
      i == head.table + (k \div PerSector)
      e == EntryAt(f.holds[i], k)
  IN /\ k < head.entries /\ i \in DOMAIN f.holds
     /\ e # Unallocated => e \in Nat /\ e + BitmapOf(head.unit) + (v % head.unit) < SectorsOf(f)
WholeVhd(f) ==
  LET last == f.holds[SectorsOf(f) - 1]
      head == f.holds[last.header]
  IN SectorsOf(f) - 1 \in DOMAIN f.holds /\ last.t = "footer" =>
       /\ last.size \in Nat
       /\ last.type = "dynamic" =>
            /\ last.header \in Nat
            /\ last.header \in DOMAIN f.holds /\ head.t = "dynhead" /\ head.unit \in PowersOfTwo =>
                 /\ head.table \in Nat /\ head.entries \in Nat /\ head.unit \in Nat \ {0}
                 /\ \A v \in 0..last.size - 1 : BlockOfVhd(f, head, v)

GrainOfVmdk(f, head, v) ==
  LET g  == v \div head.unit
      i  == head.table + ((g \div head.entries) \div PerSector)
      gt == EntryAt(f.holds[i], g \div head.entries)
      j  == gt + ((g % head.entries) \div PerSector)
      e  == EntryAt(f.holds[j], g % head.entries)
  IN /\ i \in DOMAIN f.holds /\ gt \in Nat
     /\ gt # 0 => /\ j \in DOMAIN f.holds /\ e \in Nat
                  /\ e > 1 => e + (v % head.unit) < SectorsOf(f)
WholeVmdk(d, f) ==
  LET head == f.holds[0]
  IN 0 \in DOMAIN f.holds =>
       /\ head.t = "sparse" /\ head.usable =>
            /\ head.table \in Nat /\ head.entries \in Nat \ {0} /\ head.unit \in Nat \ {0} /\ head.size \in Nat
            /\ \A v \in 0..head.size - 1 : GrainOfVmdk(f, head, v)
       /\ head.t = "descriptor" /\ head.file \in DOMAIN d =>
            head.offset \in Nat /\ head.size \in Nat /\ head.offset <= SectorsOf(d[head.file])

ASSUME CardAssumption ==
  \A d \in Cards :
    /\ Volume(d)
    /\ \A name \in DOMAIN d : /\ d[name].suffix = "vhd" => WholeVhd(d[name])
                              /\ d[name].suffix = "vmdk" => WholeVmdk(d, d[name])

VARIABLES
  cmd,    (* locals of cmd_read                                            *)
  txq,    (* buffers on the IN queue, oldest first                         *)
  moved,  (* reset_seq # seq                                               *)
  host    (* the last command, what the host got of it and its status      *)

vars == <<mapVars, readVars, cmd, txq, moved, host>>

IdleCmd == [pc |-> "idle", lun |-> "none", bytes |-> 0, sent |-> 0, filled |-> 0, fsec |-> 0,
            seg |-> 0, segDone |-> 0, idx |-> 0, open |-> FALSE, passed |-> TRUE]
NoCommand == [lun |-> "none", first |-> 0, n |-> 0, want |-> 0, got |-> <<>>,
              status |-> "none", residue |-> 0]

Init ==
  /\ MapInit /\ ReadInit
  /\ cmd = IdleCmd /\ txq = <<>> /\ moved = FALSE /\ host = NoCommand

At(pc)   == cmd.pc = pc /\ io.pc = "idle"
Drained(k) == Len(txq) <= k
MayFill(k) == Drained(k)

(* lun_map: the run of card sectors from sector v of the LUN on. *)
SizeOf(l)      == IF l = "sd" THEN NBlk ELSE img_cur.blocks
BlockSize(l)   == IF l = "dvd" THEN IsoSectors ELSE 1
ImageLun       == IF img_cur.kind = "iso" THEN "dvd" ELSE "disk"
LunMap(l, v, n, bad) ==
  IF l = "sd" THEN [run |-> IF v >= NBlk THEN 0 ELSE Lesser(n, NBlk - v), sd |-> v, cache |-> tcache]
  ELSE IF present THEN ImgMap(img_cur, tcache, v, n, bad) ELSE NoAnswer(tcache)

(* Sectors of the data file that cannot be read now, at most one of them    *)
(* unless the card does not answer.                                         *)
Readable == present /\ line.mode = "tran"
BadOf(f) == IF Readable THEN {{}} \cup {{i} : i \in DOMAIN f.holds} ELSE {DOMAIN f.holds}

---------------------------------------------------------------------------
(* The host sends READ for n blocks from lba on and expects `want` sectors. *)
(* The byte count is a product in 32 bits, cut to whole blocks that fit.    *)
BytesAsked(n, bs, want)  == n * bs                         \* mutant of Bytes
Bytes(n, bs, want) ==
  LET b == (n * bs) % ByteWord IN IF b > want THEN want - (want % bs) ELSE b

Issue(l, lba, n, want) ==
  LET bs == BlockSize(l)
      h  == [NoCommand EXCEPT !.lun = l, !.first = lba * bs, !.n = n * bs, !.want = want]
  IN /\ At("idle")
     /\ l = "sd" \/ (img_cur.mounted /\ l = ImageLun)
     /\ txq' = <<>> /\ moved' = FALSE
     /\ \/ /\ ~present \/ lba + n > SizeOf(l)               \* medium_ready, the range check
           /\ host' = [h EXCEPT !.status = "refused", !.residue = want]
           /\ UNCHANGED <<cmd, faulty>>
        \/ /\ present /\ lba + n <= SizeOf(l)
           /\ host' = [h EXCEPT !.status = "pending"]
           /\ cmd' = [IdleCmd EXCEPT !.pc = "wait", !.lun = l, !.bytes = Bytes(n, bs, want),
                                      !.fsec = lba * bs]
           /\ faulty' = FALSE
     /\ UNCHANGED <<mapVars, rs, io, rret, present, slow, line, mem>>

Chunk == Lesser(ChunkLen, cmd.bytes - cmd.sent)

(* The stream dies with the locals; what is left in the buffers is of no    *)
(* use to anybody.                                                          *)
Return(s) ==
  /\ cmd' = IdleCmd /\ host' = s /\ txq' = <<>>
  /\ mem' = [b \in Buf |-> [i \in 1..ChunkLen |-> Junk]]
Unmoved == UNCHANGED <<mapVars, moved>>

(* The buffer went to USB NBuf chunks ago. After a reset the command just   *)
(* ends, the stream too.                                                    *)
WaitBuffer ==
  /\ At("wait")
  /\ \/ cmd.sent = cmd.bytes /\ cmd' = [cmd EXCEPT !.pc = "drain"]
     \/ /\ cmd.sent < cmd.bytes /\ MayFill(1)
        /\ cmd' = [cmd EXCEPT !.pc = "fill", !.filled = 0]
  /\ Unmoved /\ UNCHANGED <<readVars, txq, host>>

TriesAgain == cmd' = [cmd EXCEPT !.passed = FALSE]           \* mutant of Fails
Fails == cmd' = [cmd EXCEPT !.pc = "fail", !.passed = FALSE]

(* No stream is open: the next run is looked up, zeros are filled in, a run *)
(* of the card is begun. A table sector may fail to be read.                *)
MapRun ==
  /\ At("fill") /\ cmd.filled < Chunk /\ ~cmd.open
  /\ \E bad \in IF cmd.lun = "sd" THEN {{}} ELSE BadOf(DataFile) :
     \E m \in {LunMap(cmd.lun, cmd.fsec, cmd.bytes - cmd.sent - cmd.filled, bad)} :
       LET z   == Lesser(m.run, Chunk - cmd.filled)
           run == Lesser(m.run, StreamMax)
       IN /\ tcache' = m.cache
          /\ \/ /\ m.run = 0 /\ Fails
                /\ present' = (present /\ (bad # {} => line.mode # "gone"))    \* sd_fail
                /\ faulty' = (faulty \/ bad # {})
                /\ UNCHANGED <<rs, rret, mem>>
             \/ /\ m.run > 0 /\ m.sd = -1
                /\ Store(cmd.idx, cmd.filled, [i \in 1..z |-> Zero])
                /\ cmd' = [cmd EXCEPT !.filled = @ + z, !.fsec = @ + z]
                /\ UNCHANGED <<rs, rret, present, faulty>>
             \/ /\ m.run > 0 /\ m.sd >= 0
                /\ BeginRead(m.sd, run)
                /\ IF BeginRefused(m.sd, run) = "OK"
                     THEN cmd' = [cmd EXCEPT !.open = TRUE, !.seg = run, !.segDone = 0]
                     ELSE Fails
                /\ UNCHANGED <<present, mem>>
          /\ slow' \in slow..IF tcache' = tcache THEN slow ELSE MaxSlow
  /\ UNCHANGED <<dir, img_cur, io, line, txq, moved, host>>

Piece == Lesser(Chunk - cmd.filled, cmd.seg - cmd.segDone)

ReadPiece ==
  /\ At("fill") /\ cmd.filled < Chunk /\ cmd.open
  /\ PushRead(cmd.idx, cmd.filled, Piece)
  /\ cmd' = [cmd EXCEPT !.pc = "read"]
  /\ Unmoved /\ UNCHANGED <<txq, host>>

PieceRead ==
  /\ At("read")
  /\ LET c == [cmd EXCEPT !.pc = "fill", !.filled = @ + Piece, !.segDone = @ + Piece, !.fsec = @ + Piece]
     IN IF rret # "OK" THEN cmd' = [cmd EXCEPT !.pc = "fail", !.passed = FALSE, !.open = FALSE] /\ UNCHANGED readVars
        ELSE IF c.segDone < c.seg THEN cmd' = c /\ UNCHANGED readVars
        ELSE cmd' = [c EXCEPT !.pc = "end", !.open = FALSE] /\ EndRead
  /\ Unmoved /\ UNCHANGED <<txq, host>>

RunEnded ==
  /\ At("end")
  /\ IF rret = "OK" THEN cmd' = [cmd EXCEPT !.pc = "fill"] ELSE Fails
  /\ Unmoved /\ UNCHANGED <<readVars, txq, host>>

(* queue_tx, once at most one chunk is on its way. *)
Queue ==
  /\ At("fill") /\ cmd.filled = Chunk /\ MayFill(1)
  /\ txq' = Append(txq, [buf |-> cmd.idx, len |-> Chunk])
  /\ cmd' = [cmd EXCEPT !.pc = "wait", !.sent = @ + Chunk, !.idx = (@ + 1) % NBuf]
  /\ Unmoved /\ UNCHANGED <<readVars, host>>

(* A failure: what was queued still goes out, the host is told what was     *)
(* sent and gets the sense of the error.                                    *)
Fail ==
  /\ At("fail")
  /\ cmd' = [cmd EXCEPT !.pc = "drain", !.open = FALSE]
  /\ IF cmd.open THEN AbortRead ELSE UNCHANGED readVars
  /\ Unmoved /\ UNCHANGED <<txq, host>>

Finish ==
  /\ At("drain") /\ Drained(0)
  /\ Return(IF moved THEN host
          ELSE [host EXCEPT !.status = IF cmd.passed THEN "passed" ELSE "failed", !.residue = host.want - cmd.sent])
  /\ rs' = ClosedRead /\ rret' = "OK"
  /\ Unmoved /\ UNCHANGED <<io, present, slow, line, faulty>>

(* Any wait that is not over when a reset is noticed ends the command.      *)
Waits ==
  \/ At("wait") /\ cmd.sent < cmd.bytes /\ ~Drained(1)
  \/ At("fill") /\ cmd.filled = Chunk /\ ~Drained(1)
  \/ At("drain") /\ ~Drained(0)

LeftSending     == UNCHANGED line                          \* mutant of StreamAbandoned
StreamAbandoned == StopReading(cmd.open /\ rs.started)     \* sd_stream_abort
Abandoned ==
  /\ moved /\ Waits
  /\ StreamAbandoned /\ rs' = ClosedRead /\ rret' = "OK"
  /\ Return(host)
  /\ Unmoved /\ UNCHANGED <<io, present, slow, faulty>>

---------------------------------------------------------------------------
(* The host takes the oldest chunk; it sees what the buffer holds then.     *)
HostTakes ==
  /\ txq # <<>> /\ ~moved
  /\ host' = [host EXCEPT !.got = @ \o SubSeq(mem[Head(txq).buf], 1, Head(txq).len)]
  /\ txq' = Tail(txq)
  /\ Unmoved /\ UNCHANGED <<readVars, cmd>>

(* A reset of the bus: the queue is emptied, the command does not know yet. *)
Reset ==
  /\ cmd.pc # "idle" /\ ~moved
  /\ moved' = TRUE /\ txq' = <<>> /\ host' = NoCommand
  /\ UNCHANGED <<mapVars, readVars, cmd>>

(* Console, boot key and media_poll mount and unmount between commands. A   *)
(* card that is put in or rewritten is another directory.                   *)
Mounts ==
  /\ At("idle") /\ host' = NoCommand
  /\ \/ \E name \in DOMAIN dir :
          \E bad \in BadOf(dir[name]) : MountEntry(name, Readable, bad) /\ UNCHANGED readVars
     \/ Unmount /\ UNCHANGED readVars
     \/ /\ ~img_cur.mounted
        /\ dir' \in Cards /\ line' = Quiet /\ present' = TRUE /\ slow' = 0
        /\ UNCHANGED <<img_cur, tcache, rs, io, rret, faulty, mem>>
  /\ UNCHANGED <<cmd, txq, moved>>

Driver == StreamStep /\ UNCHANGED <<mapVars, cmd, txq, moved, host>>
Pulled == PullCard /\ UNCHANGED <<mapVars, cmd, txq, moved, host>>

Main ==
  \/ WaitBuffer \/ MapRun \/ ReadPiece \/ PieceRead \/ RunEnded \/ Queue \/ Fail \/ Finish
  \/ Abandoned \/ Driver
Host ==
  \E l \in {"sd", "dvd", "disk"}, lba \in Starts, c \in CmdLens : Issue(l, lba, c[1], c[2])

Next == Main \/ Host \/ HostTakes \/ Reset \/ Mounts \/ Pulled
Spec == Init /\ [][Next]_vars

(* The main loop goes on and a host that waits for data takes it. The card  *)
(* answers or a timeout of the driver says that it does not.                *)
FairSpec == Spec /\ WF_vars(Main) /\ WF_vars(HostTakes)
---------------------------------------------------------------------------
(* Sector v of a LUN: of the card itself, or what the format of the mounted *)
(* image says.                                                              *)
Expected(l, v) == IF l = "sd" THEN Block(v) ELSE Virtual(img_cur.name, v)

(* The data a host gets is the data of the blocks it asked for, in order,   *)
(* across fragments, formats, unallocated blocks, retries in the middle of  *)
(* a chunk, streams cut short and buffers refilled.                         *)
ReadTruly == \A k \in 1..Len(host.got) : host.got[k] = Expected(host.lun, host.first + k - 1)

(* The status says what the host got: the residue is what is missing, and a *)
(* host that expects what its command asks for misses nothing on GOOD.      *)
ResidueTold ==
  /\ host.status \in {"passed", "failed"} =>
       host.residue \in 0..host.want /\ host.residue = host.want - Len(host.got)
  /\ host.status = "passed" /\ host.n = host.want => host.residue = 0

(* A READ within the medium fails only if the card, the bus or a reset made *)
(* it fail: no sector of a mounted image is without a place.                *)
FailsOnlyOnFault == host.status = "failed" => faulty

(* A READ comes to an end, whatever the card does. *)
ReadEnds == cmd.pc # "idle" ~> cmd.pc = "idle"
=============================================================================
