------------------------------ MODULE ImageMap ------------------------------
(***************************************************************************)
(* Where the sectors of a mounted image lie on the card: the extent table  *)
(* built from the cluster chain of the file, the container formats (raw,   *)
(* ISO, VHD, VMDK) with their tables, the cache of table sectors, and the  *)
(* mapping of a run of virtual sectors.                                    *)
(*                                                                         *)
(* A card is a directory of files: the clusters of each, its size in half   *)
(* sectors, and what its header and table sectors hold. Everything else     *)
(* counts sectors.                                                         *)
(***************************************************************************)
EXTENDS Integers, FiniteSets, Sequences, SequencesExt

CONSTANTS
  Cards,       (* the cards: directories of files                          *)
  Csize,       (* sectors of a cluster                                     *)
  Slots,       (* TCACHE_SLOTS                                             *)
  PerSector,   (* entries in a sector of a table                           *)
  MaxExtents,  (* IMG_MAX_EXTENTS                                          *)
  Word,        (* 2^32, the width of a sector number                       *)
  Unallocated  (* the entry of a block without sectors of its own (VHD)    *)

ASSUME MapAssumption ==
  Csize \in Nat \ {0} /\ Word \in Nat \ {0} /\ Slots \in Nat \ {0} /\ PerSector \in Nat \ {0} /\ MaxExtents \in Nat \ {0}

IsoSectors == 4                 (* card sectors in a block of 2048 bytes   *)
Data == [t |-> "data"]
Zero == [t |-> "zero"]          (* IMG_ZERO_RUN                            *)

VARIABLES
  dir,     (* the directory of the card in the slot                        *)
  img_cur, (* the mounted image                                            *)
  tcache   (* the table sector each slot holds, with its tag               *)

mapVars == <<dir, img_cur, tcache>>

Lesser(a, b)  == IF a < b THEN a ELSE b
SectorsOf(f)  == (f.size + 1) \div 2
FirstSector(cluster) == (cluster - 2) * Csize

(* Sector i of a file, and what a sector of the card holds. *)
Place(f, i) == FirstSector(f.clusters[(i \div Csize) + 1]) + (i % Csize)
Holds(sd) ==
  LET owners == {name \in DOMAIN dir : \E i \in DOMAIN dir[name].holds : Place(dir[name], i) = sd}
      f == dir[CHOOSE name \in owners : TRUE]
  IN IF owners = {} THEN Data ELSE f.holds[CHOOSE i \in DOMAIN f.holds : Place(f, i) = sd]

NoCache == [s \in 0..Slots - 1 |-> [tag |-> 0, p |-> Data]]
Nothing == [mounted |-> FALSE, name |-> "", kind |-> "none", fmt |-> "raw",
            ext |-> <<>>, fileSectors |-> 0, offset |-> 0, table |-> 0, entries |-> 0,
            unit |-> 1, bitmap |-> 0, blocks |-> 0, blockSectors |-> 1]

MapInit == dir \in Cards /\ img_cur = Nothing /\ tcache = NoCache

---------------------------------------------------------------------------
(* The link map FatFs makes of a file: its maximal runs of clusters. *)
LinkMap(f) ==
  FoldLeft(LAMBDA runs, c :
             IF runs # <<>> /\ Last(runs).at + Last(runs).n = c THEN [runs EXCEPT ![Len(runs)].n = @ + 1]
             ELSE Append(runs, [at |-> c, n |-> 1]),
           <<>>, f.clusters)

(* build_extents: the runs of the chain up to the size of the file. A file  *)
(* of too many runs, or one longer than its chain, is refused.              *)

AppendedRun(ext, at, sec, n) ==
  IF ext # <<>> /\ ext[Len(ext)].sd + ext[Len(ext)].n = sec
    THEN [ext EXCEPT ![Len(ext)].n = @ + n]
    ELSE Append(ext, [at |-> at, sd |-> sec, n |-> n])

Extents(f) ==
  FoldLeft(LAMBDA acc, r :
             IF acc.at >= SectorsOf(f) THEN acc
             ELSE LET n == Lesser(r.n * Csize, SectorsOf(f) - acc.at)
                  IN [at |-> acc.at + n, ext |-> AppendedRun(acc.ext, acc.at, FirstSector(r.at), n)],
           [at |-> 0, ext |-> <<>>], LinkMap(f))
Refused(f) ==
  \/ Len(LinkMap(f)) > MaxExtents                             \* the link map does not hold it
  \/ Extents(f).at < SectorsOf(f)

(* file_map: the run from sector i of the data file on, at most n sectors. *)
SearchUp(ext, i) ==                                        \* mutant of LastAtOrBelow
  LET search[w \in Nat \X Nat] ==
        IF w[1] >= w[2] THEN w[1]
        ELSE LET mid == (w[1] + w[2] + 1) \div 2
             IN search[IF ext[mid].at < i THEN <<mid, w[2]>> ELSE <<w[1], mid - 1>>]
  IN search[<<1, Len(ext)>>]
LastAtOrBelow(ext, i) ==
  LET search[w \in Nat \X Nat] ==
        IF w[1] >= w[2] THEN w[1]
        ELSE LET mid == (w[1] + w[2] + 1) \div 2
             IN search[IF ext[mid].at <= i THEN <<mid, w[2]>> ELSE <<w[1], mid - 1>>]
  IN search[<<1, Len(ext)>>]

NoRun == [run |-> 0, sd |-> 0]
FileMap(cur, i, n) ==
  IF n = 0 \/ cur.ext = <<>> \/ i >= cur.fileSectors THEN NoRun
  ELSE LET x == cur.ext[LastAtOrBelow(cur.ext, i)]
           left == Lesser(n, cur.fileSectors - i)
       IN IF i >= x.at + x.n THEN NoRun
          ELSE [run |-> Lesser(x.at + x.n - i, left), sd |-> x.sd + i - x.at]

(* tcache_get: a sector of the data file through the cache. A sector of the *)
(* file that is among the bad ones cannot be read now: what its slot holds  *)
(* then is anything, and the slot is emptied.                               *)
Slot(i) == i % Slots
Emptied(cache, i) == [cache EXCEPT ![Slot(i)] = [tag |-> 0, p |-> Data]]
Cached(cache, i)  == cache[Slot(i)].tag = i + 1
Fetched(cur, cache, i, bad) ==
  IF Cached(cache, i) THEN [ok |-> TRUE, p |-> cache[Slot(i)].p, cache |-> cache]
  ELSE IF FileMap(cur, i, 1).run # 1 \/ i \in bad
    THEN [ok |-> FALSE, p |-> Data, cache |-> Emptied(cache, i)]
    ELSE LET p == Holds(FileMap(cur, i, 1).sd)
         IN [ok |-> TRUE, p |-> p, cache |-> [cache EXCEPT ![Slot(i)] = [tag |-> i + 1, p |-> p]]]

---------------------------------------------------------------------------
(* detect_format: the container of a disk image. With a text descriptor the *)
(* data lies in a companion file, whose extents replace those of the image. *)

Unusable(cache) == [ok |-> FALSE, cur |-> Nothing, cache |-> cache]
Usable(cur, sectors, cache) == [ok |-> TRUE, cur |-> [cur EXCEPT !.blocks = sectors], cache |-> cache]

PowersOfTwo == {2^k : k \in 0..20}
DetectVhd(cur, cache0, bad) ==
  LET foot == Fetched(cur, cache0, cur.fileSectors - 1, bad)
      head == Fetched(cur, foot.cache, foot.p.header, bad)
      dyn  == [cur EXCEPT !.fmt = "vhd_dyn", !.table = head.p.table, !.entries = head.p.entries,
                          !.unit = head.p.unit, !.bitmap = (((head.p.unit + 7) \div 8) + 511) \div 512]
  IN IF ~foot.ok \/ foot.p.t # "footer" THEN Unusable(foot.cache)
     ELSE IF foot.p.type = "fixed"
       THEN Usable([cur EXCEPT !.fmt = "vhd_fixed"], Lesser(foot.p.size, cur.fileSectors - 1), foot.cache)
     ELSE IF foot.p.type # "dynamic" THEN Unusable(foot.cache)
     ELSE IF ~head.ok \/ head.p.t # "dynhead" THEN Unusable(head.cache)
     ELSE IF head.p.unit \notin PowersOfTwo THEN Unusable(head.cache)
     ELSE Usable(dyn, foot.p.size, head.cache)

KeepsTables(cache) == cache                                \* mutant of Cleared
Cleared(cache)     == NoCache

DetectVmdk(cur, cache0, bad) ==
  LET head == Fetched(cur, cache0, 0, bad)
      more == Fetched(cur, head.cache, 1, bad)              \* the descriptor may go on there
      flat == dir[head.p.file]
      kept == Cleared(more.cache)
  IN IF ~head.ok THEN Unusable(head.cache)
     ELSE IF head.p.t = "sparse"
       THEN IF ~head.p.usable THEN Unusable(head.cache)
            ELSE Usable([cur EXCEPT !.fmt = "vmdk_sparse", !.table = head.p.table,
                                    !.entries = head.p.entries, !.unit = head.p.unit],
                        head.p.size, head.cache)
     ELSE IF head.p.t # "descriptor" THEN Unusable(more.cache)
     ELSE IF head.p.file \notin DOMAIN dir \/ Refused(flat) THEN Unusable(kept)
     ELSE Usable([cur EXCEPT !.fmt = "vmdk_flat", !.ext = Extents(flat).ext,
                             !.fileSectors = SectorsOf(flat), !.offset = head.p.offset],
                 IF head.p.size + head.p.offset > SectorsOf(flat)
                   THEN (SectorsOf(flat) - head.p.offset) % Word ELSE head.p.size,
                 kept)

Detected(cur, f, cache, bad) ==
  IF f.kind = "iso" THEN Usable(cur, f.size \div (2 * IsoSectors), cache)
  ELSE IF f.suffix = "vhd" THEN DetectVhd(cur, cache, bad)
  ELSE IF f.suffix = "vmdk" THEN DetectVmdk(cur, cache, bad)
  ELSE Usable(cur, cur.fileSectors, cache)

(* The file an image has its sectors in. *)
DataFileOf(name, fmt) == IF fmt = "vmdk_flat" THEN dir[dir[name].holds[0].file] ELSE dir[name]
DataFile == DataFileOf(img_cur.name, img_cur.fmt)
(* img_unmount, and mount_entry after it: whatever fails, nothing is        *)
(* mounted afterwards. FatFs may be unable to open the file.                *)
Unmount ==
  /\ tcache' = Cleared(tcache) /\ img_cur' = Nothing
  /\ UNCHANGED dir

MountEntry(name, opens, bad) ==
  LET f == dir[name]
      cur == [Nothing EXCEPT !.name = name, !.ext = Extents(f).ext, !.fileSectors = SectorsOf(f)]
      d == Detected(cur, f, Cleared(tcache), bad)
  IN /\ \/ /\ ~opens \/ Refused(f)
           /\ Unmount
        \/ /\ opens /\ ~Refused(f) /\ ~d.ok
           /\ img_cur' = Nothing /\ tcache' = d.cache
        \/ /\ opens /\ ~Refused(f) /\ d.ok
           /\ img_cur' = [d.cur EXCEPT !.mounted = TRUE, !.kind = f.kind,
                                       !.blockSectors = IF f.kind = "iso" THEN IsoSectors ELSE 1]
           /\ tcache' = d.cache
     /\ UNCHANGED dir

---------------------------------------------------------------------------
(* img_map: the run of virtual sectors from v on, at most n. *)

Answer(m, cache)  == [run |-> m.run, sd |-> m.sd, cache |-> cache]
NoAnswer(cache)   == Answer(NoRun, cache)
ZeroRun(n, cache) == [run |-> n, sd |-> -1, cache |-> cache]
FileRun(cur, i, n, cache) == Answer(FileMap(cur, i, n), cache)

VirtualSectors(cur) == cur.blocks * cur.blockSectors
EntryAt(p, k) == p.ent[(k % PerSector) + 1]

WholeUnit(cur, v, n)  == n                                 \* mutant of WithinUnit
WithinUnit(cur, v, n) == Lesser(n, cur.unit - (v % cur.unit))

MapVhd(cur, cache, v, n, bad) ==
  LET blk == v \div cur.unit
      t   == Fetched(cur, cache, cur.table + (blk \div PerSector), bad)
      ent == EntryAt(t.p, blk)
  IN IF blk >= cur.entries THEN NoAnswer(cache)
     ELSE IF ~t.ok THEN NoAnswer(t.cache)
     ELSE IF ent = Unallocated THEN ZeroRun(WithinUnit(cur, v, n), t.cache)
     ELSE FileRun(cur, ent + cur.bitmap + (v % cur.unit), WithinUnit(cur, v, n), t.cache)

(* F(x), with x computed once. *)
With(x, F(_)) == CHOOSE y \in {F(u) : u \in {x}} : TRUE

MapVmdk(cur, cache, v, n, bad) ==
  LET g == v \div cur.unit
      InGrain(t) ==
        LET ent == EntryAt(t.p, g % cur.entries)
        IN IF ~t.ok THEN NoAnswer(t.cache)
           ELSE IF ent <= 1 THEN ZeroRun(WithinUnit(cur, v, n), t.cache)
           ELSE FileRun(cur, ent + (v % cur.unit), WithinUnit(cur, v, n), t.cache)
      InDirectory(dr) ==
        LET gt == EntryAt(dr.p, g \div cur.entries)
        IN IF ~dr.ok THEN NoAnswer(dr.cache)
           ELSE IF gt = 0 THEN ZeroRun(WithinUnit(cur, v, n), dr.cache)
           ELSE With(Fetched(cur, dr.cache, gt + ((g % cur.entries) \div PerSector), bad), InGrain)
  IN With(Fetched(cur, cache, cur.table + ((g \div cur.entries) \div PerSector), bad), InDirectory)

ImgMap(cur, cache, v, n, bad) ==
  LET left == Lesser(n, VirtualSectors(cur) - v)
  IN IF ~cur.mounted \/ n = 0 \/ cur.ext = <<>> \/ v >= VirtualSectors(cur) THEN NoAnswer(cache)
     ELSE IF cur.fmt = "vhd_dyn" THEN MapVhd(cur, cache, v, left, bad)
     ELSE IF cur.fmt = "vmdk_sparse" THEN MapVmdk(cur, cache, v, left, bad)
     ELSE FileRun(cur, cur.offset + v, left, cache)

---------------------------------------------------------------------------
(* What the formats promise: virtual sector v of an image, straight from    *)
(* its headers, its tables and the clusters of its files.                   *)

Sector(f, i) == [t |-> "sector", sd |-> Place(f, i)]
BitmapOf(unit) == (unit + 4095) \div 4096           \* sectors of a bit for each sector of a block
Virtual(name, v) ==
  LET f    == dir[name]
      last == f.holds[SectorsOf(f) - 1]
      Table(h) == f.holds[f.holds[h].table + ((v \div f.holds[h].unit) \div PerSector)]
  IN IF f.suffix = "vhd" /\ last.type = "dynamic"
       THEN LET h == last.header
                e == EntryAt(Table(h), v \div f.holds[h].unit)
            IN IF e = Unallocated THEN Zero
               ELSE Sector(f, e + BitmapOf(f.holds[h].unit) + (v % f.holds[h].unit))
     ELSE IF f.suffix = "vmdk" /\ f.holds[0].t = "descriptor"
       THEN Sector(dir[f.holds[0].file], f.holds[0].offset + v)
     ELSE IF f.suffix = "vmdk"
       THEN LET h == f.holds[0]
                g == v \div h.unit
                gt == EntryAt(f.holds[h.table + ((g \div h.entries) \div PerSector)], g \div h.entries)
                e == EntryAt(f.holds[gt + ((g % h.entries) \div PerSector)], g % h.entries)
            IN IF gt = 0 THEN Zero ELSE IF e <= 1 THEN Zero ELSE Sector(f, e + (v % h.unit))
     ELSE Sector(f, v)

(* The cache of the tables is what the file of the mounted image holds: no  *)
(* sector of an image unmounted, refused or replaced since, none of a       *)
(* descriptor for the file it names, none of a read that failed.            *)
CacheFresh ==
  img_cur.mounted =>
    \A s \in 0..Slots - 1 :
      tcache[s].tag # 0 =>
        LET i == tcache[s].tag - 1
        IN i % Slots = s /\ i < SectorsOf(DataFile) /\ tcache[s].p = Holds(Place(DataFile, i))
=============================================================================
