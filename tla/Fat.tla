---------------------------------- MODULE Fat ---------------------------------
(***************************************************************************)
(* FatFs as the kernel configures it (kernel/fs/fat/ff.c, ffconf.h: no     *)
(* long names, no relative paths, one volume, no file lock, one sector     *)
(* buffer per file besides the sector window of the volume).               *)
(*                                                                         *)
(* A sector is a function from 0 .. SS-1 to cells.  A cell is a tuple of   *)
(* numbers and stands for what the sector holds there: a FAT entry or a    *)
(* unit of file data <<x>>, a directory entry <<name, attr, clust, size>>, *)
(* or cleared memory <<0>>, which is at once a free FAT entry, a zero unit *)
(* and the end of a directory.  So one sector holds SS FAT entries, SS     *)
(* directory entries or SS units of data (the packing of FAT12 entries is  *)
(* modelled in Volume).                                                    *)
(*                                                                         *)
(* An operator for a function of ff.c takes the volume s = [g, disk, fs,   *)
(* log] and returns the volume after it with its result; g is the geometry *)
(* of the volume, fs the FATFS object, log the disk writes of the call so  *)
(* far.  disk_read and disk_write (diskio.c) report RES_OK whatever the    *)
(* drive says, so the FR_DISK_ERR branches are never taken.  The kernel    *)
(* runs a file call to its end with interrupts off: one step of this       *)
(* model.  A power failure may cut it after any of its disk writes.        *)
(***************************************************************************)
EXTENDS Integers, Sequences, FiniteSets

CONSTANTS SS,          \* cells in a sector
          Geometries,  \* the volumes: [type, csize, nfats, nroot, ncl]
          Handles,     \* FIL objects
          Calls,       \* the calls made on files and directories
          Paths,       \* the paths those calls use
          Preludes,    \* what is on the volume at first: directories and files
          MAXCALLS     \* bound: calls in a behaviour

VARIABLES geo,         \* the geometry of this behaviour's volume
          disk,        \* its sectors
          fs,          \* the FATFS object
          fil,         \* the FIL objects
          dir,         \* a DIR object, used by f_opendir, f_readdir, f_closedir
          calls,       \* number of calls so far
          tree,        \* ghost: what the volume holds, View of the rest
          good,        \* ghost: the last f_read or f_write moved the right data
          list,        \* ghost: names to be listed and listed since f_opendir
          loose,       \* ghost: paths made by fat_touch, which saves nothing
          off,         \* the power has failed
          spared       \* ghost: the paths that failure must not harm

vars == <<geo, disk, fs, fil, dir, calls, tree, good, list, loose, off, spared>>

---------------------------------------------------------------------------
(* The layout find_volume computes from the boot sector.                   *)

Min2(a, b) == IF a < b THEN a ELSE b
Zero == <<0>>
ZeroSect == [i \in 0..SS-1 |-> Zero]
EOC == 255                    \* 0xFFFFFFFF as a FAT entry keeps it
UNKNOWN == 255                \* 0xFFFFFFFF in free_clst and last_clst
DDEM == 5
DOT == 6
DOTDOT == 7
ARC == 1
DIRATTR == 2
IsDir(attr) == attr >= DIRATTR        \* the attributes are bits: 3 has both

n_fatent(g) == g.ncl + 2
nrsv(g) == IF g.type = 32 THEN 2 ELSE 1
fatbase(g) == nrsv(g)
fsize(g) == (n_fatent(g) + SS - 1) \div SS
FatEnd(g) == fatbase(g) + g.nfats * fsize(g)
dirbase(g) == IF g.type = 32 THEN 2 ELSE FatEnd(g)
database(g) == FatEnd(g) + g.nroot \div SS
LastSect(g) == database(g) + g.ncl * g.csize - 1

\* clust2sect (): 0 for a cluster number out of range.
clust2sect(g, c) ==
    IF c < 2 \/ c >= n_fatent(g) THEN 0 ELSE (c - 2) * g.csize + database(g)

\* The result of a call handed to what the code does with it.
Then(r, F(_)) == F(r)

---------------------------------------------------------------------------
(* The sector window.                                                      *)

disk_write(s, sect, cells) ==
    [s EXCEPT !.disk[sect] = cells, !.log = Append(@, <<sect, cells>>)]

InFat(g, sect) == sect >= fatbase(g) /\ sect < fatbase(g) + fsize(g)

\* A dirty window goes to its sector, and to every copy of a FAT sector.
sync_window(s) ==
    IF ~s.fs.wflag THEN s
    ELSE Then(disk_write([s EXCEPT !.fs.wflag = FALSE], s.fs.winsect, s.fs.win), LAMBDA t :
           IF InFat(s.g, s.fs.winsect) /\ s.g.nfats = 2
           THEN disk_write(t, s.fs.winsect + fsize(s.g), s.fs.win)
           ELSE t)

move_window(s, sect) ==
    IF sect = s.fs.winsect THEN s
    ELSE Then(sync_window(s), LAMBDA t :
           [t EXCEPT !.fs.win = t.disk[sect], !.fs.winsect = sect])

\* The window with one of its cells changed, to be written back later.
Put(s, i, cell) == [s EXCEPT !.fs.win[i] = cell, !.fs.wflag = TRUE]

\* Mutant of sync_fs: nothing is written.
sync_fs_Lazy(s) == s

\* FSInfo is rewritten when it changed; the window is left on it.
sync_fs(s) ==
    Then(sync_window(s), LAMBDA t :
      LET info == [i \in 0..SS-1 |-> IF i = 0 THEN <<t.fs.free, t.fs.last>> ELSE Zero]
      IN IF t.g.type = 32 /\ t.fs.fsi
         THEN disk_write([t EXCEPT !.fs.win = info, !.fs.winsect = 1, !.fs.fsi = FALSE],
                         1, info)
         ELSE t)

---------------------------------------------------------------------------
(* The file allocation table.                                              *)

FatSect(g, c) == fatbase(g) + c \div SS

\* 1 ("internal error") for a cluster number out of range.
get_fat(s, c) ==
    IF c < 2 \/ c >= n_fatent(s.g) THEN [s |-> s, v |-> 1]
    ELSE Then(move_window(s, FatSect(s.g, c)), LAMBDA t :
           [s |-> t, v |-> t.fs.win[c % SS][1]])

put_fat(s, c, val) ==
    IF c < 2 \/ c >= n_fatent(s.g) THEN s
    ELSE Put(move_window(s, FatSect(s.g, c)), c % SS, <<val>>)

RECURSIVE FreeFrom(_, _)
FreeFrom(s, c) ==
    Then(get_fat(s, c), LAMBDA r :
    Then(put_fat(r.s, c, 0), LAMBDA t :
      LET u == IF t.fs.free = UNKNOWN THEN t
               ELSE [t EXCEPT !.fs.free = @ + 1, !.fs.fsi = TRUE]
      IN CASE r.v = 0 -> [s |-> r.s, res |-> "OK"]
           [] r.v = 1 -> [s |-> r.s, res |-> "INT_ERR"]
           [] OTHER -> IF r.v < n_fatent(s.g) THEN FreeFrom(u, r.v)
                       ELSE [s |-> u, res |-> "OK"]))

\* Mutant of remove_chain: the cluster before the freed part is not made the end of the chain.
remove_chain_NoEnd(s, c, p) ==
    IF c < 2 \/ c >= n_fatent(s.g) THEN [s |-> s, res |-> "INT_ERR"] ELSE FreeFrom(s, c)

\* The chain from c on is freed; p, the cluster before it if any, ends it.
remove_chain(s, c, p) ==
    IF c < 2 \/ c >= n_fatent(s.g) THEN [s |-> s, res |-> "INT_ERR"]
    ELSE FreeFrom(IF p = 0 THEN s ELSE put_fat(s, p, EOC), c)

\* A free cluster is searched from behind scl on, around, up to scl itself.
RECURSIVE FindFree(_, _, _)
FindFree(s, scl, ncl) ==
    LET n == IF ncl + 1 >= n_fatent(s.g) THEN 2 ELSE ncl + 1
    IN Then(get_fat(s, n), LAMBDA r :
         IF ncl + 1 >= n_fatent(s.g) /\ 2 > scl THEN [s |-> s, v |-> 0]
         ELSE IF r.v = 0 THEN [s |-> r.s, v |-> n]
         ELSE IF r.v = 1 THEN r
         ELSE IF n = scl THEN [s |-> r.s, v |-> 0]
         ELSE FindFree(r.s, scl, n))

\* The cluster is marked the end of a chain before the chain is led to it.
Take(s, c, n) ==
    Then(put_fat(s, n, EOC), LAMBDA t :
    Then(IF c = 0 THEN t ELSE put_fat(t, c, n), LAMBDA u :
      [u EXCEPT !.fs.last = n, !.fs.fsi = TRUE,
                !.fs.free = IF @ < n_fatent(s.g) - 2 THEN @ - 1 ELSE @]))

\* c = 0 starts a new chain; otherwise the cluster behind c, a new one if c
\* is the last.  0: no free cluster; 1: internal error.
create_chain(s, c) ==
    LET scl == IF c # 0 THEN c
               ELSE IF s.fs.last = 0 \/ s.fs.last >= n_fatent(s.g) THEN 1 ELSE s.fs.last
    IN Then(get_fat(s, c), LAMBDA r :
       Then(FindFree(IF c = 0 THEN s ELSE r.s, scl, scl), LAMBDA f :
         IF c # 0 /\ r.v < 2 THEN [s |-> r.s, v |-> 1]
         ELSE IF c # 0 /\ r.v < n_fatent(s.g) THEN r
         ELSE IF f.v < 2 THEN f
         ELSE [s |-> Take(f.s, c, f.v), v |-> f.v]))

---------------------------------------------------------------------------
(* Directories.  dp is the DIR object; its entry is the window's cell.     *)

NewDp(sclust) == [sclust |-> sclust, dptr |-> 0, clust |-> 0, sect |-> 0,
                  fn |-> 0, attr |-> 0]
Entry(s, dp) == s.fs.win[dp.dptr % SS]
Name(cell) == cell[1]
Attr(cell) == IF Len(cell) = 4 THEN cell[2] ELSE 0
Clust(cell) == IF Len(cell) = 4 THEN cell[3] ELSE 0
Size(cell) == IF Len(cell) = 4 THEN cell[4] ELSE 0

\* dir_sdi () is only called to rewind (ofs = 0).
dir_sdi(s, dp) ==
    LET c == IF dp.sclust = 0 /\ s.g.type = 32 THEN dirbase(s.g) ELSE dp.sclust
        sect == IF c = 0 THEN dirbase(s.g) ELSE clust2sect(s.g, c)
    IN [s |-> s, dp |-> [dp EXCEPT !.dptr = 0, !.clust = c, !.sect = sect],
        res |-> IF sect = 0 THEN "INT_ERR" ELSE "OK"]

\* The sectors of a new directory cluster are cleared, the window ends on
\* the first of them.
RECURSIVE ClearFrom(_, _, _)
ClearFrom(s, sect, n) ==
    IF n = 0 THEN s
    ELSE ClearFrom(sync_window([s EXCEPT !.fs.winsect = sect, !.fs.wflag = TRUE]),
                   sect + 1, n - 1)
Cleared(s, c) ==
    LET t == ClearFrom([sync_window(s) EXCEPT !.fs.win = ZeroSect],
                       clust2sect(s.g, c), s.g.csize)
    IN [t EXCEPT !.fs.winsect = clust2sect(s.g, c)]

dir_next(s, dp, stretch) ==
    LET ofs == dp.dptr + 1
        g == s.g
        At(t, d) == [s |-> t, dp |-> [d EXCEPT !.dptr = ofs], res |-> "OK"]
        Fail(t, d, res) == [s |-> t, dp |-> d, res |-> res]
        next == [dp EXCEPT !.sect = @ + 1]
        End(t) == Fail(t, [dp EXCEPT !.sect = 0], "NO_FILE")
        Go(t, c) == At(t, [dp EXCEPT !.clust = c, !.sect = clust2sect(g, c)])
    IN CASE dp.sect = 0 -> Fail(s, dp, "NO_FILE")
         [] dp.sect # 0 /\ ofs % SS # 0 -> At(s, dp)
         [] dp.sect # 0 /\ ofs % SS = 0 /\ dp.clust = 0 ->
              IF ofs >= g.nroot THEN End(s) ELSE At(s, next)
         [] OTHER ->
              IF (ofs \div SS) % g.csize # 0 THEN At(s, next)
              ELSE Then(get_fat(s, dp.clust), LAMBDA r :
                IF r.v =< 1 THEN Fail(r.s, next, "INT_ERR")
                ELSE IF r.v < n_fatent(g) THEN Go(r.s, r.v)
                ELSE IF ~stretch THEN End(r.s)
                ELSE Then(create_chain(r.s, dp.clust), LAMBDA n :
                  CASE n.v = 0 -> Fail(n.s, next, "DENIED")
                    [] n.v = 1 -> Fail(n.s, next, "INT_ERR")
                    [] OTHER -> Go(Cleared(n.s, n.v), n.v)))

\* The first unused entry, in a table that may grow.
RECURSIVE AllocFrom(_, _)
AllocFrom(s, dp) ==
    Then(move_window(s, dp.sect), LAMBDA t :
      IF Name(Entry(t, dp)) \in {0, DDEM} THEN [s |-> t, dp |-> dp, res |-> "OK"]
      ELSE Then(dir_next(t, dp, TRUE), LAMBDA r :
        IF r.res = "OK" THEN AllocFrom(r.s, r.dp)
        ELSE [r EXCEPT !.res = IF @ = "NO_FILE" THEN "DENIED" ELSE @]))
dir_alloc(s, dp) ==
    Then(dir_sdi(s, dp), LAMBDA r : IF r.res = "OK" THEN AllocFrom(r.s, r.dp) ELSE r)

\* The first entry from dp on that is neither deleted nor a dot entry.
RECURSIVE dir_read(_, _)
dir_read(s, dp) ==
    IF dp.sect = 0 THEN [s |-> s, dp |-> dp, res |-> "NO_FILE"]
    ELSE Then(move_window(s, dp.sect), LAMBDA t :
      LET e == Entry(t, dp)
      IN IF Name(e) = 0
         THEN [s |-> t, dp |-> [dp EXCEPT !.sect = 0], res |-> "NO_FILE"]
         ELSE IF Name(e) \notin {DDEM, DOT, DOTDOT}
         THEN [s |-> t, dp |-> [dp EXCEPT !.attr = Attr(e)], res |-> "OK"]
         ELSE Then(dir_next(t, dp, FALSE), LAMBDA r :
           IF r.res # "OK" THEN [r EXCEPT !.dp.sect = 0] ELSE dir_read(r.s, r.dp)))

RECURSIVE FindFrom(_, _)
FindFrom(s, dp) ==
    Then(move_window(s, dp.sect), LAMBDA t :
      LET e == Entry(t, dp)
          d == [dp EXCEPT !.attr = Attr(e)]
      IN IF Name(e) = 0 THEN [s |-> t, dp |-> dp, res |-> "NO_FILE"]
         ELSE IF Name(e) = dp.fn THEN [s |-> t, dp |-> d, res |-> "OK"]
         ELSE Then(dir_next(t, d, FALSE), LAMBDA r :
           IF r.res = "OK" THEN FindFrom(r.s, r.dp) ELSE r))
dir_find(s, dp) ==
    Then(dir_sdi(s, dp), LAMBDA r : IF r.res = "OK" THEN FindFrom(r.s, r.dp) ELSE r)

dir_register(s, dp) ==
    Then(dir_alloc(s, dp), LAMBDA r :
      IF r.res # "OK" THEN r
      ELSE [r EXCEPT !.s = Put(move_window(r.s, r.dp.sect), r.dp.dptr % SS,
                               <<r.dp.fn, 0, 0, 0>>)])

dir_remove(s, dp) ==
    Then(move_window(s, dp.sect), LAMBDA t :
      Put(t, dp.dptr % SS, [Entry(t, dp) EXCEPT ![1] = DDEM]))

\* The object a path leads to.  The empty path is the root itself; noname
\* tells it apart (NS_NONAME).
RECURSIVE Follow(_, _, _)
Follow(s, dp, path) ==
    Then(dir_find(s, [dp EXCEPT !.fn = Head(path)]), LAMBDA r :
      LET last == Len(path) = 1
          sub == [r.dp EXCEPT !.sclust = Clust(Entry(r.s, r.dp))]
      IN IF r.res # "OK"
         THEN [r EXCEPT !.res = IF @ = "NO_FILE" /\ ~last THEN "NO_PATH" ELSE @]
         ELSE IF last THEN r
         ELSE IF ~IsDir(r.dp.attr) THEN [r EXCEPT !.res = "NO_PATH"]
         ELSE Follow(r.s, sub, Tail(path)))
follow_path(s, path) ==
    IF path = <<>> THEN dir_sdi(s, NewDp(0)) ELSE Follow(s, NewDp(0), path)

---------------------------------------------------------------------------
(* File objects.                                                           *)

NoFil == [open |-> FALSE]

\* f_open (): mode is a subset of R(ead), W(rite), CA (create always), OA
\* (open always), CN (create new).
Emptied(s, dp) ==
    LET e == Entry(s, dp)
        t == Put(s, dp.dptr % SS, <<Name(e), ARC, 0, 0>>)
    IN IF Clust(e) = 0 THEN [s |-> t, res |-> "OK"]
       ELSE Then(remove_chain(t, Clust(e), 0), LAMBDA r :
         IF r.res # "OK" THEN r
         ELSE [s |-> [move_window(r.s, t.fs.winsect) EXCEPT !.fs.last = Clust(e) - 1],
               res |-> "OK"])

f_open(s, path, mode) ==
    LET create == mode \cap {"CA", "OA", "CN"} # {}
    IN Then(follow_path(s, path), LAMBDA f :
       LET found == IF f.res = "OK" /\ path = <<>> THEN "INVALID_NAME" ELSE f.res
           new == create /\ found # "OK"
           always == new \/ "CA" \in mode
           open == IF new /\ found = "NO_FILE" THEN dir_register(f.s, f.dp)
                   ELSE [f EXCEPT !.res =
                    CASE found # "OK" -> found
                      [] found = "OK" /\ create /\ IsDir(f.dp.attr) -> "DENIED"
                      [] found = "OK" /\ create /\ ~IsDir(f.dp.attr) /\ "CN" \in mode -> "EXIST"
                      [] found = "OK" /\ ~create /\ IsDir(f.dp.attr) -> "NO_FILE"
                      [] OTHER -> "OK"]
       IN Then(open, LAMBDA r :
          Then(IF r.res = "OK" /\ always THEN Emptied(r.s, r.dp)
               ELSE [s |-> r.s, res |-> r.res], LAMBDA t :
            LET e == Entry(t.s, r.dp)
            IN [s |-> t.s, res |-> t.res,
                f |-> IF t.res # "OK" THEN NoFil
                      ELSE [open |-> TRUE, r |-> "R" \in mode, w |-> "W" \in mode,
                            modified |-> always, dirty |-> FALSE, err |-> FALSE,
                            fptr |-> 0, clust |-> 0, sect |-> 0, buf |-> ZeroSect,
                            sclust |-> Clust(e), objsize |-> Size(e),
                            dirsect |-> t.s.fs.winsect, dirptr |-> r.dp.dptr % SS,
                            path |-> path]])))           \* ghost

\* Results of the calls on a file object: the volume, the object, the data.
Res(s, f, data) == [s |-> s, f |-> f, data |-> data]
Abort(s, f, data) == Res(s, [f EXCEPT !.err = TRUE], data)

\* Mutant of FlushBuf: a changed file buffer is dropped.
FlushBuf_Forget(s, f) == [s |-> s, f |-> [f EXCEPT !.dirty = FALSE]]

\* Write back the sector buffer if it is dirty.
FlushBuf(s, f) ==
    IF f.dirty THEN [s |-> disk_write(s, f.sect, f.buf), f |-> [f EXCEPT !.dirty = FALSE]]
    ELSE [s |-> s, f |-> f]

csect(g, f) == (f.fptr \div SS) % g.csize

\* A unit read directly, from the buffer if that is newer.
NewestCell(s, f, sect, i) ==
    LET k == sect + i \div SS
    IN IF f.dirty /\ f.sect = k THEN f.buf[i % SS] ELSE s.disk[k][i % SS]

\* f_read () and its loop: whole sectors are read from the disk directly,
\* taking a dirty sector from the buffer; the rest goes through the buffer.
RECURSIVE ReadLoop(_, _, _, _)
ReadLoop(s, f, n, data) ==
    LET top == csect(s.g, f) = 0
        cc == Min2(n \div SS, s.g.csize - csect(s.g, f))
        Part(t, k) == LET m == Min2(SS - (k.fptr % SS), n)
                      IN ReadLoop(t, [k EXCEPT !.fptr = @ + m], n - m,
                                  data \o [i \in 1..m |-> k.buf[(k.fptr % SS) + i - 1]])
    IN IF n = 0 THEN Res(s, f, data)
       ELSE IF f.fptr % SS # 0 THEN Part(s, f)
       ELSE Then(IF ~top THEN [s |-> s, v |-> f.clust]
                 ELSE IF f.fptr = 0 THEN [s |-> s, v |-> f.sclust]
                 ELSE get_fat(s, f.clust), LAMBDA c :
         LET g == [f EXCEPT !.clust = c.v]
             sect == clust2sect(s.g, c.v) + csect(s.g, f)
         IN IF (top /\ c.v < 2) \/ clust2sect(s.g, c.v) = 0 THEN Abort(c.s, f, data)
            ELSE IF cc > 0
            THEN ReadLoop(c.s, [g EXCEPT !.fptr = @ + SS * cc], n - SS * cc,
                          data \o [i \in 1..SS*cc |-> NewestCell(c.s, g, sect, i - 1)])
            ELSE IF g.sect = sect THEN Part(c.s, g)
            ELSE Then(FlushBuf(c.s, g), LAMBDA w :
              Part(w.s, [w.f EXCEPT !.buf = w.s.disk[sect], !.sect = sect])))

f_read(s, f, btr) ==
    IF f.err \/ ~f.r THEN Res(s, f, <<>>)
    ELSE ReadLoop(s, f, Min2(btr, f.objsize - f.fptr), <<>>)

\* f_write () and its loop; it stops early when the volume is full.
RECURSIVE WriteLoop(_, _, _)
WriteLoop(s, f, w) ==
    LET top == csect(s.g, f) = 0
        cc == Min2(Len(w) \div SS, s.g.csize - csect(s.g, f))
        Sector(i) == [j \in 0..SS-1 |-> w[i * SS + j + 1]]
        RECURSIVE Direct(_, _, _)
        Direct(t, sect, i) == IF i = cc THEN t
                              ELSE Direct(disk_write(t, sect + i, Sector(i)), sect, i + 1)
        Wrote(k, n) == [k EXCEPT !.fptr = @ + n,
                                 !.objsize = IF k.fptr + n > @ THEN k.fptr + n ELSE @]
        Part(t, k) == LET n == Min2(SS - (k.fptr % SS), Len(w))
                          o == k.fptr % SS
                          b == [i \in 0..SS-1 |-> IF i >= o /\ i < o + n THEN w[i - o + 1] ELSE k.buf[i]]
                      IN WriteLoop(t, Wrote([k EXCEPT !.buf = b, !.dirty = TRUE], n),
                                   SubSeq(w, n + 1, Len(w)))
    IN IF w = <<>> THEN Res(s, f, w)
       ELSE IF f.fptr % SS # 0 THEN Part(s, f)
       ELSE Then(IF ~top THEN [s |-> s, v |-> f.clust]
                 ELSE IF f.fptr = 0 /\ f.sclust # 0 THEN [s |-> s, v |-> f.sclust]
                 ELSE create_chain(s, IF f.fptr = 0 THEN 0 ELSE f.clust), LAMBDA c :
         IF top /\ c.v = 0 THEN Res(c.s, f, w)
         ELSE IF (top /\ c.v = 1) \/ clust2sect(s.g, c.v) = 0 THEN Abort(c.s, f, w)
         ELSE Then(FlushBuf(c.s, [f EXCEPT !.clust = c.v,
                                           !.sclust = IF @ = 0 THEN c.v ELSE @]), LAMBDA g :
           LET sect == clust2sect(s.g, c.v) + csect(s.g, f)
               hit == g.f.sect >= sect /\ g.f.sect < sect + cc
               refilled == IF hit THEN [g.f EXCEPT !.buf = Sector(g.f.sect - sect)] ELSE g.f
               loaded == [g.f EXCEPT !.sect = sect,
                                     !.buf = IF g.f.sect # sect /\ g.f.fptr < g.f.objsize
                                             THEN g.s.disk[sect] ELSE @]
           IN IF cc > 0
              THEN WriteLoop(Direct(g.s, sect, 0), Wrote(refilled, SS * cc),
                             SubSeq(w, SS * cc + 1, Len(w)))
              ELSE Part(g.s, loaded)))

\* The data of the result are the units left unwritten.
f_write(s, f, w) ==
    IF f.err \/ ~f.w THEN Res(s, f, w)
    ELSE Then(WriteLoop(s, f, w), LAMBDA r :
           IF r.f.err THEN r ELSE [r EXCEPT !.f.modified = TRUE])

\* The directory entry takes over what the object knows of the file.
f_sync(s, f) ==
    IF ~f.modified THEN Res(s, f, <<>>)
    ELSE Then(FlushBuf(s, f), LAMBDA w :
         Then(move_window(w.s, f.dirsect), LAMBDA t :
           LET e == t.fs.win[f.dirptr]
               a == IF Attr(e) \in {0, DIRATTR} THEN Attr(e) + ARC ELSE Attr(e)
           IN Res(sync_fs(Put(t, f.dirptr, <<Name(e), a, f.sclust, f.objsize>>)),
                  [w.f EXCEPT !.modified = FALSE], <<>>)))

f_close(s, f) == Res(f_sync(s, f).s, NoFil, <<>>)

\* Follow the chain to the cluster that holds ofs, stretching it when the
\* file is open for writing; a full volume clips the offset.
RECURSIVE SeekLoop(_, _, _)
SeekLoop(s, f, ofs) ==
    LET bcs == s.g.csize * SS
    IN IF ofs =< bcs THEN [s |-> s, f |-> f, ofs |-> ofs]
       ELSE Then(IF f.w THEN create_chain(s, f.clust) ELSE get_fat(s, f.clust), LAMBDA c :
         IF f.w /\ c.v = 0 THEN [s |-> c.s, f |-> f, ofs |-> bcs]
         ELSE IF c.v =< 1 \/ c.v >= n_fatent(s.g)
         THEN [s |-> c.s, f |-> [f EXCEPT !.err = TRUE], ofs |-> ofs]
         ELSE SeekLoop(c.s, [f EXCEPT !.clust = c.v, !.fptr = @ + bcs], ofs - bcs))

\* A position behind the end makes the file longer.
Extended(f) == IF f.fptr > f.objsize THEN [f EXCEPT !.objsize = f.fptr, !.modified = TRUE] ELSE f

\* The position of f_lseek () found: from the cluster at hand when it lies behind that,
\* from the first one otherwise.
Sought(s, f, ofs) ==
    LET bcs == s.g.csize * SS
        near == f.fptr > 0 /\ (ofs - 1) \div bcs >= (f.fptr - 1) \div bcs
        base == ((f.fptr - 1) \div bcs) * bcs
        First == Then(IF f.sclust # 0 THEN [s |-> s, v |-> f.sclust] ELSE create_chain(s, 0),
                      LAMBDA c : [s |-> c.s, ofs |-> ofs,
                                  f |-> IF c.v = 1 THEN [f EXCEPT !.fptr = 0, !.err = TRUE]
                                        ELSE [f EXCEPT !.fptr = 0, !.clust = c.v, !.sclust = c.v]])
    IN IF ofs = 0 THEN [s |-> s, f |-> [f EXCEPT !.fptr = 0], nsect |-> 0]
       ELSE Then(IF near THEN [s |-> s, f |-> [f EXCEPT !.fptr = base], ofs |-> ofs - base]
                 ELSE First, LAMBDA start :
            IF start.f.clust = 0 \/ start.f.err THEN [s |-> start.s, f |-> start.f, nsect |-> 0]
            ELSE Then(SeekLoop(start.s, start.f, start.ofs), LAMBDA l :
              LET first == clust2sect(s.g, l.f.clust)
                  there == [l.f EXCEPT !.fptr = @ + l.ofs]
              IN IF l.f.err THEN [s |-> l.s, f |-> l.f, nsect |-> 0]
                 ELSE IF l.ofs % SS = 0 THEN [s |-> l.s, f |-> there, nsect |-> 0]
                 ELSE IF first = 0 THEN [s |-> l.s, f |-> [there EXCEPT !.err = TRUE], nsect |-> 0]
                 ELSE [s |-> l.s, f |-> there, nsect |-> first + l.ofs \div SS]))

f_lseek(s, f, offset) ==
    IF f.err THEN Res(s, f, <<>>)
    ELSE Then(Sought(s, f, IF offset > f.objsize /\ ~f.w THEN f.objsize ELSE offset),
              LAMBDA moved :
      LET m == moved.f
      IN IF m.err THEN Res(moved.s, m, <<>>)
         ELSE IF m.fptr % SS = 0 \/ moved.nsect = m.sect THEN Res(moved.s, Extended(m), <<>>)
         ELSE Then(FlushBuf(moved.s, m), LAMBDA w :
           Res(w.s, Extended([w.f EXCEPT !.buf = w.s.disk[moved.nsect],
                                         !.sect = moved.nsect]), <<>>)))

f_truncate(s, f) ==
    LET cut == [f EXCEPT !.sclust = IF f.fptr = 0 THEN 0 ELSE @,
                         !.objsize = f.fptr, !.modified = TRUE]
        Shortened == IF f.fptr = 0 THEN remove_chain(s, f.sclust, 0)
                     ELSE Then(get_fat(s, f.clust), LAMBDA n :
                       IF n.v = 1 THEN [s |-> n.s, res |-> "INT_ERR"]
                       ELSE IF n.v < n_fatent(s.g) THEN remove_chain(n.s, n.v, f.clust)
                       ELSE [s |-> n.s, res |-> "OK"])
    IN IF f.err \/ ~f.w \/ f.objsize =< f.fptr THEN Res(s, f, <<>>)
       ELSE Then(Shortened, LAMBDA r :
         IF r.res # "OK" THEN Abort(r.s, cut, <<>>)
         ELSE Then(FlushBuf(r.s, cut), LAMBDA w : Res(w.s, w.f, <<>>)))

---------------------------------------------------------------------------
(* Calls on paths.                                                         *)

\* The entry goes first, then the chain.  A directory must be empty.
f_unlink(s, path) ==
    Then(follow_path(s, path), LAMBDA f :
      LET c == Clust(Entry(f.s, f.dp))
          Empty == Then(dir_sdi(f.s, NewDp(c)), LAMBDA sub :
                     IF sub.res # "OK" THEN [s |-> sub.s, res |-> sub.res]
                     ELSE Then(dir_read(sub.s, sub.dp), LAMBDA item :
                       [s |-> item.s, res |-> CASE item.res = "OK" -> "DENIED"
                                                [] item.res = "NO_FILE" -> "OK"
                                                [] OTHER -> item.res]))
      IN IF f.res # "OK" THEN [s |-> f.s, res |-> f.res]
         ELSE IF path = <<>> THEN [s |-> f.s, res |-> "INVALID_NAME"]
         ELSE Then(IF ~IsDir(f.dp.attr) THEN [s |-> f.s, res |-> "OK"] ELSE Empty, LAMBDA e :
           IF e.res # "OK" THEN e
           ELSE Then(dir_remove(e.s, f.dp), LAMBDA t :
                Then(IF c = 0 THEN [s |-> t, res |-> "OK"] ELSE remove_chain(t, c, 0), LAMBDA r :
                  [s |-> IF r.res = "OK" THEN sync_fs(r.s) ELSE r.s, res |-> r.res]))))

\* Write the dot entries to the first sector, clear the others.
RECURSIVE DotSectors(_, _, _)
DotSectors(s, sect, n) ==
    IF n = 0 THEN s
    ELSE DotSectors([sync_window([s EXCEPT !.fs.winsect = sect, !.fs.wflag = TRUE])
                       EXCEPT !.fs.win = ZeroSect], sect + 1, n - 1)

f_mkdir(s, path) ==
    Then(follow_path(s, path), LAMBDA f :
      IF f.res = "OK" THEN [s |-> f.s, res |-> "EXIST"]
      ELSE IF f.res # "NO_FILE" THEN [s |-> f.s, res |-> f.res]
      ELSE Then(create_chain(f.s, 0), LAMBDA c :
        LET dots == [i \in 0..SS-1 |-> CASE i = 0 -> <<DOT, DIRATTR, c.v, 0>>
                                         [] i = 1 -> <<DOTDOT, DIRATTR, f.dp.sclust, 0>>
                                         [] OTHER -> Zero]
        IN IF c.v = 0 THEN [s |-> c.s, res |-> "DENIED"]
           ELSE IF c.v = 1 THEN [s |-> c.s, res |-> "INT_ERR"]
           ELSE Then(dir_register(DotSectors([sync_window(c.s) EXCEPT !.fs.win = dots],
                                             clust2sect(s.g, c.v), s.g.csize), f.dp), LAMBDA r :
             IF r.res # "OK" THEN [s |-> remove_chain(r.s, c.v, 0).s, res |-> r.res]
             ELSE [s |-> sync_fs(Put(r.s, r.dp.dptr % SS, <<f.dp.fn, DIRATTR, c.v, 0>>)),
                   res |-> "OK"])))

\* The new entry is registered before the old one is removed; a directory
\* that changes its parent has its dot-dot entry led to the new one.
f_rename(s, old, new) ==
    Then(follow_path(s, old), LAMBDA o :
      LET e == Entry(o.s, o.dp)
          attr == IF Attr(e) \in {0, DIRATTR} THEN Attr(e) + ARC ELSE Attr(e)
          dw == clust2sect(s.g, Clust(e))
      IN IF o.res # "OK" THEN [s |-> o.s, res |-> o.res]
         ELSE IF old = <<>> THEN [s |-> o.s, res |-> "INVALID_NAME"]
         ELSE Then(follow_path(o.s, new), LAMBDA n :
           IF n.res = "OK" THEN [s |-> n.s, res |-> "EXIST"]
           ELSE IF n.res # "NO_FILE" THEN [s |-> n.s, res |-> n.res]
           ELSE Then(dir_register(n.s, n.dp), LAMBDA r :
             LET t == Put(r.s, r.dp.dptr % SS, <<r.dp.fn, attr, Clust(e), Size(e)>>)
                 moved == IsDir(attr) /\ o.dp.sclust # n.dp.sclust
                 Led == Then(move_window(t, dw), LAMBDA m :
                          IF Name(m.fs.win[1]) = DOTDOT
                          THEN Put(m, 1, [m.fs.win[1] EXCEPT ![3] = n.dp.sclust]) ELSE m)
             IN IF r.res # "OK" THEN [s |-> r.s, res |-> r.res]
                ELSE IF moved /\ dw = 0 THEN [s |-> t, res |-> "INT_ERR"]
                ELSE [s |-> sync_fs(dir_remove(IF moved THEN Led ELSE t, o.dp)),
                      res |-> "OK"])))

f_stat(s, path) ==
    Then(follow_path(s, path), LAMBDA f :
      [s |-> f.s, res |-> IF f.res = "OK" /\ path = <<>> THEN "INVALID_NAME" ELSE f.res])

NoDir == [open |-> FALSE]

f_opendir(s, path) ==
    Then(follow_path(s, path), LAMBDA f :
      Then(dir_sdi(f.s, NewDp(IF path = <<>> THEN 0 ELSE Clust(Entry(f.s, f.dp)))), LAMBDA r :
        IF f.res # "OK" \/ (path # <<>> /\ ~IsDir(f.dp.attr)) \/ r.res # "OK"
        THEN [s |-> f.s, d |-> NoDir]
        ELSE [s |-> r.s, d |-> [open |-> TRUE, path |-> path, dp |-> r.dp]]))

\* The name is 0 at the end of the directory.
f_readdir(s, d) ==
    Then(dir_read(s, d.dp), LAMBDA r :
      IF r.res # "OK" THEN [s |-> r.s, d |-> [d EXCEPT !.dp = r.dp], name |-> 0]
      ELSE Then(dir_next(r.s, r.dp, FALSE), LAMBDA n :
        [s |-> n.s, d |-> [d EXCEPT !.dp = n.dp], name |-> Name(Entry(r.s, r.dp))]))

\* Count the free entries of the FAT, sector by sector, unless the count is
\* known already.
RECURSIVE CountFrom(_, _, _)
CountFrom(s, sect, n) ==
    LET done == (sect - fatbase(s.g)) * SS
    IN Then(move_window(s, sect), LAMBDA t :
         LET here == {i \in 0..SS-1 : done + i < n_fatent(s.g) /\ t.fs.win[i] = Zero}
             m == n + Cardinality(here)
         IN IF done + SS >= n_fatent(s.g)
            THEN [t EXCEPT !.fs.free = m, !.fs.fsi = TRUE]
            ELSE CountFrom(t, sect + 1, m))
f_getfree(s) == IF s.fs.free =< n_fatent(s.g) - 2 THEN s ELSE CountFrom(s, fatbase(s.g), 0)

\* check_fs () and find_volume () on a formatted volume: the window is
\* dropped, the boot sector (and FSInfo) read, the counts taken from there.
Unmounted == [type |-> 0, win |-> ZeroSect, winsect |-> UNKNOWN, wflag |-> FALSE,
              last |-> UNKNOWN, free |-> UNKNOWN, fsi |-> FALSE]
f_mount(s) ==
    Then(move_window([s EXCEPT !.fs = Unmounted], 0), LAMBDA b :
      IF b.fs.win[0][1] # 32 THEN [b EXCEPT !.fs.type = b.fs.win[0][1]]
      ELSE Then(move_window(b, 1), LAMBDA i :
        [i EXCEPT !.fs.type = 32, !.fs.free = i.fs.win[0][1], !.fs.last = i.fs.win[0][2]]))

---------------------------------------------------------------------------
(* What the volume holds, seen through the window and the file buffers.    *)

Vol == [g |-> geo, disk |-> disk, fs |-> fs, log |-> <<>>]

Sect(s, sect) == IF sect = s.fs.winsect THEN s.fs.win ELSE s.disk[sect]
FatOf(s, c) == Sect(s, FatSect(s.g, c))[c % SS][1]
Clusters(g) == 2..g.ncl+1

\* The chain from c on, cut after as many links as there are clusters.
RECURSIVE ChainFrom(_, _, _)
ChainFrom(s, c, n) == IF c \notin Clusters(s.g) \/ n = 0 THEN <<>>
                      ELSE <<c>> \o ChainFrom(s, FatOf(s, c), n - 1)
Chain(s, c) == ChainFrom(s, c, s.g.ncl)
Ends(s, c) == LET ch == Chain(s, c) IN ch # <<>> => FatOf(s, ch[Len(ch)]) = EOC

DirStart(s, c) == IF c = 0 /\ s.g.type = 32 THEN dirbase(s.g) ELSE c
DirSects(s, c) ==
    LET ch == Chain(s, DirStart(s, c))
    IN IF DirStart(s, c) = 0
       THEN [i \in 1..(s.g.nroot \div SS) |-> dirbase(s.g) + i - 1]
       ELSE [i \in 1..(Len(ch) * s.g.csize) |->
               clust2sect(s.g, ch[(i - 1) \div s.g.csize + 1]) + ((i - 1) % s.g.csize)]

\* The places <<sector, index>> of a directory in front of its end.
Places(s, c) ==
    LET sects == DirSects(s, c)
        At(k) == <<sects[k \div SS + 1], k % SS>>
        NameAt(k) == Name(Sect(s, At(k)[1])[At(k)[2]])
        size == Len(sects) * SS
    IN {At(k) : k \in {j \in 0..size-1 : \A i \in 0..j : NameAt(i) # 0}}
CellAt(s, pl) == Sect(s, pl[1])[pl[2]]
Named(s, c, name) == {pl \in Places(s, c) : Name(CellAt(s, pl)) = name}

\* The place of the entry a path leads to, {} if there is none.
RECURSIVE PlaceFrom(_, _, _)
PlaceFrom(s, c, path) ==
    Then(Named(s, c, Head(path)), LAMBDA here :
      LET cell == CellAt(s, CHOOSE pl \in here : TRUE)
      IN IF here = {} \/ Len(path) = 1 THEN here
         ELSE IF IsDir(Attr(cell)) THEN PlaceFrom(s, Clust(cell), Tail(path)) ELSE {})
PlaceOf(s, path) == PlaceFrom(s, 0, path)

\* The object that has the file at a place open, if it may differ from the
\* directory entry.
Owners(fl, pl) == {h \in Handles : fl[h].open /\ <<fl[h].dirsect, fl[h].dirptr>> = pl}
Start(s, fl, pl) == LET o == Owners(fl, pl)
                    IN IF o = {} THEN Clust(CellAt(s, pl)) ELSE fl[CHOOSE h \in o : TRUE].sclust
SizeAt(s, fl, pl) == LET o == Owners(fl, pl)
                     IN IF o = {} THEN Size(CellAt(s, pl)) ELSE fl[CHOOSE h \in o : TRUE].objsize

Unit(s, fl, pl, i) ==
    LET ch == Chain(s, Start(s, fl, pl))
        bcs == s.g.csize * SS
        k == clust2sect(s.g, ch[i \div bcs + 1]) + ((i \div SS) % s.g.csize)
        bufs == {h \in Owners(fl, pl) : fl[h].dirty /\ fl[h].sect = k}
    IN IF i \div bcs + 1 > Len(ch) THEN <<-1>>
       ELSE IF bufs # {} THEN fl[CHOOSE h \in bufs : TRUE].buf[i % SS] ELSE s.disk[k][i % SS]

None == <<"none">>
Dir == <<"dir">>
File(data) == <<"file", data>>

Content(s, fl, path) ==
    Then(PlaceOf(s, path), LAMBDA pls :
      LET pl == CHOOSE q \in pls : TRUE
      IN IF pls = {} THEN None
         ELSE IF IsDir(Attr(CellAt(s, pl))) THEN Dir
         ELSE File([i \in 1..SizeAt(s, fl, pl) |-> Unit(s, fl, pl, i - 1)]))

View(s, fl) == [p \in Paths |-> Content(s, fl, p)]
OpenPaths == {fil[h].path : h \in {k \in Handles : fil[k].open}}
NamesIn(s, path) == {p[Len(p)] : p \in {q \in Paths : /\ Len(q) = Len(path) + 1
                                                    /\ SubSeq(q, 1, Len(path)) = path
                                                    /\ PlaceOf(s, q) # {}}}

---------------------------------------------------------------------------
(* The calls.  ffconf.h (_FS_LOCK) leaves it to the caller not to open an  *)
(* object twice unless for reading, and not to remove or rename an open    *)
(* one; that is the guard Legal.  After each call a power failure may have *)
(* cut it short: the first k of its disk writes have reached the disk.     *)

Below(p, d) == Len(p) >= Len(d) /\ SubSeq(p, 1, Len(d)) = d
InUse(p) == \E q \in OpenPaths : Below(q, p)

Replay(log) ==
    [i \in DOMAIN disk |->
       LET hits == {k \in 1..Len(log) : log[k][1] = i}
       IN IF hits = {} THEN disk[i]
          ELSE log[CHOOSE k \in hits : \A j \in hits : j =< k][2]]

\* Paths a failure during the call may harm: those it is about, and those
\* of files with changes not yet synchronised.
Unsaved == {fil[h].path : h \in {k \in Handles : fil[k].open /\ (fil[k].w \/ fil[k].modified)}}
Spared(about) == {p \in Paths : \A q \in about \cup Unsaved \cup loose : ~Below(p, q)}

PowerFails(t, about) ==
    /\ \E k \in 0..Len(t.log) :
         LET d == Replay(SubSeq(t.log, 1, k))
         IN /\ disk' = d
            /\ tree' = View([g |-> geo, disk |-> d, fs |-> Unmounted, log |-> <<>>],
                            [h \in Handles |-> NoFil])
    /\ off' = TRUE
    /\ fs' = Unmounted
    /\ fil' = [h \in Handles |-> NoFil]
    /\ dir' = NoDir
    /\ good' = TRUE
    /\ list' = [want |-> {}, got |-> {}]
    /\ spared' = Spared(about)

\* A call that ends with volume t and objects f, or is cut short.
Return(t, about, f, d, g, l) ==
    /\ ~off /\ calls < MAXCALLS
    /\ calls' = calls + 1
    /\ UNCHANGED geo
    /\ \/ /\ disk' = t.disk /\ fs' = t.fs
          /\ fil' = f /\ dir' = d /\ good' = g /\ list' = l
          /\ tree' = View(t, f)
          /\ UNCHANGED <<off, spared>>
       \/ PowerFails(t, about)

OnFile(t, h, f, g) == /\ Return(t, {}, [fil EXCEPT ![h] = f], dir, g, list)
                      /\ UNCHANGED loose
Lost(l, p) == IF dir.open /\ p # <<>> /\ SubSeq(p, 1, Len(p) - 1) = dir.path
              THEN [l EXCEPT !.want = @ \ {p[Len(p)]}] ELSE l

Open(c) ==
    /\ c.op = "open" /\ UNCHANGED loose
    /\ ~fil[c.h].open
    /\ c.path \in OpenPaths => c.mode = {"R"} /\ c.path \notin Unsaved
    /\ \E r \in {f_open(Vol, c.path, c.mode)} :
         Return(r.s, {c.path}, [fil EXCEPT ![c.h] = r.f], dir, TRUE, list)

\* fat_touch () drops the object it opened.
Touch(c) ==
    /\ c.op = "touch" /\ c.path \notin OpenPaths
    /\ loose' = loose \cup {c.path}
    /\ \E r \in {f_open(Vol, c.path, {"OA"})} : Return(r.s, {c.path}, fil, dir, TRUE, list)

Write(c) ==
    /\ c.op = "write" /\ fil[c.h].open
    /\ LET f == fil[c.h]
           w == [i \in 1..c.n |-> <<c.x>>]
           old == tree[f.path][2]
           New(n) == SubSeq(old, 1, f.fptr) \o SubSeq(w, 1, n) \o SubSeq(old, f.fptr + n + 1, Len(old))
           Full(s) == \A cl \in Clusters(geo) : FatOf(s, cl) # 0
       IN \E r \in {f_write(Vol, f, w)} :
            LET n == Len(w) - Len(r.data)
            IN OnFile(r.s, c.h, r.f,
                      /\ Content(r.s, [fil EXCEPT ![c.h] = r.f], f.path)[2] = New(n)
                      /\ f.w /\ ~f.err => n = c.n \/ Full(r.s))

Read(c) ==
    /\ c.op = "read" /\ fil[c.h].open
    /\ LET f == fil[c.h]
           old == tree[f.path][2]
       IN \E r \in {f_read(Vol, f, c.n)} :
            OnFile(r.s, c.h, r.f,
                   f.r /\ ~f.err => r.data = SubSeq(old, f.fptr + 1, Min2(f.fptr + c.n, Len(old))))

Seek(c) ==
    /\ c.op = "seek" /\ fil[c.h].open
    /\ \E r \in {f_lseek(Vol, fil[c.h], c.n)} : OnFile(r.s, c.h, r.f, TRUE)

Truncate(c) ==
    /\ c.op = "truncate" /\ fil[c.h].open
    /\ \E r \in {f_truncate(Vol, fil[c.h])} : OnFile(r.s, c.h, r.f, TRUE)

Sync(c) ==
    /\ c.op = "sync" /\ fil[c.h].open
    /\ \E r \in {f_sync(Vol, fil[c.h])} : OnFile(r.s, c.h, r.f, TRUE)

Close(c) ==
    /\ c.op = "close" /\ fil[c.h].open
    /\ \E r \in {f_close(Vol, fil[c.h])} : OnFile(r.s, c.h, r.f, TRUE)

OnPath(t, about, l) == Return(t, about, fil, dir, TRUE, l) /\ UNCHANGED loose

Unlink(c) ==
    /\ c.op = "unlink" /\ ~InUse(c.path) /\ ~(dir.open /\ Below(dir.path, c.path))
    /\ \E r \in {f_unlink(Vol, c.path)} :
         OnPath(r.s, {c.path}, IF r.res = "OK" THEN Lost(list, c.path) ELSE list)

Mkdir(c) == /\ c.op = "mkdir"
            /\ OnPath(f_mkdir(Vol, c.path).s, {c.path}, list)

\* A directory is not moved below itself: f_rename () does not check that.
Rename(c) ==
    /\ c.op = "rename" /\ ~InUse(c.path) /\ ~Below(c.to, c.path)
    /\ ~(dir.open /\ Below(dir.path, c.path))
    /\ \E r \in {f_rename(Vol, c.path, c.to)} :
         OnPath(r.s, {c.path, c.to}, IF r.res = "OK" THEN Lost(list, c.path) ELSE list)

Stat(c) == c.op = "stat" /\ OnPath(f_stat(Vol, c.path).s, {}, list)
GetFree(c) == c.op = "getfree" /\ OnPath(f_getfree(Vol), {}, list)

OpenDir(c) ==
    /\ c.op = "opendir" /\ UNCHANGED loose /\ ~dir.open
    /\ \E r \in {f_opendir(Vol, c.path)} :
         Return(r.s, {}, fil, r.d, TRUE, [want |-> IF r.d.open THEN NamesIn(Vol, c.path) ELSE {}, got |-> {}])
ReadDir(c) ==
    /\ c.op = "readdir" /\ UNCHANGED loose /\ dir.open
    /\ \E r \in {f_readdir(Vol, dir)} :
         Return(r.s, {}, fil, r.d, r.name = 0 => list.want \subseteq list.got,
                [list EXCEPT !.got = @ \cup {r.name}])
CloseDir(c) ==
    /\ c.op = "closedir" /\ UNCHANGED loose /\ dir.open
    /\ Return(Vol, {}, fil, NoDir, TRUE, [want |-> {}, got |-> {}])

\* A later f_mount () of the volume, by this code on a machine switched on again.
\* (In this kernel disk_test () has by then overwritten the first sectors of the
\* disk, and fs_test () makes a new volume.)
Mount ==
    /\ off /\ fs.type = 0
    /\ fs' = f_mount(Vol).fs
    /\ UNCHANGED <<geo, disk, fil, dir, calls, tree, good, list, loose, off, spared>>

\* A volume as f_mkfs () leaves it, its data area full of old bytes.
Formatted(g) ==
    [k \in 0..LastSect(g) |->
       [i \in 0..SS-1 |->
          LET c == (IF k < fatbase(g) + fsize(g) THEN k - fatbase(g)
                    ELSE k - fatbase(g) - fsize(g)) * SS + i
          IN CASE k = 0 -> IF i = 0 THEN <<g.type>> ELSE Zero
               [] k > 0 /\ k < fatbase(g) -> IF i = 0 THEN <<g.ncl - 1, 2>> ELSE Zero
               [] k >= fatbase(g) /\ k < FatEnd(g) ->
                    IF c < 2 \/ (c = 2 /\ g.type = 32) THEN <<EOC>> ELSE Zero
               [] k >= FatEnd(g) /\ k < database(g) -> Zero
               [] OTHER -> IF g.type = 32 /\ k < database(g) + g.csize THEN Zero ELSE <<9>>]]

\* The volume after a sequence of steps [path, n]: a directory is made, or
\* a file of n units written and closed.
RECURSIVE Prepared(_, _)
Prepared(s, steps) ==
    LET st == Head(steps)
        Written == Then(f_open(s, st.path, {"W", "CN"}), LAMBDA o :
                   Then(f_write(o.s, o.f, [i \in 1..st.n |-> <<3>>]), LAMBDA w :
                     f_close(w.s, w.f).s))
    IN IF steps = <<>> THEN [s EXCEPT !.log = <<>>]
       ELSE Prepared(IF st.n = 0 THEN f_mkdir(s, st.path).s ELSE Written, Tail(steps))

Init ==
    /\ geo \in Geometries
    /\ \E steps \in Preludes :
         LET s == [g |-> geo, disk |-> Formatted(geo), fs |-> Unmounted, log |-> <<>>]
         IN \E t \in {Prepared([s EXCEPT !.fs = f_mount(s).fs], steps)} :
              /\ disk = t.disk
              /\ fs = t.fs
              /\ tree = View(t, [h \in Handles |-> NoFil])
    /\ fil = [h \in Handles |-> NoFil]
    /\ dir = NoDir
    /\ calls = 0
    /\ good = TRUE
    /\ list = [want |-> {}, got |-> {}]
    /\ loose = {}
    /\ off = FALSE
    /\ spared = {}

Next == \/ Mount
        \/ \E c \in Calls :
             \/ Open(c) \/ Touch(c) \/ Write(c) \/ Read(c) \/ Seek(c) \/ Truncate(c)
             \/ Sync(c) \/ Close(c) \/ Unlink(c) \/ Mkdir(c) \/ Rename(c) \/ Stat(c)
             \/ GetFree(c) \/ OpenDir(c) \/ ReadDir(c) \/ CloseDir(c)

Spec == Init /\ [][Next]_vars

---------------------------------------------------------------------------
(* Properties.                                                             *)

\* The volume, the window and the file objects have their shapes.
TypeOK ==
    /\ geo \in Geometries
    /\ DOMAIN disk = 0..LastSect(geo)
    /\ fs.winsect \in DOMAIN disk \cup {UNKNOWN}
    /\ \A h \in Handles : fil[h].open => /\ fil[h].dirsect \in DOMAIN disk
                                        /\ fil[h].sclust \in {0} \cup Clusters(geo)
                                        /\ fil[h].fptr =< fil[h].objsize
                                        /\ ~fil[h].err
    /\ spared \subseteq Paths

\* The chains of all files and directories, with what open objects have not
\* yet written back, end properly, share no cluster, leave none marked in
\* use that nobody has, and are exactly as long as the files need: what
\* create_chain, remove_chain and the loops of f_write, f_lseek and
\* f_truncate keep up together.
There == {p \in Paths : PlaceOf(Vol, p) # {}}
ThePlace(p) == CHOOSE pl \in PlaceOf(Vol, p) : TRUE
StartOf(p) == IF p = <<>> THEN DirStart(Vol, 0) ELSE Start(Vol, fil, ThePlace(p))
ChainsSound ==
    off \/
    LET all == There \cup {<<>>}
        Set(p) == {Chain(Vol, StartOf(p))[i] : i \in 1..Len(Chain(Vol, StartOf(p)))}
        bcs == SS * geo.csize
    IN /\ \A p \in all : Ends(Vol, StartOf(p))
       /\ \A p, q \in all : p # q => Set(p) \cap Set(q) = {}
       /\ UNION {Set(p) : p \in all} = {c \in Clusters(geo) : FatOf(Vol, c) # 0}
       /\ \A p \in There :
            Len(Chain(Vol, StartOf(p))) =
              IF Content(Vol, fil, p) = Dir THEN Len(Chain(Vol, StartOf(p)))
              ELSE (SizeAt(Vol, fil, ThePlace(p)) + bcs - 1) \div bcs

\* f_read returned, and f_write left in the file, exactly the units asked
\* for, and a short write means a full volume; f_readdir listed, by its end,
\* every name that was there throughout.  The sector buffer of the file,
\* the direct transfers and the window may each hold the newest copy.
DataRight == good

\* free_clst, once below the number of clusters, is the number of free
\* entries of the FAT.  (At exactly that number create_chain does not
\* decrement it any more, though f_getfree takes it for valid.)
FreeCount ==
    off \/ fs.free >= geo.ncl
    \/ fs.free = Cardinality({c \in Clusters(geo) : FatOf(Vol, c) = 0})

\* The two copies of the FAT are the same on the disk whenever no call is
\* under way: sync_window writes both.
CopiesAgree ==
    off \/ geo.nfats = 1
    \/ \A k \in fatbase(geo)..fatbase(geo)+fsize(geo)-1 : disk[k] = disk[k + fsize(geo)]

\* After every call the FAT, its copy, the free count and the data returned so far
\* fit together, whatever the sector buffers have not written back.
VolumeSound == TypeOK /\ ChainsSound /\ DataRight /\ FreeCount /\ CopiesAgree

\* A power failure at any disk write of any call leaves every file that the
\* call is not about, and that has no unsaved changes, as it was: the order
\* of the writes never passes through a disk on which another file is lost.
CrashSpares == [][~off /\ off' => \A p \in spared' : tree'[p] = tree[p]]_vars

\* While the power is on FatFs is a FileStore: every call changes the tree
\* and the handles as the abstract call does, and nothing else.
Store == INSTANCE FileStore WITH
    hnd <- [h \in Handles |-> IF ~fil[h].open THEN <<"closed">>
                              ELSE <<"open", fil[h].path, fil[h].fptr, fil[h].w>>],
    on <- ~off,
    MaxSize <- SS * geo.csize * geo.ncl
ImplementsStore == Store!Spec
=============================================================================
