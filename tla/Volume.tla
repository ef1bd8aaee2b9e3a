------------------------------- MODULE Volume -------------------------------
(*****************************************************************************)
(* How FatFs lays out a volume: f_mkfs () and the mount that reads it back, the *)
(* entries of the FAT as bytes, and 8.3 names.                               *)
(*****************************************************************************)
EXTENDS Integers, Sequences

(***************************************************************************)
(* f_mkfs () of FatFs and the mount that follows it (find_volume ()), for  *)
(* the disk the kernel gives them: sectors of 512 bytes, one FAT, an MBR   *)
(* with one partition from sector 63 on (fat_mkfs calls f_mkfs("/", 0, 0)) *)
(* and an erase block "size" of 512 sectors (disk_ioctl GET_BLOCK_SIZE).   *)
(* All quantities are sectors unless said otherwise.                       *)
(***************************************************************************)
CONSTANTS Sizes       \* the sizes of disk to be formatted

VARIABLES size,       \* of this disk
          step,       \* "blank", "formatted" (f_mkfs ended) or "mounted"
          boot,       \* the boot sector f_mkfs wrote
          made,       \* ghost: the layout f_mkfs had in mind
          found       \* what find_volume made of the boot sector

mkfsVars == <<size, step, boot, made, found>>

SS == 512
SZDIRE == 32
MIN_FAT16 == 4086
MIN_FAT32 == 65526
N_ROOTDIR == 512
VolBase == 63
BlockSize == 512
HUGE == 2147483647    \* stands for an unsigned difference below zero

Wrap(n) == IF n < 0 THEN HUGE ELSE n
FatType(n) == IF n >= MIN_FAT32 THEN 32 ELSE IF n >= MIN_FAT16 THEN 16 ELSE 12

\* The allocation unit in sectors (the tables vst and cst): bytes by volume size.
vst == <<1024, 512, 256, 128, 64, 32, 16, 8, 4, 2, 0>>
cst == <<32768, 16384, 8192, 4096, 2048, 16384, 8192, 4096, 2048, 1024, 512>>
AllocUnit(n_vol) ==
    LET i == CHOOSE k \in 1..11 : /\ n_vol \div 2000 >= vst[k]
                                  /\ \A j \in 1..k-1 : n_vol \div 2000 < vst[j]
    IN cst[i] \div SS

\* The layout of a volume of n_vol sectors.
Layout(n_vol) ==
    LET au == AllocUnit(n_vol)
        clst == n_vol \div au
        fmt == FatType(clst)
        fatbytes == CASE fmt = 32 -> clst * 4 + 8
                      [] fmt = 16 -> clst * 2 + 4
                      [] OTHER -> (clst * 3 + 1) \div 2 + 3
        n_fat == (fatbytes + SS - 1) \div SS
        n_rsv == IF fmt = 32 THEN 32 ELSE 1
        n_dir == IF fmt = 32 THEN 0 ELSE (N_ROOTDIR * SZDIRE) \div SS
        b_data == VolBase + n_rsv + n_fat + n_dir
        pad == (BlockSize - (b_data % BlockSize)) % BlockSize
        rsv == IF fmt = 32 THEN n_rsv + pad ELSE n_rsv
        fat == IF fmt = 32 THEN n_fat ELSE n_fat + pad
    IN [fmt |-> fmt, au |-> au, rsv |-> rsv, fat |-> fat, dir |-> n_dir,
        small |-> n_vol < b_data + au - VolBase,
        clst |-> Wrap(n_vol - rsv - fat - n_dir) \div au]

\* The two fields of the boot sector for the number of sectors.
TotSec(n_vol) == [t16 |-> IF n_vol < 65536 THEN n_vol ELSE 0,
                  t32 |-> IF n_vol < 65536 THEN 0 ELSE n_vol % 65536]

NoBoot == [ok |-> FALSE]
Boot(n_vol, l) ==
    [ok |-> TRUE, csize |-> l.au, nrsv |-> l.rsv, nroot |-> IF l.fmt = 32 THEN 0 ELSE N_ROOTDIR,
     tot |-> TotSec(n_vol), fatsz |-> l.fat]

\* f_mkfs (): a boot sector, or an error that leaves the disk as it was.
f_mkfs ==
    /\ step = "blank"
    /\ LET n_vol == size - VolBase
           l == Layout(n_vol)
           fails == \/ size < 128
                    \/ l.small
                    \/ l.fmt = 16 /\ l.clst < MIN_FAT16
                    \/ l.fmt = 32 /\ l.clst < MIN_FAT32
       IN IF fails THEN boot' = NoBoot /\ made' = made
          ELSE boot' = Boot(n_vol, l) /\ made' = l
    /\ step' = "formatted"
    /\ UNCHANGED <<size, found>>

\* find_volume () reads the boot sector back.
NoVolume == [type |-> 0, csize |-> 0, nclst |-> 0]
Volume(b) ==
    LET tsect == IF b.tot.t16 # 0 THEN b.tot.t16 ELSE b.tot.t32
        sysect == b.nrsv + b.fatsz + b.nroot \div (SS \div SZDIRE)
        nclst == (tsect - sysect) \div b.csize
        fmt == FatType(nclst)
        n == nclst + 2
        szbfat == CASE fmt = 32 -> n * 4
                    [] fmt = 16 -> n * 2
                    [] OTHER -> (n * 3) \div 2 + (n % 2)
        bad == \/ b.csize = 0
               \/ b.nrsv = 0
               \/ tsect < sysect
               \/ nclst = 0
               \/ fmt = 32 /\ b.nroot # 0
               \/ fmt # 32 /\ b.nroot = 0
               \/ b.fatsz < (szbfat + SS - 1) \div SS
    IN IF bad THEN NoVolume ELSE [type |-> fmt, csize |-> b.csize, nclst |-> nclst]

find_volume ==
    /\ step = "formatted"
    /\ found' = IF boot.ok THEN Volume(boot) ELSE NoVolume
    /\ step' = "mounted"
    /\ UNCHANGED <<size, boot, made>>

MkfsInit == /\ size \in Sizes
            /\ step = "blank"
            /\ boot = NoBoot
            /\ made = [fmt |-> 0]
            /\ found = NoVolume

MkfsNext == f_mkfs \/ find_volume

MkfsSpec == MkfsInit /\ [][MkfsNext]_mkfsVars

---------------------------------------------------------------------------
\* Which of the volumes f_mkfs () reports to have made the f_mount () that follows
\* mounts with the sub-type, the cluster size and the clusters laid out: the two
\* compute them apart, one from the disk and one from the fields of the boot
\* sector ("Number of total sectors").  They are those with a cluster behind the
\* system area, which f_mkfs () does not check again once it has moved the data to
\* an erase block, and fewer than 65536 sectors, since BPB_TotSec32 is given a
\* WORD.  No other is found as it was made.
AsMade == /\ found.type = made.fmt
          /\ found.csize = made.au
          /\ found.nclst = made.clst
MkfsMounts ==
    step = "mounted" /\ boot.ok =>
      (AsMade <=> /\ VolBase + made.rsv + made.fat + made.dir + made.au =< size
                  /\ size - VolBase < 65536)

-----------------------------------------------------------------------------
(***************************************************************************)
(* The FAT as bytes: get_fat () and put_fat () of ff.c on the sector       *)
(* window, for the three widths of an entry.  A FAT12 entry is one and a   *)
(* half bytes and may lie across two sectors.  Fat.tla takes an entry for  *)
(* one cell; this module shows that the bytes behave so.                   *)
(***************************************************************************)
CONSTANTS BYTES,     \* bytes in a sector (SS)
          NFATENT,   \* n_fatent
          Values     \* what put_fat is asked to store

VARIABLES fstype,    \* fs->fs_type: 12, 16 or 32
          bytes,     \* the FAT on the disk: sector -> offset -> byte
          win,       \* fs->win
          winsect,   \* fs->winsect, from fatbase
          table      \* ghost: what each entry should hold

bitsVars == <<fstype, bytes, win, winsect, table>>

Widths == {12, 16, 32}
FatBytes(t) == (NFATENT * t + 7) \div 8
Sectors(t) == 0 .. (FatBytes(t) - 1) \div BYTES

\* move_window () with the window already written to: sync_window () first.
move_window(s, sect) ==
    IF sect = s.winsect THEN s
    ELSE LET b == [s.bytes EXCEPT ![s.winsect] = s.win]
         IN [bytes |-> b, win |-> b[sect], winsect |-> sect]

Mem == [bytes |-> bytes, win |-> win, winsect |-> winsect]

\* ld_word (), ld_dword () and their inverse, little end first; the top four
\* bits of a FAT32 entry are masked off before they would need 32 bits.
ld_word(w, i) == w[i] + 256 * w[i + 1]
ld_28(w, i) == w[i] + 256 * w[i + 1] + 65536 * w[i + 2] + 16777216 * (w[i + 3] % 16)

get_fat12(s, clst) ==
    LET bc == clst + clst \div 2
        s1 == move_window(s, bc \div BYTES)
        s2 == move_window(s1, (bc + 1) \div BYTES)
        wc == s1.win[bc % BYTES] + 256 * s2.win[(bc + 1) % BYTES]
    IN [s |-> s2, val |-> IF clst % 2 = 1 THEN wc \div 16 ELSE wc % 4096]

get_fat(s, clst) ==
    CASE fstype = 12 -> get_fat12(s, clst)
      [] fstype = 16 -> LET t == move_window(s, clst \div (BYTES \div 2))
                        IN [s |-> t, val |-> ld_word(t.win, (clst * 2) % BYTES)]
      [] fstype = 32 -> LET t == move_window(s, clst \div (BYTES \div 4))
                        IN [s |-> t, val |-> ld_28(t.win, (clst * 4) % BYTES)]

Low(old, v) == 16 * (old \div 16) + (v % 16)           \* (old & 0xF0) | (v & 0x0F)
High(old, v) == (old % 16) + 16 * (v % 16)             \* (old & 0x0F) | (v << 4)

put_fat12(s, clst, val) ==
    LET bc == clst + clst \div 2
        s1 == move_window(s, bc \div BYTES)
        o1 == bc % BYTES
        w1 == [s1 EXCEPT !.win[o1] = IF clst % 2 = 1 THEN High(@, val) ELSE val % 256]
        s2 == move_window(w1, (bc + 1) \div BYTES)
        o2 == (bc + 1) % BYTES
    IN [s2 EXCEPT !.win[o2] = IF clst % 2 = 1 THEN (val \div 16) % 256
                              ELSE Low(@, val \div 256)]

put_fat(s, clst, val) ==
    CASE fstype = 12 -> put_fat12(s, clst, val)
      [] fstype = 16 ->
           LET t == move_window(s, clst \div (BYTES \div 2))
               o == (clst * 2) % BYTES
           IN [t EXCEPT !.win[o] = val % 256, !.win[o + 1] = (val \div 256) % 256]
      [] fstype = 32 ->
           LET t == move_window(s, clst \div (BYTES \div 4))
               o == (clst * 4) % BYTES
           IN [t EXCEPT !.win[o] = val % 256, !.win[o + 1] = (val \div 256) % 256,
                        !.win[o + 2] = (val \div 65536) % 256,
                        !.win[o + 3] = Low(@, val \div 16777216)]

Masked(val) == CASE fstype = 12 -> val % 4096
                 [] fstype = 16 -> val % 65536
                 [] fstype = 32 -> val
Stored(s) == bytes' = s.bytes /\ win' = s.win /\ winsect' = s.winsect

\* 0xFF bytes: the reserved top bits of FAT32 entries are set in old volumes.
BitsInit ==
    /\ fstype \in Widths
    /\ bytes = [k \in Sectors(fstype) |-> [i \in 0..BYTES-1 |-> 255]]
    /\ winsect = 0
    /\ win = bytes[0]
    /\ table = [c \in 2..NFATENT-1 |-> Masked(268435455)]

Put(c, v) ==
    /\ Stored(put_fat(Mem, c, v))
    /\ table' = [table EXCEPT ![c] = Masked(v)]
    /\ UNCHANGED fstype

Get(c) ==
    /\ Stored(get_fat(Mem, c).s)
    /\ UNCHANGED <<fstype, table>>

BitsNext == \E c \in 2..NFATENT-1 : Get(c) \/ \E v \in Values : Put(c, v)

BitsSpec == BitsInit /\ [][BitsNext]_bitsVars

---------------------------------------------------------------------------
\* get_fat () returns for every entry the value last put there, cut to the width
\* of an entry (an end of chain is put as 0x0FFFFFFF), whichever entries were put
\* in between: no put_fat () disturbs a neighbour, the one that shares a byte or
\* lies across the sector boundary with it included.
EntriesKept == \A c \in 2..NFATENT-1 : get_fat(Mem, c).val = table[c]

\* The reserved top bits of a FAT32 entry are never changed by put_fat ().
ReservedKept ==
    fstype = 32 => \A c \in 2..NFATENT-1 :
                     LET t == move_window(Mem, c \div (BYTES \div 4))
                     IN t.win[((c * 4) % BYTES) + 3] \div 16 = 15

-----------------------------------------------------------------------------
(***************************************************************************)
(* Names: create_name () turns a segment of a path into the padded form of *)
(* a directory entry, get_fileinfo () turns that back into the name        *)
(* f_readdir () shows.  Characters are their codes, in code page 932 (a    *)
(* double-byte one) as ffconf.h has it.                                    *)
(***************************************************************************)
CONSTANTS BODY,     \* characters of the body of a name (8)
          EXT,      \* characters of the extension (3)
          Chars,    \* characters of the paths
          PATHLEN   \* bound: characters of a path

VARIABLES path,     \* what the caller passed
          sfn,      \* the entry made of its first segment, or Invalid
          shown,    \* the name f_readdir () shows for it
          again     \* the entry made of that name

nameVars == <<path, sfn, shown, again>>

Unset == <<-1>>
Invalid == <<-2>>
SPACE == 32
SLASH == 47
BACKSLASH == 92
PERIOD == 46
DDEM == 229
RDDEM == 5
Illegal == {34, 42, 43, 44, 58, 59, 60, 61, 62, 63, 91, 93, 124, 127}
IsSep(c) == c \in {SLASH, BACKSLASH}
IsLower(c) == c \in 97..122
IsDBCS1(c) == c \in 129..159 \/ c \in 224..252
IsDBCS2(c) == c \in 64..126 \/ c \in 128..252

At(p, k) == IF k =< Len(p) THEN p[k] ELSE 0
Blank == [k \in 1..BODY+EXT |-> SPACE]

\* The loop of create_name (): at character k of p, i characters stored, ni
\* the end of the part being filled.
RECURSIVE Fill(_, _, _, _, _)
Fill(p, k, i, ni, s) ==
    LET c == At(p, k)
        d == At(p, k + 1)
    IN CASE c =< SPACE \/ IsSep(c) -> IF i = 0 THEN Invalid ELSE s
         [] c > SPACE /\ ~IsSep(c) /\ (c = PERIOD \/ i >= ni) ->
              IF ni # BODY \/ c # PERIOD THEN Invalid
              ELSE Fill(p, k + 1, BODY, BODY + EXT, s)
         [] IsDBCS1(c) /\ i < ni ->
              IF ~IsDBCS2(d) \/ i >= ni - 1 THEN Invalid
              ELSE Fill(p, k + 2, i + 2, ni, [s EXCEPT ![i + 1] = c, ![i + 2] = d])
         [] OTHER ->
              IF c \in Illegal THEN Invalid
              ELSE Fill(p, k + 1, i + 1, ni,
                        [s EXCEPT ![i + 1] = IF IsLower(c) THEN c - 32 ELSE c])

create_name(p) ==
    LET s == Fill(p, 1, 0, BODY, Blank)
    IN IF s # Invalid /\ s[1] = DDEM THEN [s EXCEPT ![1] = RDDEM] ELSE s

\* get_fileinfo (): the padding is skipped, a period put before the extension.
RECURSIVE Show(_, _, _)
Show(s, k, name) ==
    IF k > BODY + EXT THEN name
    ELSE IF s[k] = SPACE THEN Show(s, k + 1, name)
    ELSE Show(s, k + 1, name \o (IF k = BODY + 1 THEN <<PERIOD>> ELSE <<>>)
                             \o <<IF s[k] = RDDEM THEN DDEM ELSE s[k]>>)
get_fileinfo(s) == Show(s, 1, <<>>)

\* follow_path () strips the leading separators; its first segment is meant.
Stripped(p) ==
    LET n == CHOOSE n \in 0..Len(p) : /\ \A k \in 1..n : IsSep(p[k])
                                      /\ ~IsSep(At(p, n + 1))
    IN SubSeq(p, n + 1, Len(p))

NameInit == /\ path \in UNION {[1..n -> Chars] : n \in 1..PATHLEN}
            /\ sfn = Unset /\ shown = Unset /\ again = Unset

\* dir_register () writes the entry, unless the segment is no name.
Register == /\ sfn = Unset
            /\ sfn' = create_name(Stripped(path))
            /\ UNCHANGED <<path, shown, again>>

\* dir_read () passes an entry that begins as a deleted one or with a period.
ReadEntry == /\ sfn \notin {Unset, Invalid} /\ shown = Unset
             /\ shown' = IF sfn[1] \in {DDEM, PERIOD} THEN Invalid ELSE get_fileinfo(sfn)
             /\ UNCHANGED <<path, sfn, again>>

\* The shown name is used in another call.
UseShown == /\ shown \notin {Unset, Invalid} /\ again = Unset
            /\ again' = create_name(shown)
            /\ UNCHANGED <<path, sfn, shown>>

NameNext == Register \/ ReadEntry \/ UseShown

NameSpec == NameInit /\ [][NameNext]_nameVars

---------------------------------------------------------------------------
\* A name that can be created is shown by f_readdir () (it is not taken for a
\* deleted entry, nor for the end of the listing) and the shown name leads back
\* to the same entry.  The one exception is the segment ".": create_name ()
\* stores nothing for it, yet its test for an empty name compares i with 0 when
\* the period has already moved i to the extension; the entry has an empty name.
ShownLeadsBack ==
    /\ shown # Invalid
    /\ shown = <<>> => sfn = Blank /\ Stripped(path)[1] = PERIOD
    /\ again # Unset /\ shown # <<>> => again = sfn
=============================================================================
