--------------------------------- MODULE MCFat --------------------------------
(***************************************************************************)
(* Fat on two small volumes: FAT16 with two sectors to a cluster, and      *)
(* FAT32 with one, two copies of the FAT and FSInfo.                       *)
(***************************************************************************)
EXTENDS Fat

a == <<11>>
b == <<12>>
d == <<13>>
da == <<13, 11>>
ba == <<12, 11>>
daa == <<13, 11, 11>>
baa == <<12, 11, 11>>
MCPaths == {a, b, d, da, ba, daa, baa}
MCGeometries == {[type |-> 16, csize |-> 2, nfats |-> 1, nroot |-> 2, ncl |-> 3],
                 [type |-> 32, csize |-> 1, nfats |-> 2, nroot |-> 0, ncl |-> 4]}
MCPreludes == {<<>>, <<[path |-> a, n |-> 5]>>,
               <<[path |-> a, n |-> 3], [path |-> d, n |-> 0]>>,
               <<[path |-> d, n |-> 0], [path |-> da, n |-> 1], [path |-> a, n |-> 2]>>}
\* Handle 1 works on /a, handle 2 on /d/a.
MCCalls ==
    [op : {"open"}, h : {1}, path : {a}, mode : {{"R", "W"}, {"W", "CA"}}]
    \cup [op : {"open"}, h : {2}, path : {da}, mode : {{"R", "W", "CN"}, {"R"}}]
    \cup {[op |-> "write", h |-> h, n |-> n, x |-> n] : h \in {1, 2}, n \in {1, 3}}
    \cup [op : {"read"}, h : {1, 2}, n : {3}]
    \cup [op : {"seek"}, h : {1}, n : {0, 5}]
    \cup [op : {"truncate", "sync"}, h : {1}]
    \cup [op : {"close"}, h : {1, 2}]
    \cup [op : {"unlink"}, path : {a, d}]
    \cup [op : {"mkdir"}, path : {d}]
    \cup [op : {"rename"}, path : {a, b}, to : {da}]
    \cup [op : {"rename"}, path : {a, d}, to : {b}]
    \cup [op : {"touch"}, path : {b}]
    \cup [op : {"opendir"}, path : {d}]
    \cup [op : {"stat"}, path : {da}]
    \cup [op : {"readdir", "closedir", "getfree"}]
=============================================================================
