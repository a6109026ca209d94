----------------------------- MODULE MCMscRead -----------------------------
(* Two cards of 60 sectors. One has an image of every format, in fragments  *)
(* that cut blocks, tables and chunks, and some that are refused; the other *)
(* has images of the same names elsewhere, with other tables.               *)
EXTENDS MscRead, TLC

File(suffix, clusters, size, holds) ==
  [kind |-> IF suffix = "iso" THEN "iso" ELSE "disk", suffix |-> suffix, clusters |-> clusters, size |-> size, holds |-> holds]
NoTable    == [i \in {} |-> Data]
Table(e)   == [t |-> "table", ent |-> e]
Footer(type, at, size) == [t |-> "footer", type |-> type, header |-> at, size |-> size]

(* A dynamic VHD: a header, the table in two sectors, blocks of a bitmap    *)
(* and two sectors, a footer.                                               *)
None == 99
Vhd(clusters, e, type) ==
  File("vhd", clusters, 22,
       1 :> [t |-> "dynhead", table |-> 2, entries |-> 3, unit |-> 2] @@ 2 :> Table(<<e[1], e[2]>>)
       @@ 3 :> Table(<<e[3], None>>) @@ 10 :> Footer(type, 1, 5))

(* A sparse VMDK: a header, the grain directory, a grain table in two       *)
(* sectors, grains of two sectors.                                          *)
Sparse(clusters, usable) ==
  File("vmdk", clusters, 12,
       0 :> [t |-> "sparse", usable |-> usable, table |-> 1, entries |-> 3, unit |-> 2, size |-> 8]
       @@ 1 :> Table(<<2, 0>>) @@ 2 :> Table(<<1, 4>>) @@ 3 :> Table(<<0, 0>>))
Flat(clusters, data) == File("vmdk", clusters, 1, 0 :> [t |-> "descriptor", file |-> data, offset |-> 1, size |-> 4])

MCCards ==
  { "raw"  :> File("img", <<2, 3, 6>>, 9, NoTable)
    @@ "cd"   :> File("iso", <<4, 5, 7, 8, 10>>, 18, NoTable)
    @@ "vhd"  :> Vhd(<<11, 12, 14, 16, 17, 18>>, <<4, None, 7>>, "dynamic")
    @@ "vmdk" :> Sparse(<<13, 15, 20>>, TRUE)
    @@ "flat" :> Flat(<<19>>, "data")
    @@ "data" :> File("vmdk", <<21, 23>>, 7, NoTable)
    @@ "size" :> File("vhd", <<24, 22>>, 8, 3 :> Footer("fixed", 0, 6))
    @@ "many" :> File("img", <<9, 25, 27, 29>>, 16, NoTable),
    "raw"  :> File("img", <<4, 2>>, 8, NoTable)
    @@ "vhd"  :> Vhd(<<16, 17, 18, 11, 12, 14>>, <<7, 4, None>>, "dynamic")
    @@ "diff" :> Vhd(<<20, 21, 22, 23, 24, 25>>, <<7, 4, None>>, "differencing")
    @@ "cut"  :> File("img", <<5, 7>>, 9, NoTable) }

MCLens == {<<1, 4>>, <<5, 5>>, <<2, 1>>}
MCStarts == {0, 1, 3}
MCBuf  == 0..2
=============================================================================
