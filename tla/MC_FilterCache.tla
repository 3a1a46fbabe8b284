--------------------------- MODULE MC_FilterCache ---------------------------
(***************************************************************************)
(* The process maps the configurations start from, with pages of two       *)
(* lines.  Library L has its text (r-xp) on page 0 (line 1) and its data   *)
(* (rw-p) on page 1 (line 2); line 3 is not mapped.  An mmap may load      *)
(* library M (a dlopen) or an anonymous region there.  The libraries'      *)
(* lines are page-aligned, as a page-granular addSharedLib gives them.     *)
(***************************************************************************)
EXTENDS FilterCache

MC_Row(n, p, isLib) == [name |-> n, perm |-> p, sl |-> isLib, mmap |-> ~isLib]

MC_InitMap ==
    [v \in VAddrs |-> CASE v = 1 -> MC_Row("L", "r-xp", TRUE)
                        [] v = 2 -> MC_Row("L", "rw-p", TRUE)
                        [] OTHER -> NoRow]

MC_MmapRows == {MC_Row("M", "r-xp", TRUE), MC_Row(Anon, "rw-p", FALSE)}

MC_LibAddr == [n \in {"L", "M"} |-> IF n = "L" THEN 8 ELSE 12]
====
