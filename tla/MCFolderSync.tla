---------------------------- MODULE MCFolderSync ----------------------------
(* FolderSync for TLC: a file, the file that has its part name, a file in  *)
(* a directory of the first one's name, and a file apart.                  *)
EXTENDS FolderSync, TLC
MCPath == {"a", "a.part", "a/f", "b"}
MCPart == "a" :> "a.part" @@ "a.part" :> "a.part.part" @@ "a/f" :> "a/f.part"
          @@ "b" :> "b.part"
MCAbove == "a/f" :> {"a"} @@ [p \in MCPath |-> {}]
MCRank == "a" :> 1 @@ "a.part" :> 2 @@ "a/f" :> 3 @@ "b" :> 4
MCSources == {{}, {"a", "a.part"}, {"a/f", "b"}}
\* Nothing, a file, files only, a directory.
Holding(old) == old @@ [n \in Name |-> Absent]
Other == Copy(Versions)
MCOldFolders == {Holding(<<>>), Holding("b" :> Other),
                 Holding("a" :> Other @@ "a.part" :> Other @@ "b" :> Other),
                 Holding("a" :> Folder @@ "a/f" :> Other @@ "b" :> Other)}
=============================================================================
