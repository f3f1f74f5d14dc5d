---------------------------- MODULE MCFileSystem ----------------------------
(***************************************************************************)
(* The booted system for FileSystem: an initramfs with a directory "a",    *)
(* the nested file "a/b" and a top-level file "b"; the mounts kernel_main  *)
(* registers ("/mnt" ext2 first, then "/" MemFS and "/dev/console"),       *)
(* written "/m", "/" and "/c".  The ext2 file reaches through the single-  *)
(* indirect block into the double-indirect one, as in Ext2.                *)
(***************************************************************************)
EXTENDS FileSystem

MCArchive ==
    << [name |-> <<"a">>, type |-> "DIR", size |-> 0],
       [name |-> <<"a", "/", "b">>, type |-> "REG", size |-> 1],
       [name |-> <<"b">>, type |-> "REG", size |-> 1] >>

MCMounts ==
    << [path |-> <<"/", "m">>, fs |-> "ext2"],
       [path |-> <<"/">>, fs |-> "memfs"],
       [path |-> <<"/", "c">>, fs |-> "console"] >>

MCOpenPaths ==
    { <<"/">>, <<"/", "m">>, <<"/", "a">>, <<"/", "b">>, <<"/", "a", "/", "b">>, <<"/", "m", "/", "f">> }

(* With the console, whose opens take an fd and no new descriptor. *)
MCOpenPathsConsole == MCOpenPaths \cup { <<"/", "c">> }

MCDirPaths ==
    { <<"/", "a", "/", "d">>, <<"/", "b">>, <<"/", "a">> }

(* chdir to the root, into a directory mkdir may create and rmdir remove, *)
(* onto the console device, a MemFS file and the ext2 file.              *)
MCChdirPaths ==
    { <<"/">>, <<"/", "a", "/", "d">>, <<"/", "c">>, <<"/", "b">>, <<"/", "m", "/", "f">> }

====
