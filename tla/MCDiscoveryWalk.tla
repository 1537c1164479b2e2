-------------------------- MODULE MCDiscoveryWalk --------------------------
(* Small file systems for DiscoveryWalk: the root holds a directory b      *)
(* between two symlinks, and a file; b holds a file and a symlink; the     *)
(* directory above the root holds the root, a file, and beside the root a  *)
(* directory with a file and a symlink.  Links lead anywhere.              *)
EXTENDS DiscoveryWalk

D(n, t) == [name |-> n, kind |-> "dir", to |-> t]
F(n, t) == [name |-> n, kind |-> "file", to |-> t]
L(n, t) == [name |-> n, kind |-> "link", to |-> t]
Other(n) == [name |-> n, kind |-> "other", to |-> Nowhere]

MCDirs == {"up", "root", "sub", "out"}
MCFiles == {"up file", "root file", "sub file", "out file"}

FileSystem(a, c, l) ==
  [up |-> <<D("o", "out"), D("r", "root"), F("s", "up file")>>,
   root |-> <<L("a", a), D("b", "sub"), L("c", c), F("f", "root file")>>,
   sub |-> <<F("f", "sub file"), L("l", l)>>,
   out |-> <<F("f", "out file"), L("l", "root"), Other("s")>>]

MCSetups ==
  {[entries |-> FileSystem(a, c, l), exclude |-> x, follow |-> f,
    oneFileSystem |-> e # {}, elsewhere |-> e] :
     a \in {"sub", "out", "up"}, c \in {"sub", "up", "out file", "nowhere"},
     l \in {"root", "sub", "up"},
     x \in {{}, {<<"a">>}, {<<"b">>}, {<<"a", "f">>}},
     f \in BOOLEAN,
     e \in {{}, {"sub", "sub file"}, {"out", "out file"}, {"up", "up file"}}}
=============================================================================
