------------------------------ MODULE MCNames ------------------------------
(* Names, open files and obmafsck on small volumes.                          *)
EXTENDS Names
CONSTANTS h1, h2, n1, n2

(* Directories, links, moves, a failure and its repair, without open files; *)
(* two open files, some of them Nintendo or CD images; an open CD image, a  *)
(* failure and its repair.                                                  *)
MCWorkloads ==
  {[handles |-> {}, kinds |-> {}, last |-> 5, failures |-> 1],
   [handles |-> {h1, h2}, kinds |-> {"nintendo"}, last |-> 4, failures |-> 0],
   [handles |-> {h1, h2}, kinds |-> {"cd"}, last |-> 4, failures |-> 0],
   [handles |-> {h1}, kinds |-> {"cd"}, last |-> 4, failures |-> 1]}

(* A crash on a volume with an orphan and a stale next_inode_id.            *)
MCRepairs == {[handles |-> {}, kinds |-> {}, last |-> 5, failures |-> 1]}

MCSymmetry == Permutations({n1, n2}) \cup Permutations({h1, h2})
=============================================================================
