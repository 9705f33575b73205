------------------------------ MODULE MCFileCalls ------------------------------
(***************************************************************************)
(* Instances of FileCalls for model checking.                              *)
(***************************************************************************)
EXTENDS FileCalls, TLC

SomePaths == {<<"a">>, <<"b">>, <<"a", "b">>, <<"..">>}

\* Devices are made at one path, directories opened for writing at one, and the
\* new names of link() are b and a/b.
SomeCalls ==
  {c \in PathCall : /\ c.op = "mknod" => c.path = <<"b">>
                    /\ c.op = "openWrite" => c.path = <<"a">>
                    /\ c.op = "link" => c.to \in {<<"b">>, <<"a", "b">>}}

Symmetry == Permutations(Proc)

===============================================================================
