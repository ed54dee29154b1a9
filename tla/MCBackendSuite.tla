---------------------------- MODULE MCBackendSuite ----------------------------
(* The keys of the tests and their prefixed forms; random inputs over two     *)
(* keys, with one action to overwrite and one to delete what another puts.    *)
EXTENDS BackendSuite

MCRandomKeys == {<<0>>, <<1>>}
MCRandomActions == {<<<<0>>, 1>>, <<<<0>>, 2>>, <<<<0>>, None>>, <<<<1>>, 1>>}
MCRandomCells == {<<0, <<0>>>>, <<1, <<0>>>>, <<1, <<1>>>>}
MCMapIds == {0, 1}
MCVals == 0 .. 11
MCKeys ==
  {<<n>> : n \in 0 .. 3} \cup {<<pfx, n>> : pfx \in {97, 98}, n \in {0, 1}}
  \cup {<<97>>, <<98>>, <<102>>, <<104>>, <<120>>,
        <<97, 97>>, <<97, 98>>, <<97, 99>>, <<97, 99, 97>>, <<97, 99, 98>>,
        <<98, 98>>, <<98, 102>>, <<98, 122>>}
=============================================================================
