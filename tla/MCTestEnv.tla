----------------------------- MODULE MCTestEnv -----------------------------
(* The arguments of the instances of TestEnv and Sandbox.                  *)
EXTENDS Sandbox
CJails == {Abs(<<"jail">>), Empty}
CHomes == {Empty, Relv(<<"home">>)}
CUsers == {Empty, RootUser}
CArgs == {Empty, Relv(<<"a">>), Relv(<<"..", "..", ".git">>),
          Relv(<<"..", "..", "jail2">>), Relv(<<"~", ".git">>),
          Abs(<<"jail", "..data">>)}
CCwd == Abs(<<"cwd">>)
COsVars == {<<>>, [HOME |-> Abs(<<"cwd", "a">>), PWD |-> CCwd]}
CFixtures == {<<[at |-> <<"a">>, node |-> DirNode],
                [at |-> <<"a", "b">>, node |-> CHOOSE d \in Data : TRUE]>>}
=============================================================================
