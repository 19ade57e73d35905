------------------------------- MODULE Sandbox -----------------------------
(***************************************************************************)
(* sandbox.Sandbox (src/sandbox/sandbox.go): a TestEnv with a jail, whose  *)
(* options and methods are the environment's calls, but for two that do    *)
(* more.  The working directory is resolved before the environment         *)
(* resolves it again, and a fixture is copied under the jail without the   *)
(* environment's file calls.                                               *)
(***************************************************************************)
EXTENDS AppContext

CONSTANT Fixtures   \* the fixtures: their files and directories, in order

ASSUME FixtureAssumption ==
  Fixtures \subseteq Seq([at : Seq(STRING), node : {DirNode} \cup Data])

Sb == "orig"
IsSandbox == Sb \in live /\ env[Sb].jail # Empty

(* (bug: what is set is the host's name of the directory)                  *)
SandboxSetwd_Jailed(dir) == Setwd(Sb, Or(Host(Sb, dir), Empty))

(* WithWd and Setwd drop the error of a path that does not resolve.        *)
SandboxSetwd(dir) == Setwd(Sb, Or(ResolvePath(Sb, dir), Empty))

(* copyEmbedDir: it stops at what fails, and what is copied stays.         *)
Made(f, t) ==
  [ok |-> MkdirAllOk(f, t), tree |-> IF MkdirAllOk(f, t) THEN MkdirAll(f, t) ELSE f]
Written(f, t, d) ==
  [ok |-> PutOk(f, t), tree |-> IF PutOk(f, t) THEN Put(f, t, d) ELSE f]
Copy(c, d, x) ==
  IF ~c.ok THEN c
  ELSE IF x.node = DirNode THEN Made(c.tree, d \o x.at)
  ELSE Written(c.tree, d \o x.at, x.node)
Copied(f, d, fixture) ==
  LET upto[i \in 0..Len(fixture)] ==
        IF i = 0 THEN Made(f, d) ELSE Copy(upto[i - 1], d, fixture[i])
  IN  upto[Len(fixture)]

(* (bug: the path is not resolved)                                         *)
FixtureDir_AsGiven(path) == Join(env[Sb].jail, path)

(* The directory is not checked against the jail, and the error of a path  *)
(* that does not resolve is dropped.                                       *)
FixtureDir(path) == Join(env[Sb].jail, Or(ResolvePath(Sb, path), Empty))
FixtureCopied(fixture, path) == Copied(fs, Os(FixtureDir(path)), fixture)
WithFixture(fixture, path) == OnDisk(FixtureCopied(fixture, path).tree)

SandboxCall ==
  \/ \E p \in Args : SandboxSetwd(p)
  \/ \E p \in Args, fixture \in Fixtures : WithFixture(fixture, p)

SandboxNext ==
  Count /\ ((\E e \in live : Call(e)) \/ (IsSandbox /\ SandboxCall))
SandboxSpec == Init /\ [][SandboxNext]_vars

-----------------------------------------------------------------------------
(* Properties                                                              *)

(* With an absolute working directory, a fixture lands inside the jail and *)
(* its files are read under the path that WithFixture was given, although  *)
(* it is not the environment that copies them.                             *)
FixtureLands ==
  [][UNCHANGED <<live, env, data>> /\ fs' # fs /\ IsSandbox =>
     \A p \in Args, fixture \in Fixtures :
       WdAbsolute(Sb) /\ WithFixture(fixture, p) =>
         /\ Confined(Sb)
         /\ FixtureCopied(fixture, p).ok =>
              \A i \in DOMAIN fixture :
                fixture[i].node # DirNode =>
                  ReadFile(fs', Sb, Join(p, Relv(fixture[i].at))) = fixture[i].node]_vars

(* Resolving twice is resolving once: the working directory that is set is *)
(* what ResolvePath answered for it.                                       *)
SandboxSetwdLands ==
  [][UNCHANGED <<live, fs>> /\ IsSandbox =>
     \A p \in Args :
       WdAbsolute(Sb) /\ SandboxSetwd(p) => Getwd(Sb)' = ResolvePath(Sb, p)]_vars
=============================================================================
