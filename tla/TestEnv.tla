------------------------------ MODULE TestEnv ------------------------------
(***************************************************************************)
(* The environments of toolkit, with the functions that go through them    *)
(* (src/toolkit/filesystem.go, user.go, env.go).                           *)
(*                                                                         *)
(* TestEnv (src/toolkit/env_testenv.go) is what a test carries in its      *)
(* context: variables, home, user, working directory, and a file system    *)
(* confined to a directory of the host, the jail.  Paths a caller gives    *)
(* are paths of the jailed world; the host's path is the jail joined to    *)
(* what the environment resolves.  A TestEnv holds a pointer to its map of *)
(* variables, and Clone makes a second TestEnv, so the maps are variables  *)
(* of their own.                                                           *)
(*                                                                         *)
(* OsEnv (src/toolkit/env_os.go), here "os", is the process: its           *)
(* environment, its directory and the host's files under the names it is   *)
(* given.  A behaviour has either one of them.                             *)
(*                                                                         *)
(* Symlink and the resolution of links are not modelled: the host has no   *)
(* links.                                                                  *)
(***************************************************************************)
EXTENDS HostFs

CONSTANTS
  Jails,     \* the jails NewTestEnv is given
  Homes,     \* the home arguments of NewTestEnv
  Users,     \* the user names
  Args,      \* the paths callers use
  Data,      \* the contents of files
  Cwd,       \* the working directory the process starts in
  OsVars,    \* the environments it starts with
  Others,    \* the keys, beside HOME, USER and PWD, that callers set and unset
  MaxCalls   \* bound: calls in a behaviour

Envs == {"orig", "clone", "os"}
Xdg  == {"XDG_CONFIG_HOME", "XDG_CACHE_HOME", "XDG_DATA_HOME", "XDG_STATE_HOME"}
Keys == {"HOME", "USER", "PWD", "TMPDIR", "APPDATA", "LOCALAPPDATA"} \cup Xdg
RootUser == Relv(<<"root">>)

(* A jail is t.TempDir() or none (NewSandbox and the tests): no relative one. *)
ASSUME EnvAssumption ==
  /\ DirNode \notin Data /\ NoPath \notin Data \cup {DirNode}
  /\ {Cwd} \cup Jails \cup Homes \cup Users \cup Args \subseteq Path
  /\ \A jl \in Jails : jl.abs \/ jl = Empty
  /\ Cwd.abs /\ Cwd = Clean(Cwd)
  /\ \A v \in OsVars : DOMAIN v \subseteq Keys /\ \A k \in DOMAIN v : v[k] \in Path
  /\ {"root", "testuser", ".root", "home", "tmp", ".config", ".cache", ".local",
      "share", "state", ".git", ".app"} \subseteq STRING \ DotDotNames
  /\ Others \subseteq Keys \ {"HOME", "USER", "PWD"}
  /\ MaxCalls \in Nat

VARIABLES
  live,    \* the environments made so far
  env,     \* the fields of each: jail, home, user and which map it points to
  data,    \* the maps
  cwd,     \* the working directory of the process
  fs,      \* the host's files
  calls    \* calls made
vars == <<live, env, data, cwd, fs, calls>>

Map(e) == IF env[e].map = "nil" THEN <<>> ELSE data[env[e].map]
Var(e, k) == IF k \in DOMAIN Map(e) THEN Map(e)[k] ELSE Empty

(* A map as another one replaces or extends it.                            *)
Over(f, g) ==
  [k \in DOMAIN f \cup DOMAIN g |-> IF k \in DOMAIN f THEN f[k] ELSE g[k]]

-----------------------------------------------------------------------------
(* Resolving names                                                         *)

OrNone(v) == IF v = Empty THEN NoPath ELSE v
GetHome(e) ==
  IF e = "os" THEN OrNone(Var(e, "HOME"))
  ELSE IF env[e].home = Empty THEN NoPath
  ELSE RemoveJailPrefix(env[e].jail, env[e].home)
Getwd(e) == IF e = "os" THEN cwd ELSE OrNone(Var(e, "PWD"))

Tilde(p) == ~p.abs /\ p.segs # <<>> /\ p.segs[1] = "~"
AtHome(h, p) == IF p = Relv(<<"~">>) THEN Clean(h) ELSE Join(h, Relv(Tail(p.segs)))
Or(x, y) == IF x = NoPath THEN y ELSE x

(* The environments' ExpandPath goes on with "" when there is no home, the *)
(* toolkit's ExpandPath fails.                                             *)
EnvExpand(e, p) == IF Tilde(p) THEN AtHome(Or(GetHome(e), Empty), p) ELSE p
ExpandPath(e, p) ==
  IF ~Tilde(p) THEN p
  ELSE IF GetHome(e) = NoPath THEN NoPath
  ELSE AtHome(GetHome(e), p)

Based(dir, p) == Clean(IF p.abs THEN p ELSE Join(dir, p))
InWd(wd, p) == IF ~p.abs /\ wd = NoPath THEN NoPath ELSE Based(wd, p)
OsResolve(p) == IF p.abs THEN p ELSE Join(cwd, p)
ResolvePath(e, rel) ==
  IF e = "os" THEN OsResolve(EnvExpand(e, rel))
  ELSE IF Clean(rel) = Dot THEN Getwd(e)
  ELSE InWd(Getwd(e), EnvExpand(e, rel))

(* (bug: the process's directory is the base)                              *)
AbsPath_ProcessDir(e, rel) ==
  LET x == ExpandPath(e, rel) IN
  IF rel = Empty THEN Empty
  ELSE IF x # NoPath /\ x.abs THEN Clean(x) ELSE Clean(Join(cwd, rel))

(* AbsPath: unlike ResolvePath it falls back on the process's directory.   *)
MadeAbs(dir) == IF dir.abs THEN dir ELSE Join(cwd, dir)
AbsPath(e, rel) ==
  IF rel = Empty THEN Empty
  ELSE Based(MadeAbs(Or(Getwd(e), Empty)), Or(ExpandPath(e, rel), rel))

(* (bug: the check of the jail is forgotten)                               *)
Host_Unchecked(e, rel) ==
  LET r == ResolvePath(e, rel) IN IF r = NoPath THEN NoPath ELSE Join(env[e].jail, r)

(* What a file call hands to package os, or NoPath if it does not get that *)
(* far; and the place the host takes it for.                               *)
Checked(jl, p) == IF IsInJail(jl, p) THEN p ELSE NoPath
JailPath(jl, r) == IF r = NoPath THEN NoPath ELSE Checked(jl, Join(jl, r))
Host(e, rel) ==
  IF e = "os" THEN OrNone(rel) ELSE JailPath(env[e].jail, ResolvePath(e, rel))
Os(p) == IF p = NoPath THEN NoPath ELSE Clean(OsResolve(p)).segs

(* ReadFile when the host's tree is f.                                     *)
Content(f, t) == IF t # NoPath /\ IsFile(f, t) THEN f[t] ELSE NoPath
ReadFile(f, e, rel) == Content(f, Os(Host(e, rel)))

-----------------------------------------------------------------------------
(* Reading variables                                                       *)

(* home and user as TestEnv's fields have them, where they are set         *)
Fields(e) ==
  LET f == [HOME |-> env[e].home, USER |-> env[e].user] IN
  [k \in {j \in DOMAIN f : f[j] # Empty} |-> f[k]]

Get(e, k) ==
  IF e # "os" /\ k = "HOME" THEN env[e].home
  ELSE IF e # "os" /\ k = "USER" THEN env[e].user
  ELSE Var(e, k)
Has(e, k) == k \in DOMAIN Map(e)
Environ(e) ==
  [k \in DOMAIN Map(e) \cup DOMAIN Fields(e) |-> Get(e, k)]
DumpEnv(e) == Over(Fields(e), Map(e))

-----------------------------------------------------------------------------
(* Making environments                                                     *)

NewTestEnv(jl, hm, usr) ==
  LET name == IF usr = Empty THEN Relv(<<"testuser">>) ELSE usr
      home == IF hm # Empty THEN hm
              ELSE IF name = RootUser THEN Abs(<<".root">>) ELSE Join(Abs(<<"home">>), name)
      pwd  == IF hm = Empty /\ name = RootUser THEN Root ELSE home IN
  /\ live = {"orig"}
  /\ env = [e \in Envs |-> [jail |-> jl, home |-> home, user |-> usr, map |-> e]]
  /\ data = [e \in Envs |->
       [HOME |-> home, USER |-> usr, PWD |-> pwd, TMPDIR |-> Join(jl, Relv(<<"tmp">>)),
        XDG_CONFIG_HOME |-> Join(home, Relv(<<".config">>)),
        XDG_CACHE_HOME  |-> Join(home, Relv(<<".cache">>)),
        XDG_DATA_HOME   |-> Join(home, Relv(<<".local", "share">>)),
        XDG_STATE_HOME  |-> Join(home, Relv(<<".local", "state">>))]]

(* &TestEnv{}, which works too: its first assignment makes its map.        *)
Blank(m) == [jail |-> Empty, home |-> Empty, user |-> Empty, map |-> m]
ZeroEnv ==
  /\ live = {"orig"}
  /\ env = [e \in Envs |-> Blank("nil")]
  /\ data = [e \in Envs |-> <<>>]

(* &OsEnv{}: it has no fields, and its variables are the process's.        *)
OsEnv ==
  /\ live = {"os"}
  /\ env = [e \in Envs |-> Blank("os")]
  /\ \E v \in OsVars : data = [e \in Envs |-> v]

Init ==
  /\ \/ ZeroEnv \/ OsEnv
     \/ \E jl \in Jails, hm \in Homes, usr \in Users : NewTestEnv(jl, hm, usr)
  /\ cwd = Cwd
  /\ fs = [t \in UNION {Prefixes(d.segs) : d \in Jails \cup {Cwd}} |-> DirNode]
  /\ calls = 0

(* (bug: the clone points to the original's map)                           *)
Clone_SharesMap(e) ==
  /\ e = "orig" /\ "clone" \notin live
  /\ live' = live \cup {"clone"}
  /\ env' = [env EXCEPT !["clone"] = [env[e] EXCEPT !.jail = Empty]]
  /\ UNCHANGED <<data, cwd, fs>>

(* Clone copies the map and every field but the jail.                      *)
Clone(e) ==
  LET c == "clone" IN
  /\ e = "orig" /\ c \notin live
  /\ live' = live \cup {c}
  /\ env' = [env EXCEPT ![c] = [env[e] EXCEPT !.jail = Empty,
                                              !.map = IF @ = "nil" THEN @ ELSE c]]
  /\ data' = [data EXCEPT ![c] = Map(e)]
  /\ UNCHANGED <<cwd, fs>>

-----------------------------------------------------------------------------
(* Variables, home, user and working directory                             *)

(* e becomes r and its map gets k = v; a nil map is made first.            *)
Store(e, r, k, v) ==
  LET m == IF r.map = "nil" THEN e ELSE r.map IN
  /\ env' = [env EXCEPT ![e] = [r EXCEPT !.map = m]]
  /\ data' = [data EXCEPT ![m] = Over([j \in {k} |-> v], Map(e))]
  /\ UNCHANGED <<live, cwd, fs>>
SetOther(e, k, v) == Store(e, env[e], k, v)

SetHome(e, rel) ==
  LET r == ResolvePath(e, rel)
      home == Join(env[e].jail, r) IN
  IF e = "os" THEN SetOther(e, "HOME", rel)
  ELSE r # NoPath /\ Store(e, [env[e] EXCEPT !.home = home], "HOME", home)
SetUser(e, usr) ==
  Store(e, IF e = "os" THEN env[e] ELSE [env[e] EXCEPT !.user = usr], "USER", usr)

(* os.Chdir, whose error OsEnv drops; it does not set PWD.                 *)
Chdir(p) ==
  /\ IsDir(fs, Os(p))
  /\ cwd' = Abs(Os(p))
  /\ UNCHANGED <<live, env, data, fs>>

(* (bug: the directory is not resolved)                                    *)
Setwd_AsGiven(e, dir) == Store(e, env[e], "PWD", dir)

Setwd(e, dir) ==
  IF e = "os" THEN Chdir(dir)
  ELSE Store(e, env[e], "PWD", Or(ResolvePath(e, dir), Empty))

(* TestEnv's Set dispatches on its key, OsEnv's does not.                  *)
Set(e) ==
  \/ \E usr \in Users : SetUser(e, usr)
  \/ \E p \in Args : SetHome(e, p) \/ Setwd(e, p)
  \/ \E k \in Others, v \in Homes : SetOther(e, k, v)

(* (bug: the map keeps what is unset)                                      *)
Unset_KeepsMap(e, k) ==
  /\ env' = [env EXCEPT ![e].home = IF k = "HOME" THEN Empty ELSE @,
                        ![e].user = IF k = "USER" THEN Empty ELSE @]
  /\ UNCHANGED <<live, data, cwd, fs>>

Unset(e, k) ==
  /\ env' = [env EXCEPT ![e].home = IF k = "HOME" THEN Empty ELSE @,
                        ![e].user = IF k = "USER" THEN Empty ELSE @]
  /\ data' = IF env[e].map = "nil" THEN data
             ELSE [data EXCEPT ![env[e].map] = [j \in DOMAIN @ \ {k} |-> @[j]]]
  /\ UNCHANGED <<live, cwd, fs>>

-----------------------------------------------------------------------------
(* Files.  The toolkit's function calls the environment's method and only  *)
(* logs; WriteFile also expands, makes the path absolute and makes the     *)
(* directory.  A call that fails is no step, unless it left a directory.   *)

(* Bound: the process's directory is neither moved nor removed.            *)
HoldsCwd(t) == Under(t, cwd.segs)

OnDisk(f) == fs' = f /\ UNCHANGED <<live, env, data, cwd>>

MkdirOs(t, all) ==
  /\ t # NoPath
  /\ IF all THEN MkdirAllOk(fs, t) ELSE MkdirOk(fs, t)
  /\ OnDisk(MkdirAll(fs, t))
Mkdir(e, rel, all) == MkdirOs(Os(Host(e, rel)), all)

RemoveOs(t, all) ==
  /\ t # NoPath
  /\ all \/ RemoveOk(fs, t)
  /\ ~HoldsCwd(t)
  /\ OnDisk(Pruned(fs, t))
RemovePath(e, rel, all) == RemoveOs(Os(Host(e, rel)), all)

RenameOs(a, b) ==
  /\ a \in DOMAIN fs /\ b # NoPath
  /\ RenameOk(fs, a, b) /\ ~HoldsCwd(a)
  /\ OnDisk(Renamed(fs, a, b))
Rename(e, src, dst) == RenameOs(Os(Host(e, src)), Os(Host(e, dst)))

(* Put a file at t once the directory at dir is there.                     *)
CanMake(dir) == dir # NoPath /\ MkdirAllOk(fs, dir)
CanPut(dir, t) == CanMake(dir) /\ t # NoPath /\ PutOk(MkdirAll(fs, dir), t)

(* (bug: the parent directory is not made)                                 *)
MakeAndPut_NoDir(dir, t, d) ==
  CanPut(dir, t) /\ OnDisk(Put(fs, t, d))

MakeAndPut(dir, t, d) ==
  /\ CanMake(dir)
  /\ OnDisk(IF CanPut(dir, t) THEN Put(MkdirAll(fs, dir), t, d)
            ELSE MkdirAll(fs, dir))

(* The directory and the file a write is about.                            *)
ParentOf(p) == IF p = Empty THEN Dot ELSE Dir(p)
WritePlaces(e, p) ==
  IF p = NoPath THEN <<NoPath, NoPath>>
  ELSE <<Os(Host(e, ParentOf(p))), Os(Host(e, p))>>
Target(e, x) == IF x = NoPath THEN NoPath ELSE AbsPath(e, x)
WriteAt(e, rel) == WritePlaces(e, Target(e, ExpandPath(e, rel)))
WriteFile(e, rel, d) == MakeAndPut(WriteAt(e, rel)[1], WriteAt(e, rel)[2], d)

(* AtomicWriteFile's own steps are those of module AtomicWrite.  Here it   *)
(* is what they add up to: the temporary file, which is in the host's      *)
(* directory for these and not in the jail, comes and goes within the call. *)
AtomicPath(e, rel) == IF e = "os" THEN EnvExpand(e, rel) ELSE Host(e, rel)
AtomicPlaces(p) == IF p = NoPath THEN <<NoPath, NoPath>> ELSE <<Os(Dir(p)), Os(p)>>
AtomicAt(e, rel) == AtomicPlaces(AtomicPath(e, rel))
AtomicWriteFile(e, rel, d) == MakeAndPut(AtomicAt(e, rel)[1], AtomicAt(e, rel)[2], d)

AtomicWriteCall(e) == \E p \in Args, d \in Data : AtomicWriteFile(e, p, d)

FileCall(e) ==
  \/ \E p \in Args, all \in BOOLEAN : Mkdir(e, p, all) \/ RemovePath(e, p, all)
  \/ \E p, q \in Args : Rename(e, p, q)
  \/ \E p \in Args, d \in Data : WriteFile(e, p, d)
  \/ AtomicWriteCall(e)

Call(e) ==
  \/ Clone(e) \/ Set(e) \/ FileCall(e)
  \/ \E k \in {"HOME", "USER", "PWD"} \cup Others : Unset(e, k)

Count == calls < MaxCalls /\ calls' = calls + 1
Next == Count /\ \E e \in live : Call(e)

Spec == Init /\ [][Next]_vars

-----------------------------------------------------------------------------
(* Properties                                                              *)

(* Fields, maps and files are of their types, an environment points to a   *)
(* map of its own or to none, and the host's tree has no orphans.          *)
TypeOK ==
  /\ live \in {{"orig"}, {"orig", "clone"}, {"os"}}
  /\ \A e \in live : env[e].map \in {e, "nil"} /\ DOMAIN Map(e) \subseteq Keys
  /\ cwd.abs /\ IsDir(fs, cwd.segs)
  /\ \A t \in DOMAIN fs : fs[t] \in {DirNode} \cup Data
  /\ \A t \in DOMAIN fs : t = <<>> \/ IsDir(fs, Front(t))

(* Whichever way they are asked for, the variables are the same: Get takes *)
(* home and user from the fields, Has from the map, Environ and DumpEnv    *)
(* each from both.                                                         *)
ViewsAgree ==
  \A e \in live :
    /\ DumpEnv(e) = Environ(e)
    /\ \A k \in Keys : /\ Has(e, k) <=> k \in DOMAIN Environ(e)
                       /\ Get(e, k) = IF Has(e, k) THEN Environ(e)[k] ELSE Empty

(* What an environment with a jail reads is in the jail: no sequence of    *)
(* calls leads a relative directory, a home or ".." to the host's files    *)
(* beside it, such as "/jail2" beside "/jail", which a clone may have made. *)
(* And the check refuses nothing else: a name that resolves to an absolute *)
(* path is that of the file at this place in the jail, but for a name with *)
(* two dots and more directly in it, which IsInJail takes for a way up.    *)
Resolved(e, p) ==
  LET r == ResolvePath(e, p) IN r # NoPath /\ r.abs /\ ~GoesUp(r)
ReadsItsJail ==
  \A e \in {x \in live : env[x].jail # Empty}, p \in Args :
    LET jl == Os(env[e].jail)
        t  == jl \o ResolvePath(e, p).segs IN
    /\ ReadFile(fs, e, p) # NoPath => Under(jl, Os(Host(e, p)))
    /\ Resolved(e, p) => ReadFile(fs, e, p) = Content(fs, t)

(* A file call of an environment changes nothing outside its jail; above   *)
(* the jail it at most makes the directories that lead to it.              *)
Changed == {t \in DOMAIN fs \cup DOMAIN fs' :
              t \notin DOMAIN fs \/ t \notin DOMAIN fs' \/ fs[t] # fs'[t]}
Confined(e) ==
  LET jl == Os(env[e].jail) IN
  \A t \in Changed : Under(jl, t) \/ (Under(t, jl) /\ IsDir(fs', t))
StaysInJail ==
  [][fs' = fs \/
     \A e \in live : env[e].jail = Empty \/ Confined(e) \/ ~FileCall(e)]_vars

(* The documentation's promise for copies: whoever makes the call, a test  *)
(* whose environment has a jail changes nothing outside of it.             *)
CopiesStayInJail ==
  [][\A e \in live : env["orig"].jail = Empty \/ Confined("orig") \/ ~FileCall(e)]_vars

(* A call changes what one environment shows and leaves the other alone:   *)
(* a clone can be modified without mutating the original.                  *)
View(e) == <<env[e].home, env[e].user, Map(e)>>
CloneIsIndependent ==
  [][\A e \in live : View(e)' # View(e) => \A f \in live \ {e} : View(f)' = View(f)]_vars

(* With an absolute working directory, a file that the toolkit wrote anew  *)
(* is read back under the name it was written with, although WriteFile     *)
(* makes the path absolute in its own way before the environment resolves  *)
(* it.  (OsEnv is written to below "~" but does not read there.)           *)
WdAbsolute(e) == Getwd(e) # NoPath /\ Getwd(e).abs
NewData == {fs'[t] : t \in Changed \cap DOMAIN fs'} \ {DirNode}
Wrote(at, d) == CanPut(at[1], at[2]) /\ MakeAndPut(at[1], at[2], d)
ReadYourWrites ==
  [][\A d \in NewData : \A e \in live, p \in Args :
       \/ ReadFile(fs', e, p) = d
       \/ e = "os" /\ Tilde(p)
       \/ ~ \/ WdAbsolute(e) /\ Wrote(WriteAt(e, p), d)
            \/ Wrote(AtomicAt(e, p), d)]_vars

(* The working directory stays absolute, wherever it is set to, until it   *)
(* is unset.                                                               *)
WdStaysAbsolute ==
  [][\A e \in live : WdAbsolute(e) => WdAbsolute(e)' \/ Var(e, "PWD")' = Empty]_vars
=============================================================================
