----------------------------- MODULE AppContext ----------------------------
(***************************************************************************)
(* Where an application keeps its files: the user's directories            *)
(* (src/toolkit/user.go), the search for the root of a git work tree and   *)
(* the roots of an AppContext (src/appctx/git.go, context.go).  All of it  *)
(* only reads the environment and the host's tree.  The git program, which *)
(* FindGitRoot asks first, is outside: it has any answer of GitAnswers.    *)
(***************************************************************************)
EXTENDS TestEnv

App == Relv(<<"app">>)
LocalApp == Relv(<<".app">>)

-----------------------------------------------------------------------------
(* The user's directories: the first of the kind's variables that is set   *)
(* names it, or else it has its place below home.                          *)

Kinds == {"config", "cache", "data", "state"}
Variables == [config |-> <<"XDG_CONFIG_HOME", "APPDATA">>,
              cache  |-> <<"XDG_CACHE_HOME", "LOCALAPPDATA">>,
              data   |-> <<"XDG_DATA_HOME">>,
              state  |-> <<"XDG_STATE_HOME">>]
Place == [config |-> Relv(<<".config">>), cache |-> Relv(<<".cache">>),
          data   |-> Relv(<<".local", "share">>), state |-> Relv(<<".local", "state">>)]

Chosen(e, kind) == {i \in DOMAIN Variables[kind] : Get(e, Variables[kind][i]) # Empty}
FirstChosen(e, kind) == Variables[kind][Min(Chosen(e, kind))]
BelowHome(e, kind) ==
  IF GetHome(e) = NoPath THEN NoPath ELSE Join(GetHome(e), Place[kind])
FromVariable(v, kind) == IF kind = "state" THEN v ELSE Clean(v)

(* (bug: the variable HOME is taken for the home)                          *)
UserPath_RawHome(e, kind) ==
  IF Chosen(e, kind) = {} THEN Join(Get(e, "HOME"), Place[kind])
  ELSE FromVariable(Get(e, FirstChosen(e, kind)), kind)

(* UserConfigPath, UserCachePath, UserDataPath, UserStatePath              *)
UserPath(e, kind) ==
  IF Chosen(e, kind) = {} THEN BelowHome(e, kind)
  ELSE FromVariable(Get(e, FirstChosen(e, kind)), kind)

-----------------------------------------------------------------------------
(* The root of a git work tree                                             *)

(* Stat: the environment's, on a tree without links.                       *)
NodeAt(t) == IF t \in DOMAIN fs THEN fs[t] ELSE NoPath
Stat(e, rel) == NodeAt(Os(IF e = "os" THEN ResolvePath(e, rel) ELSE Host(e, rel)))

(* git -C start rev-parse --show-toplevel (external): the root of a work   *)
(* tree around start, as the host and not the environment knows it, or no  *)
(* answer (NoPath): there may be no git, and it may not accept a .git that *)
(* is there.  (Bound: git's own variables, such as GIT_DIR, are not set.)  *)
GitAnswers(start) ==
  LET t == Os(start)
      roots == {d \in Prefixes(t) : d \o <<".git">> \in DOMAIN fs} IN
  {NoPath} \cup (IF IsDir(fs, t) THEN {Abs(d) : d \in roots} ELSE {})

(* start and the directories above it; Dir stays where it is at "/" or "." *)
Start(e, p) == IF Stat(e, p) \in {NoPath, DirNode} THEN p ELSE Dir(p)
Upward(p) ==
  LET up[i \in 1..Len(p.segs) + 1] == IF i = 1 THEN p ELSE Dir(up[i - 1]) IN up
HasGit(e, p) == Stat(e, Join(p, Relv(<<".git">>))) # NoPath
FirstAt(up, hits) == IF hits = {} THEN Empty ELSE up[Min(hits)]
Hits(e, up) == {i \in DOMAIN up : HasGit(e, up[i])}

(* (bug: the loop ends before it looks at the topmost directory)           *)
Walk_NotTop(e, start) ==
  LET up == Upward(start) IN
  FirstAt(up, {i \in Hits(e, up) : up[i] # Dir(up[i])})

(* The search when git has no answer.                                      *)
Walk(e, start) == LET up == Upward(start) IN FirstAt(up, Hits(e, up))

FindGitRoot(e, p, answer) ==
  IF answer # NoPath THEN answer ELSE Walk(e, Start(e, p))

-----------------------------------------------------------------------------
(* AppContext                                                              *)

NewAppContext(e, root) ==
  IF \E kind \in Kinds : UserPath(e, kind) = NoPath THEN NoPath
  ELSE [Root |-> Clean(root),
        LocalConfigRoot |-> Join(Clean(root), LocalApp),
        user |-> [kind \in Kinds |-> Join(UserPath(e, kind), App)]]
NewGitAppContext(e, answer) ==
  IF Getwd(e) = NoPath THEN NoPath
  ELSE NewAppContext(e, FindGitRoot(e, Getwd(e), answer))

-----------------------------------------------------------------------------
(* Properties                                                              *)

(* The home that SetHome changes to is, as the caller resolves it, the home *)
(* that GetHome answers, although the host's path is stored; and what is   *)
(* below home moves with it, but for what a variable names: NewTestEnv     *)
(* sets those, and they stay.                                              *)
NewHome(e, p) ==
  IF e = "os" THEN OrNone(p)
  ELSE IF WdAbsolute(e) THEN ResolvePath(e, p) ELSE NoPath
MovesTo(e, home) ==
  /\ GetHome(e)' = home
  /\ \A kind \in Kinds :
       UserPath(e, kind)' = IF Chosen(e, kind) # {} THEN UserPath(e, kind)
                            ELSE Join(home, Place[kind])
HomeMoves ==
  [][\A e \in live :
     Var(e, "HOME")' # Var(e, "HOME") => \A p \in Args :
       NewHome(e, p) # NoPath /\ SetHome(e, p) => MovesTo(e, NewHome(e, p))]_vars

(* A repository's own configuration is in that repository.  When git has   *)
(* no answer, it is in the nearest directory, from the working directory   *)
(* up to the jail, that holds a .git, wherever the caller's name for it,   *)
(* the jail and the "" of an empty search lead; and in the working         *)
(* directory when there is none.  When git answers, and the environment    *)
(* has no jail, it is in a directory above the working directory that      *)
(* holds a .git, git having refused nearer ones.  (With a jail it is       *)
(* wherever git's answer, a path of the host, leads in the jail: git is    *)
(* asked about the jail's path as if it were the host's.  Nothing is said  *)
(* of that case.)                                                          *)
Above(e, t) == {d \in Prefixes(t) : Under(Simplified(env[e].jail), d)}
Repos(e, t) == {d \in Above(e, t) : d \o <<".git">> \in DOMAIN fs}
Nearest(ds) == CHOOSE d \in ds : \A c \in ds : Len(c) <= Len(d)
HostWd(e) == Os(Host(e, Getwd(e)))
NearestOr(repos, t) == IF repos = {} THEN t ELSE Nearest(repos)
LocalRootIn(e, ctx, d) ==
  ctx # NoPath => Os(Host(e, ctx.LocalConfigRoot)) = d \o LocalApp.segs
IsNearest(e, ctx, t) == LocalRootIn(e, ctx, NearestOr(Repos(e, t), t))
IsARepo(e, ctx, t) == \E d \in Repos(e, t) : LocalRootIn(e, ctx, d)
Answers(e) == GitAnswers(Start(e, Getwd(e)))
LocalRootIsRepo ==
  \A e \in {x \in live : WdAbsolute(x)} :
    /\ IsNearest(e, NewGitAppContext(e, NoPath), HostWd(e))
    /\ env[e].jail = Empty => \A answer \in Answers(e) \ {NoPath} :
         IsARepo(e, NewGitAppContext(e, answer), HostWd(e))
=============================================================================
