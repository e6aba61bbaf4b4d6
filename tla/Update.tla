-------------------------------- MODULE Update --------------------------------
(***************************************************************************)
(* `owx update' (src/cli/update.ts): the package is installed globally by  *)
(* npm, the setup of what is then installed is run, and a stamp says which *)
(* version was installed and set up.  npm runs the package's own script    *)
(* (src/scripts/postinstall.ts), which keeps the stamp of an installation  *)
(* by hand true.  Nothing keeps two updates, or an update and npm, apart.  *)
(***************************************************************************)
EXTENDS Naturals

CONSTANTS
  Updaters,      \* processes
  Dev,           \* the version the dev branch names; not a released one
  MaxReleases,   \* bound on releases
  MaxInstalls,   \* bound on updates begun and installations by hand
  MaxMishaps     \* bound on updates that fail or die

VARIABLES
  released,      \* the version npm calls latest
  installed,     \* the version of the global package
  stamp,         \* install-state.json: 0 for a version it does not name; `doubt' is
                 \* not in the file: its writer was outrun, or npm was killed
  completed,     \* versions whose setup ran to its end
  updater,       \* per process: channel, step, and the version asked for
  counts

updateVars == <<released, installed, stamp, completed, updater, counts>>

Channels == {"stable", "dev"}
Unknown == 0
NoUpdate == [channel |-> "none", at |-> "rest", latest |-> Unknown, outrun |-> FALSE]
Versions == (1..MaxReleases) \cup {Dev}

UpdateInit ==
  /\ released = 1 /\ installed = 1
  /\ stamp \in [installed : {Unknown, 1}, setup : {Unknown}, doubt : {FALSE}]
  /\ completed = {}
  /\ updater = [p \in Updaters |-> NoUpdate]
  /\ counts = [installs |-> 0, mishaps |-> 0]

\* Something moved under the updates of others that are under way.
Outrun(others) ==
  [q \in Updaters |-> IF q \in others /\ updater[q].at # "rest"
                      THEN [updater[q] EXCEPT !.outrun = TRUE] ELSE updater[q]]
UpdateStep(p, at, moved) ==
  updater' = [IF moved THEN Outrun(Updaters \ {p}) ELSE updater EXCEPT ![p].at = at]

-----------------------------------------------------------------------------
\* executeUpdate: the registry is asked for the latest version, in vain when
\* it cannot be reached; for the dev channel it is not asked.
BeginUpdate(p, channel, latest) ==
  /\ updater[p].at = "rest" /\ counts.installs < MaxInstalls
  /\ latest \in IF channel = "dev" THEN {Unknown} ELSE {Unknown, released}
  /\ updater' = [updater EXCEPT ![p] = [channel |-> channel, at |-> "install", latest |-> latest,
                                        outrun |-> FALSE]]
  /\ counts' = [counts EXCEPT !.installs = @ + 1]
  /\ UNCHANGED <<released, installed, stamp, completed>>

\* runPostinstall, by npm, in a global installation.
Postinstalled(version) ==
  IF stamp.installed = version THEN stamp ELSE [stamp EXCEPT !.installed = version]

\* runGlobalUpdate and runDevGlobalUpdate, whose build is not shared.
Wanted(channel) == IF channel = "dev" THEN Dev ELSE released

InstallPackage(p) ==
  /\ updater[p].at = "install"
  /\ installed' = Wanted(updater[p].channel)
  /\ stamp' = Postinstalled(installed')
  /\ UpdateStep(p, "setup", TRUE)
  /\ UNCHANGED <<released, completed, counts>>

\* runSetupRefresh finds whatever is installed now.
RefreshSetup(p) ==
  /\ updater[p].at = "setup"
  /\ completed' = completed \cup {installed}
  /\ UpdateStep(p, "stamp", FALSE)
  /\ UNCHANGED <<released, installed, stamp, counts>>

\* writeSuccessfulInstallStamp: the version the registry named, or the one found.
StampOf(u) == IF u.channel = "stable" /\ u.latest # Unknown THEN u.latest ELSE installed

WriteStamp(p) ==
  LET version == StampOf(updater[p]) IN
  /\ updater[p].at = "stamp"
  /\ stamp' = [installed |-> version, setup |-> version, doubt |-> updater[p].outrun]
  /\ UpdateStep(p, "rest", FALSE)
  /\ UNCHANGED <<released, installed, completed, counts>>

-----------------------------------------------------------------------------
(* Failures, and what others do meanwhile.                                 *)
Mishap == counts.mishaps < MaxMishaps /\ counts' = [counts EXCEPT !.mishaps = @ + 1]

\* A build, a download or an installation fails, or npm is killed at its time
\* limit, the package in place and its script not run.
InstallFails(p) ==
  /\ updater[p].at = "install" /\ Mishap
  /\ \/ UpdateStep(p, "rest", FALSE) /\ UNCHANGED <<installed, stamp>>
     \/ /\ installed' = Wanted(updater[p].channel) /\ stamp' = [stamp EXCEPT !.doubt = TRUE]
        /\ UpdateStep(p, "rest", TRUE)
  /\ UNCHANGED <<released, completed>>

\* The setup throws, or the update dies, between its steps too.
SetupFails(p) ==
  /\ updater[p].at = "setup" /\ Mishap /\ UpdateStep(p, "rest", FALSE)
  /\ UNCHANGED <<released, installed, stamp, completed>>

UpdateDies(p) ==
  /\ updater[p].at = "stamp" /\ Mishap /\ UpdateStep(p, "rest", FALSE)
  /\ UNCHANGED <<released, installed, stamp, completed>>

NewRelease ==
  /\ released < MaxReleases /\ released' = released + 1
  /\ updater' = Outrun(Updaters)
  /\ UNCHANGED <<installed, stamp, completed, counts>>

\* npm install -g by hand, of any version.
InstallByHand(version) ==
  /\ version \in (1..released) \cup {Dev} /\ counts.installs < MaxInstalls
  /\ installed' = version /\ stamp' = Postinstalled(version)
  /\ updater' = Outrun(Updaters)
  /\ counts' = [counts EXCEPT !.installs = @ + 1]
  /\ UNCHANGED <<released, completed>>

UpdateNext ==
  \/ \E p \in Updaters :
       \/ \E channel \in Channels, latest \in {Unknown, released} : BeginUpdate(p, channel, latest)
       \/ InstallPackage(p) \/ RefreshSetup(p) \/ WriteStamp(p)
       \/ InstallFails(p) \/ SetupFails(p) \/ UpdateDies(p)
  \/ NewRelease
  \/ \E version \in Versions : InstallByHand(version)

UpdateSpec == UpdateInit /\ [][UpdateNext]_updateVars

-----------------------------------------------------------------------------
UpdateTypeOK ==
  /\ released \in 1..MaxReleases /\ installed \in Versions /\ completed \subseteq Versions
  /\ stamp \in [installed : Versions \cup {Unknown}, setup : Versions \cup {Unknown}, doubt : BOOLEAN]
  /\ \A p \in Updaters : updater[p].at \in {"rest", "install", "setup", "stamp"}

(* The stamp claims a setup only of a version whose setup did run, however *)
(* the steps of updates, failures and installations by hand mix, and names *)
(* what is installed when no update is under way - unless its writer was   *)
(* outrun by a release or another installation, or npm was killed.         *)
StampTrue ==
  ~stamp.doubt =>
    /\ stamp.setup \in completed \cup {Unknown}
    /\ (\A p \in Updaters : updater[p].at = "rest")
         => stamp.installed \in {installed, Unknown}
=============================================================================
