------------------------------ MODULE DkmsInstall ------------------------------
(***************************************************************************)
(* install.sh and uninstall.sh: the commands that replace one version of   *)
(* the kernel module by another, in their order, each of which may fail,   *)
(* and the script, which may be interrupted between any two of them.       *)
(*                                                                         *)
(* dkms is known by what the scripts use of it: a version is added with    *)
(* its sources in /usr/src, then built, then installed for the one kernel  *)
(* there is.  Packages, keys and what the scripts only print are left out. *)
(***************************************************************************)
EXTENDS FiniteSets

CONSTANTS
    Versions,       \* of the module: somebody runs the install.sh of any of them
    Faults          \* a subset of FaultKinds

FaultKinds == {"remove",    \* dkms remove fails
               "other",     \* any other command fails
               "kill"}      \* the script is interrupted

ASSUME DkmsInstallAssumption == Versions # {} /\ Faults \subseteq FaultKinds

VARIABLES
    \* the system
    dkms,           \* per version: "none", "added", "built" or "installed"
    sources,        \* per version: what is in /usr/src: "none", "part" or "full"
    hook,           \* the files of the IOMMU hook that are there
    \* the script
    at,             \* the command it runs next
    version,        \* VERSION
    olds,           \* what is left of $olds, or of the versions to uninstall
    removing,       \* the version whose sources are removed next
    \* history, of this run of the script
    before,         \* what was installed when it began
    stuck           \* a dkms remove has failed

system == <<dkms, sources, hook>>
script == <<at, version, olds, removing>>
installVars == <<system, script, before, stuck>>

HookFiles == {"ipts-iommu-passthrough", "ipts-iommu.conf"}
Known == {v \in Versions : dkms[v] # "none"}
Installed == {v \in Versions : dkms[v] = "installed"}
Stopped == {"idle", "failed", "done", "removed"}

-----------------------------------------------------------------------------
(* Helpers *)

Goto(next) == at' = next
Set(v, status) == dkms' = [dkms EXCEPT ![v] = status]
Die == "other" \in Faults /\ Goto("failed")

\* dkms remove --all; its failure is not looked at.
DkmsRemove(v) ==
    \/ Set(v, "none") /\ UNCHANGED stuck
    \/ "remove" \in Faults /\ stuck' = TRUE /\ UNCHANGED dkms

Wipe(v) == sources' = [sources EXCEPT ![v] = "none"]

-----------------------------------------------------------------------------
(* install_module *)

\* Mutant: only what is installed counts as an old version.
ListInstalled == Installed

ListOlds == Known

\* The version itself is removed first if it is there already.
Begin(v) ==
    /\ at \in Stopped
    /\ version' = v /\ olds' = ListOlds /\ removing' = v
    /\ Goto(IF v \in olds' THEN "remove" ELSE "wipe")
    /\ before' = Installed /\ stuck' = FALSE
    /\ UNCHANGED system

RemoveSame ==
    /\ at = "remove"
    /\ DkmsRemove(version)
    /\ Goto("wipe")
    /\ UNCHANGED <<sources, hook, version, olds, removing, before>>

WipeSame ==
    /\ at = "wipe"
    /\ Wipe(version)
    /\ Goto("copy")
    /\ UNCHANGED <<dkms, hook, version, olds, removing, before, stuck>>

Copy ==
    /\ at = "copy"
    /\ \/ sources' = [sources EXCEPT ![version] = "full"] /\ Goto("add")
       \/ Die /\ \E part \in {"none", "part"} : sources' = [sources EXCEPT ![version] = part]
    /\ UNCHANGED <<dkms, hook, version, olds, removing, before, stuck>>

\* dkms refuses a version it has.
Add ==
    /\ at = "add"
    /\ \/ version \notin Known /\ Set(version, "added") /\ Goto("build")
       \/ version \in Known /\ Goto("failed") /\ UNCHANGED dkms
       \/ Die /\ UNCHANGED dkms
    /\ UNCHANGED <<sources, hook, version, olds, removing, before, stuck>>

\* Mutant: the old versions are removed whether it was built or not.
BuildAnyway ==
    /\ at = "build"
    /\ \/ Set(version, "built")
       \/ "other" \in Faults /\ UNCHANGED dkms
    /\ Goto("old")
    /\ UNCHANGED <<sources, hook, version, olds, removing, before, stuck>>

Build ==
    /\ at = "build"
    /\ \/ Set(version, "built") /\ Goto("old")
       \/ Die /\ UNCHANGED dkms
    /\ UNCHANGED <<sources, hook, version, olds, removing, before, stuck>>

\* Only then the old versions are removed, in some order.
RemoveOld ==
    /\ at = "old"
    /\ IF olds \subseteq {version}
       THEN Goto("install") /\ UNCHANGED <<dkms, olds, removing, stuck>>
       ELSE \E v \in olds \ {version} :
              /\ DkmsRemove(v)
              /\ removing' = v /\ olds' = olds \ {v}
              /\ Goto("wipe old")
    /\ UNCHANGED <<sources, hook, version, before>>

WipeOld ==
    /\ at = "wipe old"
    /\ Wipe(removing)
    /\ Goto("old")
    /\ UNCHANGED <<dkms, hook, version, olds, removing, before, stuck>>

\* dkms install takes the place of another version that could not be removed.
Install ==
    /\ at = "install"
    /\ \/ /\ dkms' = [v \in Versions |-> IF v = version THEN "installed"
                                         ELSE IF v \in Installed THEN "built" ELSE dkms[v]]
          /\ Goto("hook")
       \/ Die /\ UNCHANGED dkms
    /\ UNCHANGED <<sources, hook, version, olds, removing, before, stuck>>

\* install_iommu_hook: two files, one after the other.
InstallHook ==
    /\ at = "hook"
    /\ \/ /\ hook # HookFiles
          /\ hook' = hook \cup {IF "ipts-iommu-passthrough" \notin hook
                                THEN "ipts-iommu-passthrough" ELSE "ipts-iommu.conf"}
          /\ Goto(IF hook' = HookFiles THEN "done" ELSE "hook")
       \/ hook = HookFiles /\ Goto("done") /\ UNCHANGED hook
       \/ Die /\ UNCHANGED hook
    /\ UNCHANGED <<dkms, sources, version, olds, removing, before, stuck>>

-----------------------------------------------------------------------------
(* uninstall.sh *)

Uninstall ==
    /\ at \in Stopped
    /\ olds' = Known /\ Goto("drop")
    /\ before' = Installed /\ stuck' = FALSE
    /\ UNCHANGED <<system, version, removing>>

Drop ==
    /\ at = "drop"
    /\ \/ /\ olds = {}
          /\ hook' = {} /\ Goto("removed")
          /\ UNCHANGED <<dkms, olds, removing, stuck>>
       \/ /\ \E v \in olds :
               DkmsRemove(v) /\ removing' = v /\ olds' = olds \ {v}
          /\ Goto("wipe dropped")
          /\ UNCHANGED hook
    /\ UNCHANGED <<sources, version, before>>

WipeDropped ==
    /\ at = "wipe dropped"
    /\ Wipe(removing)
    /\ Goto("drop")
    /\ UNCHANGED <<dkms, hook, version, olds, removing, before, stuck>>

Killed ==
    /\ "kill" \in Faults
    /\ at \notin Stopped
    /\ Goto(IF at \in {"drop", "wipe dropped"} THEN "removed" ELSE "failed")
    /\ UNCHANGED <<system, version, olds, removing, before, stuck>>

-----------------------------------------------------------------------------
(* The specification *)

InstallInit ==
    /\ dkms = [v \in Versions |-> "none"]
    /\ sources = [v \in Versions |-> "none"]
    /\ hook = {}
    /\ at = "idle" /\ version \in Versions /\ olds = {} /\ removing = version
    /\ before = {} /\ stuck = FALSE

InstallNext ==
    \/ \E v \in Versions : Begin(v)
    \/ RemoveSame \/ WipeSame \/ Copy \/ Add \/ Build
    \/ RemoveOld \/ WipeOld \/ Install \/ InstallHook
    \/ Uninstall \/ Drop \/ WipeDropped
    \/ Killed

Spec == InstallInit /\ [][InstallNext]_installVars

-----------------------------------------------------------------------------
(* Properties *)

\* An installation that ends before the new version is built leaves the version that
\* worked in place (install.sh:196), unless that is the version it was to install:
\* that one is removed first.
FailedBuildKeepsOld ==
    at = "failed" /\ dkms[version] \in {"none", "added"}
        => before \ {version} \subseteq Installed

\* An installation that comes to its end leaves its version and no other, with its
\* sources and the whole hook, whatever earlier runs of the scripts left behind,
\* unless dkms could not remove a version (install.sh:181-211).
DoneIsExact ==
    at = "done" /\ ~stuck =>
        /\ Known = {version} /\ Installed = {version}
        /\ sources[version] = "full"
        /\ hook = HookFiles
=============================================================================
