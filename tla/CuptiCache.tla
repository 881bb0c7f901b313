------------------------------ MODULE CuptiCache ------------------------------
(***************************************************************************)
(* How utlz finds the two CUPTI libraries, and installs them from PyPI in  *)
(* a cache that all its starts share: EnsureLoaded and load of             *)
(* cupti_linux.go, installWheel of download.go.  The system's directories  *)
(* stand as one directory that utlz only reads, and whose host library may *)
(* be a stub.  In which order directories are tried is left open.          *)
(***************************************************************************)
EXTENDS Naturals, Sequences, Functions

CONSTANTS
  Proc,        \* starts of utlz that share one home directory
  Version,     \* the CUPTI releases, in the order they appear
  SystemLibs   \* what the system's directories may hold: only a host library is a stub

Release == Range(Version)
Dir == {"system"} \union Release
Lib == {"host", "target"}

ASSUME CuptiAssumption ==
  /\ Version \in Seq(Release) /\ Version # <<>>
  /\ {"system", "cache"} \intersect Release = {}
  /\ SystemLibs \subseteq {s \in [Lib -> {"absent", "stub", "whole"}] : s["target"] # "stub"}

VARIABLES
  lib,         \* what each directory holds of each library
  made,        \* the cache directories there are
  wheel,       \* those that hold a downloaded wheel
  latest,      \* the newest release on PyPI, as an index of Version
  at,          \* where each process stands in load
  looks,       \* where it looks: "system", "cache", or the release it installs
  tries,       \* the directories there that have not failed
  handles,     \* the libraries it has open
  spared,      \* history: who started when a directory held both libraries
  excused      \* history: who met an error of the disk, the network or PyPI, a
               \* no, or another install of the same release

cuptiVars == <<lib, made, wheel, latest, at, looks, tries, handles, spared, excused>>

InstallSteps == {"accepted", "downloaded", "opened", "extracted", "complete", "broken"}
Installing(d) == {p \in Proc : at[p] \in InstallSteps /\ looks[p] = d}
Usable(d) == \A l \in Lib : lib[d][l] = "whole"

CuptiInit ==
  /\ lib \in {[d \in Dir |-> IF d = "system" THEN s ELSE [l \in Lib |-> "absent"]] :
                s \in SystemLibs}
  /\ made = {}
  /\ wheel = {}
  /\ latest = 1
  /\ at = [p \in Proc |-> "start"]
  /\ looks = [p \in Proc |-> "system"]
  /\ tries = [p \in Proc |-> {}]
  /\ handles = [p \in Proc |-> {}]
  /\ spared = {}
  /\ excused = {}

Places == InstallSteps \union
  {"start", "search", "half", "both", "prompt", "loaded", "failed"}
Handles == Dir \X Lib

CuptiTypeOK ==
  /\ lib \in [Dir -> [Lib -> {"absent", "stub", "whole"}]]
  /\ made \subseteq Release
  /\ wheel \subseteq made
  /\ latest \in DOMAIN Version
  /\ at \in [Proc -> Places]
  /\ looks \in [Proc -> Dir \union {"cache"}]
  /\ tries \in [Proc -> SUBSET Dir]
  /\ handles \in [Proc -> SUBSET Handles]
  /\ spared \subseteq Proc /\ excused \subseteq Proc

\* load returns, and what it knew is gone.
Returns(p, result) ==
  /\ at' = [at EXCEPT ![p] = result]
  /\ looks' = [looks EXCEPT ![p] = "system"]
  /\ tries' = [tries EXCEPT ![p] = {}]

\* PyPI publishes the next release.
Publish ==
  /\ latest < Len(Version)
  /\ latest' = latest + 1
  /\ UNCHANGED <<lib, made, wheel, at, looks, tries, handles, spared, excused>>
-----------------------------------------------------------------------------
(***************************************************************************)
(* load: the system's directories, then the cache's, then an install.      *)
(***************************************************************************)
BeginLoad(p) ==
  /\ at[p] = "start"
  /\ at' = [at EXCEPT ![p] = "search"]
  /\ tries' = [tries EXCEPT ![p] = {"system"}]
  /\ spared' = IF \E d \in Dir : Usable(d) THEN spared \union {p} ELSE spared
  /\ UNCHANGED <<lib, made, wheel, latest, looks, handles, excused>>

\* loadFromDir opens the host library, then the target library.
OpenHost(p, d) ==
  /\ at[p] = "search"
  /\ d \in tries[p]
  /\ lib[d]["host"] # "absent"
  /\ handles' = [handles EXCEPT ![p] = @ \union {<<d, "host">>}]
  /\ at' = [at EXCEPT ![p] = "half"]
  /\ UNCHANGED <<lib, made, wheel, latest, looks, tries, spared, excused>>

Opened(p, d) == d \in tries[p] /\ <<d, "host">> \in handles[p]

OpenTarget(p, d) ==
  /\ at[p] = "half" /\ Opened(p, d)
  /\ lib[d]["target"] # "absent"
  /\ handles' = [handles EXCEPT ![p] = @ \union {<<d, "target">>}]
  /\ at' = [at EXCEPT ![p] = "both"]
  /\ UNCHANGED <<lib, made, wheel, latest, looks, tries, spared, excused>>

\* The host library has the symbol that the sampler needs.
Probed(p, d) ==
  /\ at[p] = "both" /\ Opened(p, d)
  /\ lib[d]["host"] # "stub"
  /\ Returns(p, "loaded")
  /\ spared' = spared \ {p}
  /\ excused' = excused \ {p}
  /\ UNCHANGED <<lib, made, wheel, latest, handles>>

\* Does loading from a directory fail at this point?
Refused(p, d) ==
  \/ at[p] = "search" /\ d \in tries[p] /\ lib[d]["host"] = "absent"
  \/ at[p] = "half" /\ Opened(p, d) /\ lib[d]["target"] = "absent"
  \/ at[p] = "both" /\ Opened(p, d) /\ lib[d]["host"] = "stub"

\* Mutant: the libraries of a directory that failed stay open.
NextDir_KeepsHandles(p, d) ==
  /\ Refused(p, d)
  /\ tries' = [tries EXCEPT ![p] = @ \ {d}]
  /\ at' = [at EXCEPT ![p] = "search"]
  /\ UNCHANGED <<lib, made, wheel, latest, looks, handles, spared, excused>>

\* Mutant: the first directory that fails ends the search.
NextDir_GivesUp(p, d) ==
  /\ Refused(p, d)
  /\ handles' = [handles EXCEPT ![p] = {}]
  /\ tries' = [tries EXCEPT ![p] = {}]
  /\ at' = [at EXCEPT ![p] = "search"]
  /\ UNCHANGED <<lib, made, wheel, latest, looks, spared, excused>>

\* loadFromDir closes what it opened, and loadFromDirs goes on.
NextDir(p, d) ==
  /\ Refused(p, d)
  /\ handles' = [handles EXCEPT ![p] = {}]
  /\ tries' = [tries EXCEPT ![p] = @ \ {d}]
  /\ at' = [at EXCEPT ![p] = "search"]
  /\ UNCHANGED <<lib, made, wheel, latest, looks, spared, excused>>

\* After the system's directories, those the glob finds in the cache.
GlobCache(p) ==
  /\ at[p] = "search" /\ tries[p] = {} /\ looks[p] = "system"
  /\ looks' = [looks EXCEPT ![p] = "cache"]
  /\ tries' = [tries EXCEPT ![p] = made]
  /\ UNCHANGED <<lib, made, wheel, latest, at, handles, spared, excused>>

\* PyPI names its latest release, and the user is asked whether to install it.
Prompt(p) ==
  /\ at[p] = "search" /\ tries[p] = {} /\ looks[p] = "cache"
  /\ looks' = [looks EXCEPT ![p] = Version[latest]]
  /\ at' = [at EXCEPT ![p] = "prompt"]
  /\ UNCHANGED <<lib, made, wheel, latest, tries, handles, spared, excused>>

\* No cache directory, no release, no answer, a no, or MkdirAll fails.
GiveUp(p) ==
  /\ \/ at[p] = "prompt"
     \/ at[p] = "search" /\ tries[p] = {} /\ looks[p] \in {"system", "cache"}
  /\ Returns(p, "failed")
  /\ excused' = excused \union {p}
  /\ UNCHANGED <<lib, made, wheel, latest, handles, spared>>

\* The directory just installed does not load.
InstalledInVain(p) ==
  /\ at[p] = "search" /\ tries[p] = {} /\ looks[p] \in Release
  /\ Returns(p, "failed")
  /\ UNCHANGED <<lib, made, wheel, latest, handles, spared, excused>>
-----------------------------------------------------------------------------
(***************************************************************************)
(* installWheel.                                                           *)
(***************************************************************************)

WithRivals(p) ==
  LET others == Installing(looks[p]) IN
  IF others = {} THEN excused ELSE excused \union others \union {p}

\* Mutant: no MkdirAll before the download.
Accept_NoMkdir(p) ==
  /\ at[p] = "prompt"
  /\ at' = [at EXCEPT ![p] = "accepted"]
  /\ excused' = WithRivals(p)
  /\ UNCHANGED <<lib, made, wheel, latest, looks, tries, handles, spared>>

\* The user says yes: MkdirAll, which accepts a directory that is there.
Accept(p) ==
  /\ at[p] = "prompt"
  /\ at' = [at EXCEPT ![p] = "accepted"]
  /\ made' = made \union {looks[p]}
  /\ excused' = WithRivals(p)
  /\ UNCHANGED <<lib, wheel, latest, looks, tries, handles, spared>>

\* The wheel goes to a temporary file, is checked, and takes its name.
Download(p) ==
  /\ at[p] = "accepted"
  /\ wheel' = wheel \union {looks[p]}
  /\ at' = [at EXCEPT ![p] = "downloaded"]
  /\ UNCHANGED <<lib, made, latest, looks, tries, handles, spared, excused>>

\* The archive opens, unless another install has removed it.
OpenWheel(p) ==
  /\ at[p] = "downloaded"
  /\ at' = [at EXCEPT ![p] = IF looks[p] \in wheel THEN "opened" ELSE "broken"]
  /\ UNCHANGED <<lib, made, wheel, latest, looks, tries, handles, spared, excused>>

\* One library goes to a temporary file and takes its name when it is whole.
Extract(p) ==
  LET l == IF at[p] = "opened" THEN "host" ELSE "target" IN
  /\ at[p] \in {"opened", "extracted"}
  /\ lib' = [lib EXCEPT ![looks[p]][l] = "whole"]
  /\ at' = [at EXCEPT ![p] = IF @ = "opened" THEN "extracted" ELSE "complete"]
  /\ UNCHANGED <<made, wheel, latest, looks, tries, handles, spared, excused>>

\* Before the wheel has its name an error ends the install; from then on the
\* deferred Remove comes first.  The temporary file is removed.
InstallError(p) ==
  /\ at[p] \in {"accepted", "downloaded", "opened", "extracted"}
  /\ IF at[p] = "accepted"
     THEN Returns(p, "failed")
     ELSE at' = [at EXCEPT ![p] = "broken"] /\ UNCHANGED <<looks, tries>>
  /\ excused' = excused \union {p}
  /\ UNCHANGED <<lib, made, wheel, latest, handles, spared>>

\* The deferred Remove, of whatever wheel is there; then loadFromDir.
RemoveWheel(p) ==
  /\ at[p] \in {"complete", "broken"}
  /\ wheel' = wheel \ {looks[p]}
  /\ IF at[p] = "broken"
     THEN Returns(p, "failed")
     ELSE /\ at' = [at EXCEPT ![p] = "search"]
          /\ tries' = [tries EXCEPT ![p] = {looks[p]}]
          /\ looks' = looks
  /\ UNCHANGED <<lib, made, latest, handles, spared, excused>>

CuptiStep(p) ==
  \/ BeginLoad(p)
  \/ \E d \in Dir : OpenHost(p, d) \/ OpenTarget(p, d) \/ Probed(p, d) \/ NextDir(p, d)
  \/ GlobCache(p) \/ Prompt(p) \/ GiveUp(p) \/ InstalledInVain(p)
  \/ Accept(p) \/ Download(p) \/ OpenWheel(p) \/ Extract(p)
  \/ InstallError(p) \/ RemoveWheel(p)

\* A process that ends leaves the cache as it is, and may start again.
CuptiEnds(p) ==
  /\ Returns(p, "start")
  /\ handles' = [handles EXCEPT ![p] = {}]
  /\ spared' = spared \ {p}
  /\ excused' = excused \ {p}
  /\ UNCHANGED <<lib, made, wheel, latest>>
-----------------------------------------------------------------------------
\* A process that has loaded CUPTI holds the host and the target library of one
\* directory, whole and no stub, and not one library of the directories that
\* failed, whose symbols would come first; one whose load failed holds none
\* (loadFromDir).
OneLibrary == \A p \in Proc :
  /\ at[p] = "loaded" => \E d \in Dir : Usable(d) /\ handles[p] = {d} \X Lib
  /\ at[p] \in {"prompt", "failed"} => handles[p] = {}

\* The user is not asked to install what is there: once a directory held both
\* libraries, however many broken ones sort before it, no later start prompts
\* (load).
PromptsOnce == \A p \in spared : at[p] # "prompt"

\* What an install that failed or died leaves behind, a directory without
\* libraries, one library, a wheel, never fails a later one: an install fails
\* only by an error of its own, or because two ran at a time (installWheel).
LeftoversHarmless == \A p \in Proc :
  at[p] = "failed" => p \in excused

\* InstallsLast: an install works whatever is there already, and is not asked for
\* again.
InstallsLast == PromptsOnce /\ LeftoversHarmless
=============================================================================
