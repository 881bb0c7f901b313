---------------------------- MODULE StartupProofs ----------------------------
(***************************************************************************)
(* Theorems about Startup, for any set of processes, any sequence of       *)
(* releases and any content of the system's directories.                   *)
(***************************************************************************)
EXTENDS Startup, TLAPS

(***************************************************************************)
(* The config file.                                                        *)
(***************************************************************************)

(* While a save is under way no process that counts has its ID, and the    *)
(* saver counts only when it saves alone.                                  *)
ConfigInv ==
  /\ ConfigTypeOK
  /\ \A p \in sole : loading[p] = "done" =>
       clientID[p] = file /\ HoldsID(file) /\ Savers = {}
  /\ \A p \in Proc : Saving(p) => clientID[p] = p
  /\ \A p \in sole : Saving(p) => Savers = {p}

LEMMA ConfigInitInv == ConfigInit => ConfigInv
BY DEF ConfigInit, ConfigInv, ConfigTypeOK, Contents, ClientIDs, Saving, Savers

LEMMA LoadStepInv ==
  ASSUME ConfigInv, NEW p \in Proc, LoadStep(p)
  PROVE  ConfigInv'
<1> USE ProcAssumption DEF ConfigInv, ConfigTypeOK, Contents, ClientIDs, Saving, Savers, HoldsID
<1>1. CASE NoHome(p)
  <2>1. ConfigTypeOK'
    BY <1>1 DEF NoHome
  <2>2. \A q \in Proc : Saving(q)' <=> Saving(q)
    BY <1>1 DEF NoHome
  <2>3. Savers' = Savers /\ file' = file
    BY <1>1, <2>2 DEF NoHome
  <2>4. \A q \in Proc : Saving(q) => clientID'[q] = clientID[q]
    BY <1>1 DEF NoHome
  <2>5. \A q \in sole' : Saving(q)' => Savers' = {q}
    BY <1>1, <2>2, <2>3 DEF NoHome
  <2>6. ASSUME NEW q \in sole', loading'[q] = "done"
        PROVE  clientID'[q] = file' /\ HoldsID(file') /\ Savers' = {}
    <3>1. q # p /\ q \in sole
      BY <1>1, <2>6 DEF NoHome
    <3>2. loading[q] = "done" /\ clientID'[q] = clientID[q]
      BY <1>1, <2>6, <3>1 DEF NoHome
    <3>3. QED
      BY <2>3, <3>1, <3>2
  <2>7. QED
    BY <2>1, <2>2, <2>4, <2>5, <2>6
<1>2. CASE ReadsID(p)
  <2>1. ConfigTypeOK'
    BY <1>2 DEF ReadsID
  <2>2. \A q \in Proc : Saving(q)' <=> Saving(q)
    BY <1>2 DEF ReadsID
  <2>3. Savers' = Savers /\ file' = file
    BY <1>2, <2>2 DEF ReadsID
  <2>4. \A q \in Proc : Saving(q) => clientID'[q] = clientID[q]
    BY <1>2 DEF ReadsID
  <2>5. \A q \in sole' : Saving(q)' => Savers' = {q}
    BY <1>2, <2>2, <2>3 DEF ReadsID
  <2>6. ASSUME NEW q \in sole', loading'[q] = "done"
        PROVE  clientID'[q] = file' /\ HoldsID(file') /\ Savers' = {}
    <3>1. CASE q = p
      <4>1. Savers = {}
        BY ONLY <1>2, <2>6, <3>1 DEF ReadsID
      <4>2. clientID'[p] = file /\ HoldsID(file)
        BY <1>2 DEF ReadsID
      <4>3. QED
        BY ONLY <2>3, <3>1, <4>1, <4>2
    <3>2. CASE q # p
      <4>1. q \in sole
        BY ONLY <1>2, <2>6 DEF ReadsID
      <4>2. loading[q] = "done" /\ clientID'[q] = clientID[q]
        BY <1>2, <2>6, <3>2, <4>1 DEF ReadsID
      <4>3. QED
        BY <2>3, <4>1, <4>2
    <3>3. QED
      BY ONLY <3>1, <3>2
  <2>7. QED
    BY <2>1, <2>2, <2>4, <2>5, <2>6
<1>3. CASE MakesID(p) \/ ReadFails(p)
  <2>0. PICK seen \in {"nothing", "no id"}, victims \in SUBSET Proc : NewID(p, seen, victims)
    BY <1>3 DEF MakesID, ReadFails, Loaded
  <2>1. ConfigTypeOK'
    BY <2>0 DEF NewID
  <2>2. \A q \in Proc : Saving(q)' <=> Saving(q) \/ q = p
    BY <2>0 DEF NewID
  <2>3. ASSUME NEW q \in Proc, Saving(q)' PROVE clientID'[q] = q
    <3>1. CASE q = p
      BY <2>0, <3>1 DEF NewID
    <3>2. CASE q # p
      <4>1. clientID'[q] = clientID[q]
        BY <2>0, <3>2 DEF NewID
      <4>2. Saving(q)
        BY ONLY <2>2, <2>3, <3>2
      <4>3. QED
        BY <4>1, <4>2
    <3>3. QED
      BY <3>1, <3>2
  <2>4. ASSUME NEW q \in sole', loading'[q] = "done" PROVE FALSE
    <3>1. q \in sole /\ loading[q] = "done" /\ q \in Loaded /\ q \notin victims
      BY <2>0, <2>4 DEF NewID, Loaded
    <3>2. CASE MakesID(p)
      BY <3>1, <3>2 DEF MakesID
    <3>3. CASE ReadFails(p)
      BY <3>1, <3>3 DEF ReadFails, NewID
    <3>4. QED
      BY <1>3, <3>2, <3>3
  <2>5. ASSUME NEW q \in sole', Saving(q)' PROVE Savers' = {q}
    <3>1. Savers' = Savers \union {p}
      BY ONLY <2>2, p \in Proc DEF Savers
    <3>2. CASE Savers = {}
      <4>1. q \in Proc
        BY <2>1, <2>5
      <4>2. q = p
        BY <2>2, <2>5, <3>2, <4>1
      <4>3. QED
        BY <3>1, <3>2, <4>2
    <3>3. CASE Savers # {}
      BY <2>0, <2>2, <2>5, <3>3 DEF NewID
    <3>4. QED
      BY <3>2, <3>3
  <2>6. sole' \subseteq sole
    BY <2>0 DEF NewID
  <2>7. QED
    BY <2>1, <2>3, <2>4, <2>5, <2>6
<1>4. CASE SaveOpens(p)
  <2>1. ConfigTypeOK' /\ p \in Savers /\ clientID' = clientID /\ sole' = sole
    BY <1>4 DEF SaveOpens
  <2>2. \A q \in Proc : Saving(q)' <=> Saving(q)
    BY <1>4 DEF SaveOpens
  <2>3. Savers' = Savers
    BY ONLY <2>2 DEF Savers
  <2>4. ASSUME NEW q \in sole', loading'[q] = "done" PROVE FALSE
    <3>1. q \in sole /\ loading[q] = "done"
      BY <1>4, <2>4 DEF SaveOpens
    <3>2. QED
      BY <2>1, <3>1
  <2>5. QED
    BY <2>1, <2>2, <2>3, <2>4
<1>5. CASE SaveWrites(p)
  <2>1. ConfigTypeOK' /\ clientID[p] = p /\ p \in Savers /\ HoldsID(p) /\ file' = p
    BY <1>5 DEF SaveWrites
  <2>2. \A q \in Proc : Saving(q)' => q # p /\ Saving(q) /\ clientID'[q] = clientID[q]
    BY <1>5 DEF SaveWrites
  <2>3. ASSUME NEW q \in sole', loading'[q] = "done"
        PROVE  clientID'[q] = file' /\ HoldsID(file') /\ Savers' = {}
    <3>1. q = p /\ Savers = {p}
      BY <1>5, <2>1, <2>3 DEF SaveWrites
    <3>2. \A r \in Proc : ~ Saving(r)'
      BY <3>1, <2>2
    <3>3. clientID'[q] = file'
      BY <1>5, <2>1, <3>1 DEF SaveWrites
    <3>4. QED
      BY <2>1, <3>2, <3>3
  <2>4. ASSUME NEW q \in sole', Saving(q)' PROVE FALSE
    <3>1. q \in sole /\ Saving(q) /\ q # p
      BY <1>5, <2>2, <2>4 DEF SaveWrites
    <3>2. Savers = {q}
      BY <3>1
    <3>3. QED
      BY <2>1, <3>1, <3>2
  <2>5. QED
    BY <2>1, <2>2, <2>3, <2>4
<1>6. CASE SaveFails(p)
  BY <1>6 DEF SaveFails
<1>7. QED
  BY <1>1, <1>2, <1>3, <1>4, <1>5, <1>6 DEF LoadStep

LEMMA ConfigEndsInv ==
  ASSUME ConfigInv, NEW p \in Proc, ConfigEnds(p)
  PROVE  ConfigInv'
<1> USE DEF ConfigInv, ConfigTypeOK, ConfigEnds, Saving, Savers, HoldsID
<1>1. ConfigTypeOK'
  BY ProcAssumption DEF Contents, ClientIDs
<1>2. \A q \in Proc : q # p => clientID'[q] = clientID[q] /\ loading'[q] = loading[q]
  OBVIOUS
<1>3. loading'[p] = "start" /\ \A q \in Proc : Saving(q)' => q # p /\ Saving(q)
  BY <1>2
<1>4. ASSUME NEW q \in sole', loading'[q] = "done"
      PROVE  clientID'[q] = file' /\ HoldsID(file') /\ Savers' = {}
  <2>1. q # p /\ q \in sole /\ loading[q] = "done" /\ clientID'[q] = clientID[q]
    BY <1>2, <1>3, <1>4
  <2>2. \A r \in Proc : ~ Saving(r)
    BY <2>1
  <2>3. \A r \in Proc : ~ Saving(r)'
    BY <1>3, <2>2
  <2>4. QED
    BY <2>1, <2>3
<1>5. ASSUME NEW q \in sole', Saving(q)' PROVE Savers' = {q}
  <2>1. q # p /\ q \in sole /\ Saving(q)
    BY <1>3, <1>5
  <2>2. \A r \in Proc : Saving(r) => r = q
    <3>1. Savers = {q}
      BY ONLY <2>1, ConfigInv DEF ConfigInv, ConfigTypeOK
    <3>2. QED
      BY ONLY <3>1 DEF Savers
  <2>3. \A r \in Proc : Saving(r)' => r = q
    BY <1>3, <2>2
  <2>4. q \in Proc
    BY ONLY <2>1, ConfigTypeOK DEF ConfigTypeOK
  <2>5. QED
    BY <1>5, <2>3, <2>4
<1>6. QED
  BY <1>1, <1>2, <1>3, <1>4, <1>5

(***************************************************************************)
(* The CUPTI libraries.                                                    *)
(***************************************************************************)
Searching == {"search", "half", "both"}

DirsInv ==
  /\ \A d \in Dir : lib[d]["target"] # "stub"
  /\ \A d \in Release \ made : \A l \in Lib : lib[d][l] = "absent"

(* What a process has open, and why that is of one directory.              *)
HandlesInv(p) ==
  /\ at[p] \in {"start", "search", "prompt", "failed"} \union InstallSteps => handles[p] = {}
  /\ at[p] = "half" => \E d \in tries[p] :
       handles[p] = {<<d, "host">>} /\ lib[d]["host"] # "absent"
  /\ at[p] = "both" => \E d \in tries[p] :
       handles[p] = {d} \X Lib /\ lib[d]["host"] # "absent" /\ lib[d]["target"] = "whole"
  /\ at[p] = "loaded" => \E d \in Dir : Usable(d) /\ handles[p] = {d} \X Lib

(* Why an install that met no error ends in a directory that loads.        *)
InstallInv(p) ==
  /\ at[p] = "start" => looks[p] = "system"
  /\ at[p] \in {"prompt"} \union InstallSteps => looks[p] \in Release
  /\ at[p] \in InstallSteps => looks[p] \in made
  /\ at[p] = "downloaded" => looks[p] \in wheel \/ p \in excused
  /\ at[p] \in {"extracted", "complete"} => lib[looks[p]]["host"] = "whole"
  /\ at[p] = "complete" => lib[looks[p]]["target"] = "whole"
  /\ at[p] \in {"broken", "failed"} => p \in excused
  /\ at[p] \in Searching /\ looks[p] \in Release =>
       Usable(looks[p]) /\ tries[p] = {looks[p]}

(* Why a process that could load a directory does not come to the prompt.  *)
SparedInv(p) == p \in spared =>
  /\ at[p] \notin {"start", "prompt"}
  /\ at[p] \in Searching /\ looks[p] = "system" =>
       \/ \E d \in Release : Usable(d)
       \/ Usable("system") /\ "system" \in tries[p]
  /\ at[p] \in Searching /\ looks[p] = "cache" => \E d \in tries[p] : Usable(d)

ProcInv(p) == HandlesInv(p) /\ InstallInv(p) /\ SparedInv(p)

(* Two installs of one release are both excused.                           *)
RivalsInv == \A p, q \in Proc :
  p # q /\ at[p] \in InstallSteps /\ at[q] \in InstallSteps /\ looks[p] = looks[q]
    => p \in excused /\ q \in excused

CuptiInv == CuptiTypeOK /\ DirsInv /\ (\A p \in Proc : ProcInv(p)) /\ RivalsInv

(***************************************************************************)
(* The GPU and the port.                                                   *)
(***************************************************************************)
HoldsGPU == {"reporter", "listen", "serving", "deaf"}

OwnerInv ==
  /\ stage \in [Proc -> Stages]
  /\ role \in [Proc -> {"none", "server", "local", "viewer"}]
  /\ owner \in {"none"} \union Proc
  /\ listener \in {"none"} \union Proc
  /\ \A p \in Proc : stage[p] \in HoldsGPU => owner = p
  /\ listener \in Proc => stage[listener] \in {"serving", "stopping"}

LEMMA OwnerInit == Init => OwnerInv
BY ProcAssumption DEF Init, OwnerInv, Stages, HoldsGPU

(* A start that ends in an error, or a screen that shows it, leaves the     *)
(* owners of the others alone.                                             *)
LEMMA OwnerFails ==
  ASSUME OwnerInv, NEW p \in Proc, Fails(p), stage[p] \notin {"serving", "stopping"}
  PROVE  OwnerInv'
<1> USE ProcAssumption DEF OwnerInv, HoldsGPU, Stages, Goes
<1>1. listener # p
  OBVIOUS
<1>2. CASE role[p] = "server" /\ Exit(p)
  BY <1>1, <1>2 DEF Exit
<1>3. CASE ~ (role[p] = "server" /\ Exit(p))
  <2>1. /\ stage' = [stage EXCEPT ![p] = "told"]
        /\ owner' = IF owner = p THEN "none" ELSE owner
        /\ role' = role /\ listener' = listener
    BY <1>3 DEF Fails, startVars
  <2>2. QED
    BY ONLY <1>1, <2>1, ProcAssumption, OwnerInv, p \in Proc
       DEF OwnerInv, HoldsGPU, Stages
<1>4. QED
  BY <1>2, <1>3

LEMMA OwnerStep ==
  ASSUME OwnerInv, NEW p \in Proc, Step(p)
  PROVE  OwnerInv'
<1> USE ProcAssumption DEF OwnerInv, HoldsGPU, Stages, Goes
<1>0. ASSUME Fails(p), stage[p] \in {"cupti", "reporter", "listen"} PROVE OwnerInv'
  BY ONLY <1>0, OwnerFails, OwnerInv, p \in Proc
<1>1. CASE Configure(p) \/ LoadCupti(p)
  BY <1>1 DEF Configure, LoadCupti, startVars
<1>2. CASE Dispatch(p)
  BY <1>2 DEF Dispatch
<1>3. CASE Connect(p)
  BY <1>3 DEF Connect
<1>4. CASE StreamEnds(p)
  BY <1>4 DEF StreamEnds
<1>5. CASE CannotCollect(p)
  <2>1. CASE Fails(p)
    BY <1>0, <1>5, <2>1 DEF CannotCollect
  <2>2. CASE ~ Fails(p)
    BY <1>5, <2>2 DEF CannotCollect
  <2>3. QED
    BY <2>1, <2>2
<1>6. CASE NewCollector(p)
  <2>1. CASE Fails(p)
    BY <1>0, <1>6, <2>1 DEF NewCollector
  <2>2. CASE ~ Fails(p)
    <3>1. /\ stage[p] = "cupti" /\ role' = role /\ listener' = listener
          /\ \/ owner = "none" /\ owner' = p /\ stage' = [stage EXCEPT ![p] = "reporter"]
             \/ owner' = owner /\ stage' = [stage EXCEPT ![p] = "stuck"]
      BY ONLY <1>6, <2>2 DEF NewCollector, Goes
    <3>2. QED
      BY ONLY <3>1, ProcAssumption, OwnerInv, p \in Proc DEF OwnerInv, HoldsGPU, Stages
  <2>3. QED
    BY <2>1, <2>2
<1>7. CASE NewReporter(p)
  <2>1. CASE Fails(p)
    BY <1>0, <1>7, <2>1 DEF NewReporter
  <2>2. CASE ~ Fails(p)
    BY <1>7, <2>2 DEF NewReporter
  <2>3. QED
    BY <2>1, <2>2
<1>8. CASE Listen(p)
  <2>1. CASE role[p] = "server" /\ Exit(p)
    BY <1>0, <1>8, <2>1 DEF Listen, Fails
  <2>2. CASE ~ (role[p] = "server" /\ Exit(p))
    <3>1. /\ stage[p] = "listen" /\ role' = role /\ owner' = owner
          /\ \/ listener = "none" /\ listener' = p /\ stage' = [stage EXCEPT ![p] = "serving"]
             \/ listener' = listener /\ stage' = [stage EXCEPT ![p] = "deaf"]
      BY ONLY <1>8, <2>2 DEF Listen, Goes
    <3>2. QED
      BY ONLY <3>1, ProcAssumption, OwnerInv, p \in Proc DEF OwnerInv, HoldsGPU, Stages
  <2>3. QED
    BY <2>1, <2>2
<1>9. CASE Stop(p)
  BY <1>9 DEF Stop
<1>10. CASE Unlisten(p)
  BY <1>10 DEF Unlisten
<1>11. CASE CloseCollector(p)
  BY <1>11 DEF CloseCollector
<1>12. CASE Exit(p)
  BY <1>12 DEF Exit
<1>13. QED
  BY <1>1, <1>2, <1>3, <1>4, <1>5, <1>6, <1>7, <1>8, <1>9, <1>10, <1>11, <1>12 DEF Step

LEMMA OwnerNext == OwnerInv /\ [Next]_vars => OwnerInv'
<1> SUFFICES ASSUME OwnerInv, [Next]_vars PROVE OwnerInv'
  OBVIOUS
<1>1. CASE \E p \in Proc : Step(p)
  BY <1>1, OwnerStep
<1>2. CASE UNCHANGED startVars
  BY <1>2 DEF startVars, OwnerInv
<1>3. QED
  BY <1>1, <1>2 DEF Next, vars


(* What a step of p leaves to the others, and to the directories.          *)
Others(p) == \A q \in Proc \ {p} :
  /\ at'[q] = at[q] /\ looks'[q] = looks[q] /\ tries'[q] = tries[q] /\ handles'[q] = handles[q]
  /\ q \in spared' <=> q \in spared
  /\ q \in excused => q \in excused'
  /\ at[q] = "downloaded" /\ looks[q] \in wheel => looks[q] \in wheel' \/ q \in excused'

DirsGrow ==
  /\ \A d \in Dir, l \in Lib : lib'[d][l] \in {lib[d][l], "whole"}
  /\ made \subseteq made'

StaysInstalling(p) == at'[p] \in InstallSteps =>
  at[p] \in InstallSteps /\ looks'[p] = looks[p] /\ (p \in excused => p \in excused')

LEMMA UsableStays ==
  ASSUME DirsGrow, NEW d \in Dir, Usable(d)
  PROVE  Usable(d)'
BY DEF DirsGrow, Usable

LEMMA OthersKept ==
  ASSUME CuptiTypeOK, NEW p \in Proc, Others(p), DirsGrow, NEW q \in Proc \ {p}, ProcInv(q)
  PROVE  ProcInv(q)'
<1>1. /\ at'[q] = at[q] /\ looks'[q] = looks[q] /\ tries'[q] = tries[q] /\ handles'[q] = handles[q]
      /\ q \in spared' <=> q \in spared
      /\ q \in excused => q \in excused'
      /\ at[q] = "downloaded" /\ looks[q] \in wheel => looks[q] \in wheel' \/ q \in excused'
  BY DEF Others
<1>2. /\ \A d \in Dir : Usable(d) => Usable(d)'
      /\ \A d \in Dir, l \in Lib : lib'[d][l] \in {lib[d][l], "whole"}
      /\ made \subseteq made'
  BY UsableStays DEF DirsGrow
<1>3. looks[q] \in Dir \union {"cache"} /\ tries[q] \subseteq Dir
  BY DEF CuptiTypeOK
<1>4. "system" \in Dir /\ Release \subseteq Dir /\ "host" \in Lib /\ "target" \in Lib
  BY DEF Dir, Lib
<1>5. HandlesInv(q)'
  BY <1>1, <1>2, <1>3, <1>4 DEF ProcInv, HandlesInv
<1>6. InstallInv(q)'
  BY <1>1, <1>2, <1>3, <1>4 DEF ProcInv, InstallInv, InstallSteps
<1>7. SparedInv(q)'
  BY <1>1, <1>2, <1>3, <1>4 DEF ProcInv, SparedInv
<1>8. QED
  BY <1>5, <1>6, <1>7 DEF ProcInv

LEMMA RivalsKept ==
  ASSUME RivalsInv, NEW p \in Proc, Others(p), StaysInstalling(p)
  PROVE  RivalsInv'
BY DEF RivalsInv, Others, StaysInstalling

LEMMA StepKeeps ==
  ASSUME CuptiInv, NEW p \in Proc, CuptiTypeOK', DirsInv', Others(p), DirsGrow,
         StaysInstalling(p), ProcInv(p)'
  PROVE  CuptiInv'
BY OthersKept, RivalsKept DEF CuptiInv

LEMMA BeginLoadInv ==
  ASSUME CuptiInv, NEW p \in Proc, BeginLoad(p)
  PROVE  CuptiInv'
<1> USE CuptiAssumption DEF CuptiInv, InstallSteps, Places, Handles
<1>1. CuptiTypeOK' /\ DirsInv' /\ DirsGrow
  BY DEF BeginLoad, CuptiTypeOK, DirsInv, DirsGrow, Returns, Dir, Lib
<1>2. Others(p) /\ StaysInstalling(p)
  BY DEF BeginLoad, Others, StaysInstalling, Returns, CuptiTypeOK, RivalsInv
<1>3. HandlesInv(p)'
  BY DEF BeginLoad, HandlesInv, ProcInv, Returns, CuptiTypeOK, DirsInv, Usable, Lib, Opened, Refused
<1>4. InstallInv(p)'
  BY DEF BeginLoad, InstallInv, ProcInv, Returns, CuptiTypeOK, DirsInv, Usable, Lib, Opened, Refused, Searching
<1>5. SparedInv(p)'
  <2>1. at'[p] = "search" /\ looks'[p] = "system" /\ tries'[p] = {"system"} /\ lib' = lib
    BY DEF BeginLoad, CuptiTypeOK, ProcInv, InstallInv
  <2>2. p \in spared' => \E d \in Dir : Usable(d)
    BY DEF BeginLoad, ProcInv, SparedInv
  <2>3. QED
    BY <2>1, <2>2 DEF SparedInv, Usable, Dir
<1>6. QED
  BY <1>1, <1>2, <1>3, <1>4, <1>5, StepKeeps DEF ProcInv

LEMMA OpenHostInv ==
  ASSUME CuptiInv, NEW p \in Proc, NEW d \in Dir, OpenHost(p, d)
  PROVE  CuptiInv'
<1> USE CuptiAssumption DEF CuptiInv, InstallSteps, Places, Handles
<1>1. CuptiTypeOK' /\ DirsInv' /\ DirsGrow
  BY DEF OpenHost, CuptiTypeOK, DirsInv, DirsGrow, Returns, Dir, Lib
<1>2. Others(p) /\ StaysInstalling(p)
  BY DEF OpenHost, Others, StaysInstalling, Returns, CuptiTypeOK, RivalsInv
<1>3. HandlesInv(p)'
  BY DEF OpenHost, HandlesInv, ProcInv, Returns, CuptiTypeOK, DirsInv, Usable, Lib, Opened, Refused
<1>4. InstallInv(p)'
  BY DEF OpenHost, InstallInv, ProcInv, Returns, CuptiTypeOK, DirsInv, Usable, Lib, Opened, Refused, Searching
<1>5. SparedInv(p)'
  BY DEF OpenHost, SparedInv, ProcInv, Returns, CuptiTypeOK, DirsInv, Usable, Lib, Opened, Refused, Searching, Dir
<1>6. QED
  BY <1>1, <1>2, <1>3, <1>4, <1>5, StepKeeps DEF ProcInv

LEMMA OpenTargetInv ==
  ASSUME CuptiInv, NEW p \in Proc, NEW d \in Dir, OpenTarget(p, d)
  PROVE  CuptiInv'
<1> USE CuptiAssumption DEF CuptiInv, InstallSteps, Places, Handles
<1>1. CuptiTypeOK' /\ DirsInv' /\ DirsGrow
  BY DEF OpenTarget, CuptiTypeOK, DirsInv, DirsGrow, Returns, Dir, Lib
<1>2. Others(p) /\ StaysInstalling(p)
  BY DEF OpenTarget, Others, StaysInstalling, Returns, CuptiTypeOK, RivalsInv
<1>3. HandlesInv(p)'
  BY DEF OpenTarget, HandlesInv, ProcInv, Returns, CuptiTypeOK, DirsInv, Usable, Lib, Opened, Refused
<1>4. InstallInv(p)'
  BY DEF OpenTarget, InstallInv, ProcInv, Returns, CuptiTypeOK, DirsInv, Usable, Lib, Opened, Refused, Searching
<1>5. SparedInv(p)'
  BY DEF OpenTarget, SparedInv, ProcInv, Returns, CuptiTypeOK, DirsInv, Usable, Lib, Opened, Refused, Searching, Dir
<1>6. QED
  BY <1>1, <1>2, <1>3, <1>4, <1>5, StepKeeps DEF ProcInv

LEMMA ProbedInv ==
  ASSUME CuptiInv, NEW p \in Proc, NEW d \in Dir, Probed(p, d)
  PROVE  CuptiInv'
<1> USE CuptiAssumption DEF CuptiInv, InstallSteps, Places, Handles
<1>1. CuptiTypeOK' /\ DirsInv' /\ DirsGrow
  BY DEF Probed, CuptiTypeOK, DirsInv, DirsGrow, Returns, Dir, Lib
<1>2. Others(p) /\ StaysInstalling(p)
  BY DEF Probed, Others, StaysInstalling, Returns, CuptiTypeOK, RivalsInv
<1>3. HandlesInv(p)'
  BY DEF Probed, HandlesInv, ProcInv, Returns, CuptiTypeOK, DirsInv, Usable, Lib, Opened, Refused
<1>4. InstallInv(p)'
  BY DEF Probed, InstallInv, ProcInv, Returns, CuptiTypeOK, DirsInv, Usable, Lib, Opened, Refused, Searching
<1>5. SparedInv(p)'
  BY DEF Probed, SparedInv, ProcInv, Returns, CuptiTypeOK, DirsInv, Usable, Lib, Opened, Refused, Searching, Dir
<1>6. QED
  BY <1>1, <1>2, <1>3, <1>4, <1>5, StepKeeps DEF ProcInv

LEMMA NextDirInv ==
  ASSUME CuptiInv, NEW p \in Proc, NEW d \in Dir, NextDir(p, d)
  PROVE  CuptiInv'
<1> USE CuptiAssumption DEF CuptiInv, InstallSteps, Places, Handles
<1>1. CuptiTypeOK' /\ DirsInv' /\ DirsGrow
  BY DEF NextDir, CuptiTypeOK, DirsInv, DirsGrow, Returns, Dir, Lib
<1>2. Others(p) /\ StaysInstalling(p)
  BY DEF NextDir, Others, StaysInstalling, Returns, CuptiTypeOK, RivalsInv
<1>3. HandlesInv(p)'
  BY DEF NextDir, HandlesInv, ProcInv, Returns, CuptiTypeOK, DirsInv, Usable, Lib, Opened, Refused
<1>4. InstallInv(p)'
  BY DEF NextDir, InstallInv, ProcInv, Returns, CuptiTypeOK, DirsInv, Usable, Lib, Opened, Refused, Searching
<1>5. SparedInv(p)'
  BY DEF NextDir, SparedInv, ProcInv, Returns, CuptiTypeOK, DirsInv, Usable, Lib, Opened, Refused, Searching, Dir
<1>6. QED
  BY <1>1, <1>2, <1>3, <1>4, <1>5, StepKeeps DEF ProcInv

LEMMA GlobCacheInv ==
  ASSUME CuptiInv, NEW p \in Proc, GlobCache(p)
  PROVE  CuptiInv'
<1> USE CuptiAssumption DEF CuptiInv, InstallSteps, Places, Handles
<1>1. CuptiTypeOK' /\ DirsInv' /\ DirsGrow
  BY DEF GlobCache, CuptiTypeOK, DirsInv, DirsGrow, Returns, Dir, Lib
<1>2. Others(p) /\ StaysInstalling(p)
  BY DEF GlobCache, Others, StaysInstalling, Returns, CuptiTypeOK, RivalsInv
<1>3. HandlesInv(p)'
  BY DEF GlobCache, HandlesInv, ProcInv, Returns, CuptiTypeOK, DirsInv, Usable, Lib, Opened, Refused
<1>4. InstallInv(p)'
  BY DEF GlobCache, InstallInv, ProcInv, Returns, CuptiTypeOK, DirsInv, Usable, Lib, Opened, Refused, Searching
<1>5. SparedInv(p)'
  <2>1. at'[p] = "search" /\ looks'[p] = "cache" /\ tries'[p] = made /\ lib' = lib /\ spared' = spared
    BY DEF GlobCache, CuptiTypeOK
  <2>2. ASSUME p \in spared PROVE \E d \in made : Usable(d)
    <3>1. PICK d \in Release : Usable(d)
      BY <2>2 DEF GlobCache, ProcInv, SparedInv, Searching
    <3>2. d \in made
      BY <3>1 DEF DirsInv, Usable, Lib
    <3>3. QED
      BY <3>1, <3>2
  <2>3. QED
    BY <2>1, <2>2 DEF SparedInv, Usable
<1>6. QED
  BY <1>1, <1>2, <1>3, <1>4, <1>5, StepKeeps DEF ProcInv

LEMMA PromptInv ==
  ASSUME CuptiInv, NEW p \in Proc, Prompt(p)
  PROVE  CuptiInv'
<1> USE CuptiAssumption DEF CuptiInv, InstallSteps, Places, Handles
<1>1. CuptiTypeOK' /\ DirsInv' /\ DirsGrow
  BY DEF Prompt, CuptiTypeOK, DirsInv, DirsGrow, Returns, Dir, Lib
<1>2. Others(p) /\ StaysInstalling(p)
  BY DEF Prompt, Others, StaysInstalling, Returns, CuptiTypeOK, RivalsInv
<1>3. HandlesInv(p)'
  BY DEF Prompt, HandlesInv, ProcInv, Returns, CuptiTypeOK, DirsInv, Usable, Lib, Opened, Refused
<1>4. InstallInv(p)'
  BY DEF Prompt, InstallInv, ProcInv, Returns, CuptiTypeOK, DirsInv, Usable, Lib, Opened, Refused, Searching
<1>5. SparedInv(p)'
  BY DEF Prompt, SparedInv, ProcInv, Returns, CuptiTypeOK, DirsInv, Usable, Lib, Opened, Refused, Searching, Dir
<1>6. QED
  BY <1>1, <1>2, <1>3, <1>4, <1>5, StepKeeps DEF ProcInv

LEMMA GiveUpInv ==
  ASSUME CuptiInv, NEW p \in Proc, GiveUp(p)
  PROVE  CuptiInv'
<1> USE CuptiAssumption DEF CuptiInv, InstallSteps, Places, Handles
<1>1. CuptiTypeOK' /\ DirsInv' /\ DirsGrow
  BY DEF GiveUp, CuptiTypeOK, DirsInv, DirsGrow, Returns, Dir, Lib
<1>2. Others(p) /\ StaysInstalling(p)
  BY DEF GiveUp, Others, StaysInstalling, Returns, CuptiTypeOK, RivalsInv
<1>3. HandlesInv(p)'
  BY DEF GiveUp, HandlesInv, ProcInv, Returns, CuptiTypeOK, DirsInv, Usable, Lib, Opened, Refused
<1>4. InstallInv(p)'
  BY DEF GiveUp, InstallInv, ProcInv, Returns, CuptiTypeOK, DirsInv, Usable, Lib, Opened, Refused, Searching
<1>5. SparedInv(p)'
  BY DEF GiveUp, SparedInv, ProcInv, Returns, CuptiTypeOK, DirsInv, Usable, Lib, Opened, Refused, Searching, Dir
<1>6. QED
  BY <1>1, <1>2, <1>3, <1>4, <1>5, StepKeeps DEF ProcInv

LEMMA InstalledInVainInv ==
  ASSUME CuptiInv, NEW p \in Proc, InstalledInVain(p)
  PROVE  CuptiInv'
<1> USE CuptiAssumption DEF CuptiInv, InstallSteps, Places, Handles
<1>1. PICK d \in tries[p] : TRUE
  BY DEF InstalledInVain, ProcInv, InstallInv, Searching
<1>2. QED
  BY <1>1 DEF InstalledInVain

LEMMA DownloadInv ==
  ASSUME CuptiInv, NEW p \in Proc, Download(p)
  PROVE  CuptiInv'
<1> USE CuptiAssumption DEF CuptiInv, InstallSteps, Places, Handles
<1>1. CuptiTypeOK' /\ DirsInv' /\ DirsGrow
  <2>1. looks[p] \in Release /\ looks[p] \in made
    BY DEF Download, ProcInv, InstallInv
  <2>2. QED
    BY <2>1 DEF Download, CuptiTypeOK, DirsInv, DirsGrow, Returns, Dir, Lib
<1>2. Others(p) /\ StaysInstalling(p)
  BY DEF Download, Others, StaysInstalling, Returns, CuptiTypeOK, RivalsInv
<1>3. HandlesInv(p)'
  BY DEF Download, HandlesInv, ProcInv, Returns, CuptiTypeOK, DirsInv, Usable, Lib, Opened, Refused
<1>4. InstallInv(p)'
  BY DEF Download, InstallInv, ProcInv, Returns, CuptiTypeOK, DirsInv, Usable, Lib, Opened, Refused, Searching
<1>5. SparedInv(p)'
  BY DEF Download, SparedInv, ProcInv, Returns, CuptiTypeOK, DirsInv, Usable, Lib, Opened, Refused, Searching, Dir
<1>6. QED
  BY <1>1, <1>2, <1>3, <1>4, <1>5, StepKeeps DEF ProcInv

LEMMA OpenWheelInv ==
  ASSUME CuptiInv, NEW p \in Proc, OpenWheel(p)
  PROVE  CuptiInv'
<1> USE CuptiAssumption DEF CuptiInv, InstallSteps, Places, Handles
<1>1. CuptiTypeOK' /\ DirsInv' /\ DirsGrow
  BY DEF OpenWheel, CuptiTypeOK, DirsInv, DirsGrow, Returns, Dir, Lib
<1>2. Others(p) /\ StaysInstalling(p)
  BY DEF OpenWheel, Others, StaysInstalling, Returns, CuptiTypeOK, RivalsInv
<1>3. HandlesInv(p)'
  BY DEF OpenWheel, HandlesInv, ProcInv, Returns, CuptiTypeOK, DirsInv, Usable, Lib, Opened, Refused
<1>4. InstallInv(p)'
  BY DEF OpenWheel, InstallInv, ProcInv, Returns, CuptiTypeOK, DirsInv, Usable, Lib, Opened, Refused, Searching
<1>5. SparedInv(p)'
  BY DEF OpenWheel, SparedInv, ProcInv, Returns, CuptiTypeOK, DirsInv, Usable, Lib, Opened, Refused, Searching, Dir
<1>6. QED
  BY <1>1, <1>2, <1>3, <1>4, <1>5, StepKeeps DEF ProcInv

LEMMA ExtractInv ==
  ASSUME CuptiInv, NEW p \in Proc, Extract(p)
  PROVE  CuptiInv'
<1> USE CuptiAssumption DEF CuptiInv, InstallSteps, Places, Handles
<1>1. CuptiTypeOK' /\ DirsInv' /\ DirsGrow
  <2>1. looks[p] \in Release /\ looks[p] \in made
    BY DEF Extract, ProcInv, InstallInv
  <2>2. QED
    BY <2>1 DEF Extract, CuptiTypeOK, DirsInv, DirsGrow, Returns, Dir, Lib
<1>2. Others(p) /\ StaysInstalling(p)
  BY DEF Extract, Others, StaysInstalling, Returns, CuptiTypeOK, RivalsInv
<1>3. HandlesInv(p)'
  BY DEF Extract, HandlesInv, ProcInv, Returns, CuptiTypeOK, DirsInv, Usable, Lib, Opened, Refused
<1>4. InstallInv(p)'
  BY DEF Extract, InstallInv, ProcInv, Returns, CuptiTypeOK, DirsInv, Usable, Lib, Opened, Refused, Searching
<1>5. SparedInv(p)'
  BY DEF Extract, SparedInv, ProcInv, Returns, CuptiTypeOK, DirsInv, Usable, Lib, Opened, Refused, Searching, Dir
<1>6. QED
  BY <1>1, <1>2, <1>3, <1>4, <1>5, StepKeeps DEF ProcInv

LEMMA InstallErrorInv ==
  ASSUME CuptiInv, NEW p \in Proc, InstallError(p)
  PROVE  CuptiInv'
<1> USE CuptiAssumption DEF CuptiInv, InstallSteps, Places, Handles
<1>1. CuptiTypeOK' /\ DirsInv' /\ DirsGrow
  <2>1. CuptiTypeOK'
    <3>1. CASE at[p] = "accepted"
      BY <3>1 DEF InstallError, CuptiTypeOK, Returns, Dir
    <3>2. CASE at[p] # "accepted"
      BY <3>2 DEF InstallError, CuptiTypeOK
    <3>3. QED
      BY <3>1, <3>2
  <2>2. UNCHANGED <<lib, made>>
    BY DEF InstallError
  <2>3. QED
    BY <2>1, <2>2 DEF CuptiTypeOK, DirsInv, DirsGrow
<1>2. Others(p) /\ StaysInstalling(p)
  BY DEF InstallError, Others, StaysInstalling, Returns, CuptiTypeOK, RivalsInv
<1>3. HandlesInv(p)'
  BY DEF InstallError, HandlesInv, ProcInv, Returns, CuptiTypeOK, DirsInv, Usable, Lib, Opened, Refused
<1>4. InstallInv(p)'
  BY DEF InstallError, InstallInv, ProcInv, Returns, CuptiTypeOK, DirsInv, Usable, Lib, Opened, Refused, Searching
<1>5. SparedInv(p)'
  BY DEF InstallError, SparedInv, ProcInv, Returns, CuptiTypeOK, DirsInv, Usable, Lib, Opened, Refused, Searching, Dir
<1>6. QED
  BY <1>1, <1>2, <1>3, <1>4, <1>5, StepKeeps DEF ProcInv

LEMMA RemoveWheelInv ==
  ASSUME CuptiInv, NEW p \in Proc, RemoveWheel(p)
  PROVE  CuptiInv'
<1> USE CuptiAssumption DEF CuptiInv, InstallSteps, Places, Handles
<1>1. CuptiTypeOK' /\ DirsInv' /\ DirsGrow
  <2>1. looks[p] \in Release /\ looks[p] \in made
    BY DEF RemoveWheel, ProcInv, InstallInv
  <2>2. {looks[p]} \subseteq Dir /\ wheel' \subseteq made
    BY <2>1 DEF RemoveWheel, CuptiTypeOK, Dir
  <2>3. at' \in [Proc -> Places]
    BY DEF RemoveWheel, CuptiTypeOK, Returns
  <2>4. looks' \in [Proc -> Dir \union {"cache"}]
    BY DEF RemoveWheel, CuptiTypeOK, Returns, Dir
  <2>5. tries' \in [Proc -> SUBSET Dir]
    BY <2>2 DEF RemoveWheel, CuptiTypeOK, Returns
  <2>6. CuptiTypeOK'
    BY <2>2, <2>3, <2>4, <2>5 DEF RemoveWheel, CuptiTypeOK
  <2>7. DirsInv' /\ DirsGrow
    BY DEF RemoveWheel, CuptiTypeOK, DirsInv, DirsGrow
  <2>8. QED
    BY <2>6, <2>7
<1>2. Others(p) /\ StaysInstalling(p)
  BY DEF RemoveWheel, Others, StaysInstalling, Returns, CuptiTypeOK, RivalsInv
<1>3. HandlesInv(p)'
  BY DEF RemoveWheel, HandlesInv, ProcInv, Returns, CuptiTypeOK, DirsInv, Usable, Lib, Opened, Refused
<1>4. InstallInv(p)'
  BY DEF RemoveWheel, InstallInv, ProcInv, Returns, CuptiTypeOK, DirsInv, Usable, Lib, Opened, Refused, Searching
<1>5. SparedInv(p)'
  <2>1. looks[p] \in Release
    BY DEF RemoveWheel, ProcInv, InstallInv
  <2>2. looks'[p] \notin {"system", "cache"} \/ at'[p] = "failed"
    BY <2>1 DEF RemoveWheel, CuptiTypeOK, Returns
  <2>3. at'[p] \in {"search", "failed"}
    BY DEF RemoveWheel, CuptiTypeOK, Returns
  <2>4. QED
    BY <2>2, <2>3 DEF SparedInv, Searching
<1>6. QED
  BY <1>1, <1>2, <1>3, <1>4, <1>5, StepKeeps DEF ProcInv

LEMMA AcceptInv ==
  ASSUME CuptiInv, NEW p \in Proc, Accept(p)
  PROVE  CuptiInv'
<1> USE CuptiAssumption DEF CuptiInv, InstallSteps, Places, Handles
<1>1. looks[p] \in Release /\ looks' = looks /\ at'[p] = "accepted"
  BY DEF Accept, ProcInv, InstallInv, CuptiTypeOK
<1>2. CuptiTypeOK' /\ DirsInv' /\ DirsGrow
  BY <1>1 DEF Accept, WithRivals, Installing, CuptiTypeOK, DirsInv, DirsGrow
<1>3. Others(p) /\ (\A q \in Proc : q \in excused => q \in excused')
  BY DEF Accept, Others, WithRivals, CuptiTypeOK
<1>4. \A q \in Proc \ {p} : at[q] \in InstallSteps /\ looks[q] = looks[p]
        => q \in excused' /\ p \in excused'
  BY DEF Accept, WithRivals, Installing
<1>5. RivalsInv'
  BY <1>1, <1>3, <1>4 DEF RivalsInv, Others
<1>6. HandlesInv(p)'
  BY <1>1 DEF Accept, ProcInv, HandlesInv
<1>7. InstallInv(p)'
  BY <1>1 DEF Accept, ProcInv, InstallInv, Searching
<1>8. SparedInv(p)'
  BY <1>1 DEF Accept, ProcInv, SparedInv
<1>9. QED
  BY <1>2, <1>3, <1>5, <1>6, <1>7, <1>8, OthersKept DEF ProcInv

LEMMA CuptiStepInv ==
  ASSUME CuptiInv, NEW p \in Proc, CuptiStep(p)
  PROVE  CuptiInv'
BY BeginLoadInv, OpenHostInv, OpenTargetInv, ProbedInv, NextDirInv, GlobCacheInv, PromptInv,
   GiveUpInv, InstalledInVainInv, AcceptInv, DownloadInv, OpenWheelInv, ExtractInv,
   InstallErrorInv, RemoveWheelInv
   DEF CuptiStep

LEMMA CuptiEndsInv ==
  ASSUME CuptiInv, NEW p \in Proc, CuptiEnds(p)
  PROVE  CuptiInv'
<1> USE CuptiAssumption DEF CuptiInv, InstallSteps, Places, Handles
<1>1. CuptiTypeOK' /\ DirsInv' /\ DirsGrow
  BY DEF CuptiEnds, CuptiTypeOK, DirsInv, DirsGrow, Returns, Dir
<1>2. Others(p) /\ StaysInstalling(p)
  BY DEF CuptiEnds, Others, StaysInstalling, Returns, CuptiTypeOK
<1>3. /\ at'[p] = "start" /\ looks'[p] = "system" /\ handles'[p] = {} /\ p \notin spared'
  BY DEF CuptiEnds, Returns, CuptiTypeOK
<1>4. ProcInv(p)'
  BY <1>3 DEF ProcInv, HandlesInv, InstallInv, SparedInv, Searching
<1>5. QED
  BY <1>1, <1>2, <1>4, StepKeeps

LEMMA PublishInv ==
  ASSUME CuptiInv, Publish
  PROVE  CuptiInv'
<1> USE CuptiAssumption DEF CuptiInv
<1>1. latest' \in DOMAIN Version
  BY DEF Publish, CuptiTypeOK
<1>2. QED
  BY <1>1 DEF Publish, CuptiTypeOK, DirsInv, ProcInv, HandlesInv, InstallInv, SparedInv,
     RivalsInv, Usable

LEMMA CuptiInitInv == CuptiInit => CuptiInv
<1> SUFFICES ASSUME CuptiInit PROVE CuptiInv
  OBVIOUS
<1> USE CuptiAssumption DEF CuptiInit, Dir, Lib, InstallSteps, Places, Handles
<1>1. 1 \in DOMAIN Version
  OBVIOUS
<1>2. PICK s \in SystemLibs :
        lib = [d \in Dir |-> IF d = "system" THEN s ELSE [l \in Lib |-> "absent"]]
  OBVIOUS
<1>3. s \in [Lib -> {"absent", "stub", "whole"}] /\ s["target"] # "stub"
  OBVIOUS
<1>4. CuptiTypeOK /\ DirsInv
  <2>1. lib \in [Dir -> [Lib -> {"absent", "stub", "whole"}]]
    BY <1>2, <1>3
  <2>2. at \in [Proc -> Places]
    OBVIOUS
  <2>3. looks \in [Proc -> Dir \union {"cache"}]
    OBVIOUS
  <2>4. tries \in [Proc -> SUBSET Dir] /\ handles \in [Proc -> SUBSET Handles]
    OBVIOUS
  <2>5. CuptiTypeOK
    BY <1>1, <2>1, <2>2, <2>3, <2>4 DEF CuptiTypeOK
  <2>6. DirsInv
    BY <1>2, <1>3 DEF DirsInv
  <2>7. QED
    BY <2>5, <2>6
<1>5. ASSUME NEW p \in Proc PROVE ProcInv(p)
  BY DEF ProcInv, HandlesInv, InstallInv, SparedInv, Searching
<1>6. RivalsInv
  BY DEF RivalsInv
<1>7. QED
  BY <1>4, <1>5, <1>6 DEF CuptiInv

LEMMA CuptiUnchanged == CuptiInv /\ UNCHANGED cuptiVars => CuptiInv'
BY DEF CuptiInv, cuptiVars, CuptiTypeOK, DirsInv, ProcInv, HandlesInv, InstallInv, SparedInv,
   RivalsInv, Usable

LEMMA ConfigUnchanged == ConfigInv /\ UNCHANGED configVars => ConfigInv'
BY DEF ConfigInv, configVars, ConfigTypeOK, Saving, Savers

(***************************************************************************)
(* All of it together.                                                     *)
(***************************************************************************)
IInv == ConfigInv /\ CuptiInv /\ OwnerInv

LEMMA InitIInv == Init => IInv
BY ConfigInitInv, CuptiInitInv, OwnerInit DEF Init, IInv

LEMMA NextIInv == IInv /\ [Next]_vars => IInv'
<1> SUFFICES ASSUME IInv, [Next]_vars PROVE IInv'
  OBVIOUS
<1>1. OwnerInv'
  BY OwnerNext DEF IInv
<1>2. ConfigInv'
  <2>1. ASSUME NEW p \in Proc, Step(p) PROVE ConfigInv'
    <3>1. LoadStep(p) \/ ConfigEnds(p) \/ UNCHANGED configVars
      BY <2>1 DEF Step, Configure, Dispatch, Connect, StreamEnds, LoadCupti, CannotCollect,
         NewCollector, NewReporter, Listen, Stop, Unlisten, CloseCollector, Fails, Exit
    <3>2. QED
      BY <3>1, LoadStepInv, ConfigEndsInv, ConfigUnchanged DEF IInv
  <2>2. QED
    BY <2>1, ConfigUnchanged DEF IInv, Next, vars
<1>3. CuptiInv'
  <2>1. ASSUME NEW p \in Proc, Step(p) PROVE CuptiInv'
    <3>1. CuptiStep(p) \/ CuptiEnds(p) \/ UNCHANGED cuptiVars
      BY <2>1 DEF Step, Configure, Dispatch, Connect, StreamEnds, LoadCupti, CannotCollect,
         NewCollector, NewReporter, Listen, Stop, Unlisten, CloseCollector, Fails, Exit
    <3>2. QED
      BY <3>1, CuptiStepInv, CuptiEndsInv, CuptiUnchanged DEF IInv
  <2>2. QED
    BY <2>1, PublishInv, CuptiUnchanged DEF IInv, Next, vars
<1>4. QED
  BY <1>1, <1>2, <1>3 DEF IInv

LEMMA Inductive == Spec => []IInv
BY InitIInv, NextIInv, PTL DEF Spec

(* Every variable stays in its type. *)
THEOREM TypeCorrect == Spec => []TypeOK
<1>1. IInv => TypeOK
  BY DEF IInv, ConfigInv, CuptiInv, OwnerInv, TypeOK
<1>2. QED
  BY <1>1, Inductive, PTL

(* A start whose Load no other save overlapped has the ID in the file, and *)
(* no later start changes it, except one whose ReadFile fails              *)
(* (config.Load, Config.Save).                                             *)
THEOREM KeepsIdentity == Spec => []IdentitySticks
<1>1. IInv => IdentitySticks
  BY DEF IInv, ConfigInv, IdentitySticks
<1>2. QED
  BY <1>1, Inductive, PTL

(* Whoever has loaded CUPTI has both libraries of one whole directory and  *)
(* nothing else open (loadFromDir).                                        *)
THEOREM LoadsOneLibrary == Spec => []OneLibrary
<1>1. IInv => OneLibrary
  BY DEF IInv, CuptiInv, ProcInv, HandlesInv, OneLibrary
<1>2. QED
  BY <1>1, Inductive, PTL

(* Nobody is asked to install what is there, and an install fails only by  *)
(* an error of its own or a rival (load, installWheel).                    *)
THEOREM InstallsOnce == Spec => []InstallsLast
<1>1. IInv => InstallsLast
  BY DEF IInv, CuptiInv, CuptiTypeOK, ProcInv, InstallInv, SparedInv, InstallsLast, PromptsOnce,
     LeftoversHarmless
<1>2. QED
  BY <1>1, Inductive, PTL

(* Whoever listens on the port has the GPU until it stops (runServer,      *)
(* runLocal).                                                              *)
THEOREM ListenersCollect == Spec => []ListenerCollects
<1>1. IInv => ListenerCollects
  BY ProcAssumption DEF IInv, OwnerInv, HoldsGPU, ListenerCollects
<1>2. QED
  BY <1>1, Inductive, PTL
=============================================================================
