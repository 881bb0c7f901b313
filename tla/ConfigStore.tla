------------------------------ MODULE ConfigStore ------------------------------
(***************************************************************************)
(* The client ID every start of utlz loads from ~/.systalyze/utlz.json,    *)
(* and makes and saves when it finds none: config.Load and Config.Save.    *)
(* Several starts share the file, nothing locks it, and it is written in   *)
(* place.  A start makes at most one random ID, so the process stands for  *)
(* it.                                                                     *)
(***************************************************************************)
CONSTANT Proc    \* starts of utlz that share one home directory

VARIABLES
  file,        \* what utlz.json holds: no file, no JSON, no ID in it, or an ID
  loading,     \* where each process stands in Load
  found,       \* what its ReadFile saw, while it saves: JSON without an ID, or not
  clientID,    \* the ID it goes on with; "fallback" is never saved
  sole         \* history: whose Load no other save overlapped, whose save did
               \*   not fail, and after whom nobody's ReadFile failed

Contents == {"absent", "garbled", "no id"} \union Proc
ClientIDs == {"none", "fallback"} \union Proc

ConfigInit ==
  /\ file \in {"absent", "no id"}
  /\ loading = [p \in Proc |-> "start"]
  /\ found = [p \in Proc |-> "nothing"]
  /\ clientID = [p \in Proc |-> "none"]
  /\ sole = Proc

ConfigTypeOK ==
  /\ file \in Contents
  /\ loading \in [Proc -> {"start", "open", "write", "done"}]
  /\ found \in [Proc -> {"nothing", "no id"}]
  /\ clientID \in [Proc -> ClientIDs]
  /\ sole \subseteq Proc

HoldsID(contents) == contents \notin {"absent", "garbled", "no id"}
Saving(p) == loading[p] \in {"open", "write"}
Savers == {p \in Proc : Saving(p)}
Loaded == {p \in Proc : loading[p] = "done"}
-----------------------------------------------------------------------------
\* No home directory: the ID comes from the machine, and is not saved.
NoHome(p) ==
  /\ loading[p] = "start"
  /\ clientID' = [clientID EXCEPT ![p] = "fallback"]
  /\ loading' = [loading EXCEPT ![p] = "done"]
  /\ sole' = sole \ {p}
  /\ UNCHANGED <<file, found>>

\* Mutant: an ID that is there is replaced by one of its own.
ReadsID_SavesAgain(p) ==
  /\ loading[p] = "start"
  /\ HoldsID(file)
  /\ clientID' = [clientID EXCEPT ![p] = p]
  /\ loading' = [loading EXCEPT ![p] = "open"]
  /\ UNCHANGED <<file, found, sole>>

\* The file holds an ID.  A save that is under way may still replace it.
ReadsID(p) ==
  /\ loading[p] = "start"
  /\ HoldsID(file)
  /\ clientID' = [clientID EXCEPT ![p] = file]
  /\ loading' = [loading EXCEPT ![p] = "done"]
  /\ sole' = IF Savers = {} THEN sole ELSE sole \ {p}
  /\ UNCHANGED <<file, found>>

\* A new ID is made, and is to be saved over what the victims loaded.  Whoever
\* saves at the same time is no longer alone.
NewID(p, seen, victims) ==
  /\ loading[p] = "start"
  /\ found' = [found EXCEPT ![p] = seen]
  /\ clientID' = [clientID EXCEPT ![p] = p]
  /\ loading' = [loading EXCEPT ![p] = "open"]
  /\ sole' = (IF Savers = {} THEN sole ELSE sole \ (Savers \union {p})) \ victims
  /\ UNCHANGED file

\* No file, one that does not parse, or one without an ID.
MakesID(p) ==
  /\ ~ HoldsID(file)
  /\ NewID(p, IF file = "no id" THEN "no id" ELSE "nothing", {})

\* ReadFile fails, whatever the file holds: Load goes on as if there were none.
ReadFails(p) == NewID(p, "nothing", Loaded)

\* Save makes the directory and opens the file, which truncates it.
SaveOpens(p) ==
  /\ loading[p] = "open"
  /\ file' = "garbled"
  /\ loading' = [loading EXCEPT ![p] = "write"]
  /\ UNCHANGED <<found, clientID, sole>>

SaveWrites(p) ==
  /\ loading[p] = "write"
  /\ file' = clientID[p]
  /\ found' = [found EXCEPT ![p] = "nothing"]
  /\ loading' = [loading EXCEPT ![p] = "done"]
  /\ UNCHANGED <<clientID, sole>>

\* MkdirAll, the open or the write fails.  Load keeps the new ID when the file
\* lacked only the ID, and falls back to the machine's otherwise.
SaveFails(p) ==
  /\ Saving(p)
  /\ clientID' = [clientID EXCEPT ![p] = IF found[p] = "no id" THEN @ ELSE "fallback"]
  /\ loading' = [loading EXCEPT ![p] = "done"]
  /\ sole' = sole \ {p}
  /\ found' = [found EXCEPT ![p] = "nothing"]
  /\ UNCHANGED file

LoadStep(p) ==
  \/ NoHome(p)
  \/ ReadsID(p)
  \/ MakesID(p)
  \/ ReadFails(p)
  \/ SaveOpens(p)
  \/ SaveWrites(p)
  \/ SaveFails(p)

\* A process that ends leaves the file as it is, and may start again.
ConfigEnds(p) ==
  /\ loading' = [loading EXCEPT ![p] = "start"]
  /\ found' = [found EXCEPT ![p] = "nothing"]
  /\ clientID' = [clientID EXCEPT ![p] = "none"]
  /\ sole' = sole \union {p}
  /\ UNCHANGED file
-----------------------------------------------------------------------------
\* Load returns the ID the file holds, and no later start of utlz, crash or
\* failing save changes it, unless that start could not read the file: the
\* machine keeps its identity.  Only a start that overlapped another's save, or
\* whose own save failed, may go on with an ID of its own (config.Load,
\* Config.Save).
IdentitySticks == \A p \in sole :
  loading[p] = "done" => clientID[p] = file
=============================================================================
