----------------------------- MODULE Selection -----------------------------
(***************************************************************************)
(* VFS files are created and selected by several processes at once           *)
(* (engine.py:200-272, config.py).  The selection of a process is a context     *)
(* variable; the last one persisted is also in selection.json, which a process  *)
(* reads when it has none of its own.                                         *)
(***************************************************************************)
EXTENDS Naturals

CONSTANTS Procs,    \* processes
          Users,    \* those among them that create and select VFS files
          VFSs,     \* vfs_file names, each with its directory and folder
          None,
          MaxUses   \* bound: files each process creates and selects, and its crashes

ASSUME SelectionConstantsOK ==
    Users \subseteq Procs /\ None \notin Procs \cup VFSs /\ MaxUses \in [Users -> Nat]

VARIABLES
    store,          \* the file of each VFS: its state and who created it
    selectionFile,  \* selection.json
    chosen,         \* _SELECTED of each process
    making,         \* what each process is doing: a step of make_vfs or select_vfs
    uses            \* how often each has done so

selectionVars == <<store, selectionFile, chosen, making, uses>>

Absent == [state |-> "absent", by |-> None]

SelectionInit ==
    /\ store = [v \in VFSs |-> Absent]
    /\ selectionFile = None
    /\ chosen = [p \in Procs |-> None]
    /\ making = [p \in Procs |-> None]
    /\ uses = [p \in Users |-> 0]

IsAt(p, step) == making[p] # None /\ making[p].step = step
Goto(p, step, v) == making' = [making EXCEPT ![p] = [step |-> step, vfs |-> v]]
Leave(p) == making' = [making EXCEPT ![p] = None]
CountUse(p) == uses[p] < MaxUses[p] /\ uses' = [uses EXCEPT ![p] = @ + 1]
Put(v, state, p) == store' = [store EXCEPT ![v] = [state |-> state, by |-> p]]

(***************************************************************************)
(* make_vfs.                                                               *)
(***************************************************************************)
\* An existing file is refused before anything is done.
MakeVFS(p, v) ==
    /\ making[p] = None /\ store[v] = Absent
    /\ Goto(p, "link", v) /\ CountUse(p)
    /\ UNCHANGED <<store, selectionFile, chosen>>

\* The temporary file becomes the VFS under its second name, unless that exists by now
\* or the file system has no links; when the first name cannot be removed, the code
\* goes on as if there were no link.
Link(p) == /\ IsAt(p, "link")
           /\ LET v == making[p].vfs IN
                \/ /\ store[v] = Absent /\ Put(v, "whole", p)
                   /\ Goto(p, "persist", v) \/ Goto(p, "exclusive", v)
                \/ UNCHANGED store /\ Goto(p, "exclusive", v)
           /\ UNCHANGED <<selectionFile, chosen, uses>>

\* Faulty variant: mode "wb".
OpensAny(v) == TRUE
\* Mode "xb" creates the file or fails.
OpensNew(v) == store[v] = Absent

Exclusive(p) ==
    /\ IsAt(p, "exclusive")
    /\ LET v == making[p].vfs IN
         IF OpensNew(v) THEN Put(v, "partial", p) /\ Goto(p, "write", v)
                        ELSE Leave(p) /\ UNCHANGED store
    /\ UNCHANGED <<selectionFile, chosen, uses>>

\* A write that fails leaves the file as it is.
Write(p) == /\ IsAt(p, "write")
            /\ LET v == making[p].vfs IN
                 \/ Put(v, "whole", p) /\ Goto(p, "persist", v)
                 \/ UNCHANGED store /\ Leave(p)
            /\ UNCHANGED <<selectionFile, chosen, uses>>

(***************************************************************************)
(* select_vfs, persist_selection, open_vfs, selected.                        *)
(***************************************************************************)
\* Faulty variant: it is enough that there is a file.
ExistsOnly(v) == store[v] # Absent
\* The file must be there, with the directory and folder named, and parse.
Readable(v) == store[v].state = "whole"

SelectVFS(p, v) ==
    /\ making[p] = None /\ Readable(v)
    /\ Goto(p, "persist", v) /\ CountUse(p)
    /\ UNCHANGED <<store, selectionFile, chosen>>

\* The context variable is set first; the file may fail to be replaced.
Selects(p, v) == /\ chosen' = [chosen EXCEPT ![p] = v]
                 /\ selectionFile' \in {v, selectionFile}

Persist(p) == /\ IsAt(p, "persist")
              /\ Selects(p, making[p].vfs) /\ Leave(p)
              /\ UNCHANGED <<store, uses>>

\* The VFS a call of p works on.
Selected(p) == IF chosen[p] # None THEN chosen[p] ELSE selectionFile

\* p dies, and starts anew.
Crash(p) == /\ Leave(p) /\ CountUse(p)
            /\ chosen' = [chosen EXCEPT ![p] = None]
            /\ UNCHANGED <<store, selectionFile>>

Use(p) == \/ \E v \in VFSs : MakeVFS(p, v) \/ SelectVFS(p, v)
          \/ Link(p) \/ Exclusive(p) \/ Write(p) \/ Persist(p)

-----------------------------------------------------------------------------
(***************************************************************************)
(* Properties.                                                             *)
(***************************************************************************)
SelectionTypeOK ==
    /\ store \in [VFSs -> [state : {"absent", "partial", "whole"}, by : Users \cup {None}]]
    /\ selectionFile \in VFSs \cup {None}
    /\ chosen \in [Procs -> VFSs \cup {None}]
    /\ making \in [Procs -> {None} \cup
                     [step : {"link", "exclusive", "write", "persist"}, vfs : VFSs]]

\* What is selected, in a process or for the ones to come, can be opened, also while
\* other processes are creating files and after some have died doing so
\* (engine.py:224-258, config.py:31-54).
Whole(v) == store[v].state = "whole"
SelectionUsable ==
    /\ selectionFile # None => Whole(selectionFile)
    /\ \A p \in Procs : chosen[p] # None => Whole(chosen[p])

\* A file stays the one of the process that created it, however many create it at once:
\* "O_EXCL fallback preserves the no-overwrite guarantee" (engine.py:229-236).
NeverOverwritten ==
    [][\A v \in VFSs : store[v] # Absent =>
          /\ store'[v].by = store[v].by
          /\ Whole(v) => Whole(v)']_selectionVars

\* The files and the selections of all processes: both, whoever creates, selects and
\* dies.
FilesStand == []SelectionUsable /\ NeverOverwritten
=============================================================================
