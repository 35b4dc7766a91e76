------------------------------ MODULE WalletFiles ------------------------------
(***************************************************************************)
(* The wallet files and the selected-wallet setting, as the wallet         *)
(* commands of the CLI use them: Wallet::save() and load_wallet()          *)
(* (src/wallet/wallet_file.cpp), select_wallet() and selected_wallet()     *)
(* (src/app/wallet_selection.cpp), create_wallet(), select_wallet_file()   *)
(* and show_wallet_address() (src/app/application.cpp).  A command is a    *)
(* process that works in steps on the file system; a step may fail, and    *)
(* the process may be killed between two steps.                            *)
(*                                                                         *)
(* The key a process creates is named by the process.  A file is absent,   *)
(* truncated ("empty"), cut off by a failed write ("part") or "whole".     *)
(* What is left of a setting that was cut off is itself read as a path.    *)
(***************************************************************************)
CONSTANTS Procs,     \* the commands that are run
          Paths,     \* the file names they are given
          Prefixes,  \* path -> the paths that are spelled by a beginning of it
          None

Sizes == {"empty", "part", "whole"}

(* What a wallet file holds, and how much of it.                           *)
Contents == [key : Procs \cup {None}, size : Sizes]

(* The bytes of the setting file, by the path they spell (None: no path of *)
(* these); "whole" is a path with its newline.                             *)
Settings == [path : Paths \cup {None}, size : Sizes]

ASSUME WalletAssumption ==
    /\ Prefixes \in [Paths -> SUBSET Paths]
    /\ None \notin Contents \cup Settings \cup Paths \cup Procs

VARIABLES wallet,     \* path -> None or the file: whose key it holds and how much of it
          selection,  \* None or the setting file
          pc,         \* process -> its step
          order,      \* process -> None or [command, path]
          created,    \* the processes that reported "Wallet created"
          told,       \* process -> the key it created or loaded, or None
          overlap     \* a command was started while another one ran

vars == << wallet, selection, pc, order, created, told, overlap >>

Commands == {"create", "create and load", "select", "address"}
Ended == {"done", "failed", "killed"}

Init ==
    /\ wallet = [w \in Paths |-> None]
    /\ selection = None
    /\ pc = [p \in Procs |-> "new"]
    /\ order = [p \in Procs |-> None]
    /\ created = {}
    /\ told = [p \in Procs |-> None]
    /\ overlap = FALSE

Goto(p, step) == pc' = [pc EXCEPT ![p] = step]
Path(p) == order[p].path
Fails(p) == Goto(p, "failed")

(* Mutant: select does not open the wallet first.                          *)
BeginUnopened(p) ==
    /\ pc[p] = "new"
    /\ overlap' = (overlap \/ \E q \in Procs : pc[q] \notin Ended \cup {"new"})
    /\ \E c \in Commands, w \in Paths :
          /\ order' = [order EXCEPT ![p] = [command |-> c, path |-> w]]
          /\ Goto(p, IF c = "select" THEN "choose" ELSE "exists")
    /\ UNCHANGED << wallet, selection, created, told >>

(* The command line is parsed and the password read.                       *)
Begin(p) ==
    /\ pc[p] = "new"
    /\ overlap' = (overlap \/ \E q \in Procs : pc[q] \notin Ended \cup {"new"})
    /\ \E c \in Commands, w \in Paths :
          /\ order' = [order EXCEPT ![p] = [command |-> c, path |-> w]]
          /\ Goto(p, CASE c = "select"  -> "load"
                       [] c = "address" -> "resolve"
                       [] OTHER         -> "exists")
    /\ UNCHANGED << wallet, selection, created, told >>

(* Mutant: the file may exist.                                             *)
ExistsIgnored(p) ==
    /\ pc[p] = "exists"
    /\ Goto(p, "open")
    /\ UNCHANGED << wallet, selection, order, created, told, overlap >>

(* save(): exists(path), the derivation of the key and the encryption      *)
Exists(p) ==
    /\ pc[p] = "exists"
    /\ \/ wallet[Path(p)] = None /\ Goto(p, "open")
       \/ Fails(p)
    /\ UNCHANGED << wallet, selection, order, created, told, overlap >>

(* ofstream(path, trunc) creates the file or empties the one that is there. *)
Open(p) ==
    /\ pc[p] = "open"
    /\ \/ /\ wallet' = [wallet EXCEPT ![Path(p)] = [key |-> None, size |-> "empty"]]
          /\ Goto(p, "write")
       \/ Fails(p) /\ UNCHANGED wallet
    /\ UNCHANGED << selection, order, created, told, overlap >>

(* The buffered bytes reach the file with flush().  Another process may    *)
(* have removed the name meanwhile: then they reach a file without a name. *)
Write(p) ==
    /\ pc[p] = "write"
    /\ \E s \in {"empty", "part", "whole"} :
          /\ wallet' = IF wallet[Path(p)] = None \/ s = "empty" THEN wallet
                       ELSE [wallet EXCEPT ![Path(p)] = [key |-> p, size |-> s]]
          /\ Goto(p, IF s = "whole" THEN "report" ELSE "remove")
    /\ UNCHANGED << selection, order, created, told, overlap >>

Remove(p) ==
    /\ pc[p] = "remove"
    /\ wallet' \in {wallet, [wallet EXCEPT ![Path(p)] = None]}
    /\ Fails(p)
    /\ UNCHANGED << selection, order, created, told, overlap >>

(* create_wallet() prints the new address; --load goes on to select it.    *)
Report(p) ==
    /\ pc[p] = "report"
    /\ created' = created \cup {p}
    /\ told' = [told EXCEPT ![p] = p]
    /\ Goto(p, IF order[p].command = "create" THEN "done" ELSE "choose")
    /\ UNCHANGED << wallet, selection, order, overlap >>

(* load_wallet(): the size must be right and the key must authenticate.    *)
Load(p) ==
    /\ pc[p] = "load"
    /\ \/ /\ wallet[Path(p)] # None
          /\ wallet[Path(p)].size = "whole"
          /\ told' = [told EXCEPT ![p] = wallet[Path(p)].key]
          /\ Goto(p, IF order[p].command = "select" THEN "choose" ELSE "done")
       \/ Fails(p) /\ UNCHANGED told
    /\ UNCHANGED << wallet, selection, order, created, overlap >>

(* select_wallet(): is_regular_file(), then the directory is created.      *)
Choose(p) ==
    /\ pc[p] = "choose"
    /\ \/ wallet[Path(p)] # None /\ Goto(p, "truncate")
       \/ Fails(p)
    /\ UNCHANGED << wallet, selection, order, created, told, overlap >>

Truncate(p) ==
    /\ pc[p] = "truncate"
    /\ \/ selection' = [path |-> None, size |-> "empty"] /\ Goto(p, "store")
       \/ Fails(p) /\ UNCHANGED selection
    /\ UNCHANGED << wallet, order, created, told, overlap >>

(* What a write of path w leaves in the setting.  One that fails leaves a  *)
(* beginning of the path, or all of it without the newline.  Another       *)
(* command may have written since the truncation: then the rest of its     *)
(* bytes stay behind the new ones.                                         *)
Written(w) ==
    IF selection.size = "empty" THEN {w} ELSE {w, None}
CutOff(w) ==
    IF selection.size = "empty" THEN Prefixes[w] \cup {w, None}
    ELSE Paths \cup {None}

Store(p) ==
    /\ pc[p] = "store"
    /\ \/ \E w \in Written(Path(p)) :
             /\ selection' = [path |-> w, size |-> "whole"]
             /\ Goto(p, "confirm")
       \/ \E w \in CutOff(Path(p)) :
             /\ selection' = [path |-> w, size |-> "part"]
             /\ Fails(p)
       \/ Fails(p) /\ UNCHANGED selection
    /\ UNCHANGED << wallet, order, created, told, overlap >>

(* selected_wallet(): None when the setting is missing, empty or names no  *)
(* file.  The newline may be missing.                                      *)
Selected ==
    IF selection = None \/ selection.path = None THEN None
    ELSE IF wallet[selection.path] = None THEN None
    ELSE selection.path

Confirm(p) ==
    /\ pc[p] = "confirm"
    /\ Goto(p, IF Selected = None THEN "failed" ELSE "done")
    /\ UNCHANGED << wallet, selection, order, created, told, overlap >>

(* resolve_wallet_path() without --file                                    *)
Resolve(p) ==
    /\ pc[p] = "resolve"
    /\ \/ /\ Selected # None
          /\ order' = [order EXCEPT ![p].path = Selected]
          /\ Goto(p, "load")
       \/ Fails(p) /\ UNCHANGED order
    /\ UNCHANGED << wallet, selection, created, told, overlap >>

Kill(p) ==
    /\ pc[p] \notin Ended \cup {"new"}
    /\ Goto(p, "killed")
    /\ UNCHANGED << wallet, selection, order, created, told, overlap >>

Next ==
    \E p \in Procs :
        \/ Begin(p) \/ Exists(p) \/ Open(p) \/ Write(p) \/ Remove(p) \/ Report(p)
        \/ Load(p) \/ Choose(p) \/ Truncate(p) \/ Store(p) \/ Confirm(p)
        \/ Resolve(p) \/ Kill(p)

Spec == Init /\ [][Next]_vars

--------------------------------------------------------------------------------
Whole(w) == wallet[w] # None /\ wallet[w].size = "whole"

(* While one command runs at a time, a wallet that was reported as created *)
(* is in its file, with the key whose address was printed, from then on,   *)
(* whatever later commands on the same path do and wherever they are       *)
(* killed.                                                                 *)
CreatedStays ==
    ~overlap => \A p \in created : Whole(Path(p)) /\ wallet[Path(p)].key = p

(* Command p has written the setting, for the key it created or loaded.    *)
Selector(p) ==
    /\ pc[p] \in Ended \cup {"confirm"}
    /\ order[p].command \in {"select", "create and load"}
    /\ Path(p) = selection.path
    /\ told[p] = wallet[selection.path].key

Complete == selection # None /\ selection.size = "whole"

(* Likewise a setting that was written to its end names a whole wallet,    *)
(* with the key that the command which wrote it had created or loaded: no  *)
(* kill, failed write or later command damages it under the selection.  Of *)
(* a setting whose write failed this is not so: selected_wallet() takes a  *)
(* beginning of the path for a path.                                       *)
SelectionUsable ==
    ~overlap /\ Complete =>
        Whole(selection.path) /\ \E p \in Procs : Selector(p)
================================================================================
