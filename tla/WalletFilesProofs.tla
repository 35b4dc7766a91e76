--------------------------- MODULE WalletFilesProofs ---------------------------
(***************************************************************************)
(* Proofs about module WalletFiles, for any number of commands and paths.  *)
(***************************************************************************)
EXTENDS WalletFiles, TLAPS

Steps == {"new", "exists", "open", "write", "remove", "report", "load", "choose",
          "truncate", "store", "confirm", "resolve"} \cup Ended

Active(p) == pc[p] \notin Ended \cup {"new"}

TypeInv ==
    /\ wallet \in [Paths -> Contents \cup {None}]
    /\ pc \in [Procs -> Steps]
    /\ order = [p \in Procs |-> order[p]]
    /\ told = [p \in Procs |-> told[p]]
    /\ overlap \in BOOLEAN

Selects(p) == order[p].command \in {"select", "create and load"}
Creates(p) == order[p].command \in {"create", "create and load"}

(* What a command relies on at its step, and what is left of it when it    *)
(* has reported a new wallet.                                              *)
StepInv(p) ==
    /\ pc[p] # "new" => Path(p) \in Paths /\ order[p] \in [command : Commands, path : Paths]
    /\ pc[p] \in {"exists", "open", "write", "remove", "report"} => Creates(p)
    /\ pc[p] = "open" => wallet[Path(p)] = None
    /\ pc[p] \in {"write", "remove"} =>
         wallet[Path(p)] # None /\ wallet[Path(p)].size # "whole"
    /\ pc[p] = "report" => Whole(Path(p)) /\ wallet[Path(p)].key = p
    /\ pc[p] \in {"choose", "truncate", "store"} =>
         Whole(Path(p)) /\ wallet[Path(p)].key = told[p] /\ Selects(p)
    /\ pc[p] = "store" => selection # None /\ selection.size = "empty"
    /\ p \in created =>
         /\ pc[p] \in {"choose", "truncate", "store", "confirm"} \cup Ended
         /\ Whole(Path(p)) /\ wallet[Path(p)].key = p

SettingHolds ==
    /\ selection.path \in Paths /\ Whole(selection.path)
    /\ \E p \in Procs : Selector(p)

(* One command at a time, each at a step that it may be at.                *)
Alone ==
    /\ \A p, q \in Procs : Active(p) /\ Active(q) => p = q
    /\ \A p \in Procs : StepInv(p)
    /\ created \subseteq Procs
    /\ selection \in Settings \cup {None}
    /\ Complete => SettingHolds

FileInv == TypeInv /\ (~overlap => Alone)

(* No command has been run.                                                *)
LEMMA FileInit == Init => FileInv
BY WalletAssumption DEF Init, FileInv, TypeInv, Alone, StepInv, Active, Steps, Ended, Path, Complete

(* Every step leaves functions of the same domains.                        *)
LEMMA TypeStep ==
  ASSUME TypeInv, NEW p \in Procs,
         \/ Begin(p) \/ Exists(p) \/ Open(p) \/ Write(p) \/ Remove(p) \/ Report(p)
         \/ Load(p) \/ Choose(p) \/ Truncate(p) \/ Store(p) \/ Confirm(p)
         \/ Resolve(p) \/ Kill(p)
  PROVE  TypeInv'
<1>1. CASE Begin(p) \/ Exists(p) \/ Report(p) \/ Load(p) \/ Choose(p) \/ Truncate(p)
           \/ Store(p) \/ Confirm(p) \/ Resolve(p) \/ Kill(p)
  <2>1. UNCHANGED wallet
    BY <1>1 DEF Begin, Exists, Report, Load, Choose, Truncate, Store, Confirm, Resolve, Kill
  <2>2. pc' \in [Procs -> Steps]
    BY <1>1 DEF TypeInv, Goto, Fails, Steps, Ended,
       Begin, Exists, Report, Load, Choose, Truncate, Store, Confirm, Resolve, Kill
  <2>3. order' = [q \in Procs |-> order'[q]] /\ overlap' \in BOOLEAN
    BY <1>1 DEF TypeInv,
       Begin, Exists, Report, Load, Choose, Truncate, Store, Confirm, Resolve, Kill
  <2>4. told' = [q \in Procs |-> told'[q]]
    BY <1>1 DEF TypeInv,
       Begin, Exists, Report, Load, Choose, Truncate, Store, Confirm, Resolve, Kill
  <2> QED
    BY <2>1, <2>2, <2>3, <2>4 DEF TypeInv
<1>2. CASE Open(p) \/ Write(p) \/ Remove(p)
  <2>1. wallet' \in [Paths -> Contents \cup {None}]
    BY <1>2 DEF TypeInv, Contents, Sizes, Open, Write, Remove
  <2>2. pc' \in [Procs -> Steps]
    BY <1>2 DEF TypeInv, Goto, Fails, Steps, Ended, Open, Write, Remove
  <2> QED
    BY <1>2, <2>1, <2>2 DEF TypeInv, Open, Write, Remove
<1> QED
  BY <1>1, <1>2

(* The command that wrote the setting stays the one that did.              *)
LEMMA SelectorKept ==
  ASSUME NEW q \in Procs, Selector(q), UNCHANGED selection,
         order'[q] = order[q], told'[q] = told[q], pc'[q] \in Ended \cup {"confirm"},
         wallet'[selection.path] = wallet[selection.path]
  PROVE  Selector(q)'
BY DEF Selector, Path

(* A command is started: alone, or overlap is set.                         *)
LEMMA AloneBegin ==
  ASSUME FileInv, NEW p \in Procs, Begin(p), ~overlap'
  PROVE  Alone'
<1>1. /\ ~overlap /\ Alone /\ TypeInv
      /\ \A q \in Procs : ~Active(q)
      /\ UNCHANGED << wallet, selection, created, told >>
      /\ p \notin created
  BY DEF FileInv, TypeInv, Begin, Active, Alone, StepInv, Ended
<1>2. PICK c \in Commands, w \in Paths :
         /\ order' = [order EXCEPT ![p] = [command |-> c, path |-> w]]
         /\ pc'[p] \in {"load", "resolve", "exists"}
         /\ pc'[p] = "exists" => c \notin {"select", "address"}
         /\ \A q \in Procs \ {p} : pc'[q] = pc[q]
  BY <1>1 DEF Begin, Goto, TypeInv
<1>3. /\ order'[p].path = w /\ order'[p].command = c
      /\ order'[p] \in [command : Commands, path : Paths]
      /\ \A q \in Procs \ {p} : order'[q] = order[q]
  BY <1>1, <1>2 DEF TypeInv
<1>4. \A q \in Procs \ {p} : ~Active(q)' /\ (StepInv(q) => StepInv(q)')
  BY <1>1, <1>2, <1>3 DEF Active, Ended, StepInv, Path, Whole, Creates, Selects
<1>5. StepInv(p)'
  <2>1. pc'[p] = "exists" => c \in {"create", "create and load"}
    BY <1>1, <1>2 DEF Commands
  <2> QED
    BY <1>1, <1>2, <1>3, <2>1 DEF StepInv, Path, Ended, Creates
<1>6. Complete' => SettingHolds'
  <2> SUFFICES ASSUME Complete' PROVE SettingHolds'
    OBVIOUS
  <2>1. SettingHolds
    BY <1>1 DEF Alone, Complete
  <2>2. PICK q \in Procs : Selector(q)
    BY <2>1 DEF SettingHolds
  <2>3. q # p
    BY <2>2 DEF Selector, Begin, Ended
  <2>4. Selector(q)'
    BY <1>1, <1>2, <1>3, <2>2, <2>3, SelectorKept DEF Selector, Begin
  <2> QED
    BY <1>1, <2>1, <2>4 DEF SettingHolds, Whole
<1> QED
  BY <1>1, <1>4, <1>5, <1>6 DEF Alone

(* A step of a command that changes no file: from a step to a later one.   *)
LEMMA AloneMoves ==
  ASSUME FileInv, ~overlap, NEW p \in Procs, UNCHANGED << wallet, overlap >>,
         Active(p), \A q \in Procs \ {p} :
           pc'[q] = pc[q] /\ order'[q] = order[q] /\ told'[q] = told[q],
         created' \in {created, created \cup {p}}, StepInv(p)',
         selection' \in Settings \cup {None}, Complete' => SettingHolds'
  PROVE  Alone'
<1>1. Alone
  BY DEF FileInv
<1>2. \A q \in Procs \ {p} : ~Active(q) /\ ~Active(q)'
  BY <1>1 DEF Alone, Active
<1>3. \A q \in Procs \ {p} : StepInv(q)'
  <2> SUFFICES ASSUME NEW q \in Procs \ {p} PROVE StepInv(q)'
    OBVIOUS
  <2>1. /\ pc'[q] = pc[q] /\ Path(q)' = Path(q) /\ order'[q] = order[q]
        /\ pc[q] \in Ended \cup {"new"} /\ (q \in created' => q \in created)
        /\ StepInv(q) /\ \A w : Whole(w)' <=> Whole(w)
    BY <1>1, <1>2 DEF Path, Active, Whole, Alone
  <2> QED
    BY <2>1 DEF StepInv, Ended
<1> QED
  BY <1>1, <1>2, <1>3 DEF Alone

(* Exists, Report, Load, Choose, Confirm, Resolve and Kill change no file. *)
LEMMA AloneChecks ==
  ASSUME FileInv, ~overlap', NEW p \in Procs,
         Exists(p) \/ Report(p) \/ Load(p) \/ Choose(p) \/ Confirm(p) \/ Resolve(p) \/ Kill(p)
  PROVE  Alone'
<1>1. /\ ~overlap /\ Alone /\ TypeInv /\ StepInv(p)
      /\ UNCHANGED << wallet, overlap, selection >> /\ Active(p)
      /\ selection' \in Settings \cup {None}
  BY DEF FileInv, Alone, Active, Ended, Exists, Report, Load, Choose, Confirm, Resolve, Kill
<1>2. \A q \in Procs \ {p} :
        pc'[q] = pc[q] /\ order'[q] = order[q] /\ told'[q] = told[q]
  BY <1>1 DEF TypeInv, Goto, Fails, Exists, Report, Load, Choose, Confirm, Resolve, Kill
<1>3. created' \in {created, created \cup {p}}
  BY DEF Exists, Report, Load, Choose, Confirm, Resolve, Kill
<1>4. StepInv(p)'
  <2>1. CASE Exists(p)
    BY <1>1, <2>1 DEF Exists, StepInv, Path, Whole, Goto, Fails, TypeInv, Ended, Creates, Selects
  <2>2. CASE Report(p)
    BY <1>1, <2>2 DEF Report, StepInv, Path, Whole, Goto, TypeInv, Ended, Creates, Selects
  <2>3. CASE Load(p)
    BY <1>1, <2>3 DEF Load, StepInv, Path, Whole, Goto, Fails, TypeInv, Ended, Creates, Selects
  <2>4. CASE Choose(p)
    BY <1>1, <2>4 DEF Choose, StepInv, Path, Whole, Goto, Fails, TypeInv, Ended, Creates, Selects
  <2>5. CASE Confirm(p)
    BY <1>1, <2>5 DEF Confirm, StepInv, Path, Whole, Goto, TypeInv, Ended, Creates, Selects
  <2>6. CASE Resolve(p)
    <3>1. pc'[p] \in {"load", "failed"} /\ p \notin created /\ UNCHANGED created
      BY <1>1, <2>6 DEF Resolve, Goto, Fails, TypeInv, StepInv, Ended
    <3>2. CASE pc'[p] = "load"
      <4>1. Selected # None /\ Selected \in Paths
        BY <1>1, <2>6, <3>2 DEF Resolve, Goto, Fails, TypeInv, Selected, Alone, Settings
      <4>2. order' = [order EXCEPT ![p].path = Selected]
        BY <1>1, <2>6, <3>2 DEF Resolve, Goto, Fails, TypeInv
      <4>3. order'[p].path = Selected
        <5>1. order'[p] = [order[p] EXCEPT !.path = Selected]
          BY <1>1, <4>2 DEF TypeInv
        <5>2. order[p] \in [command : Commands, path : Paths]
          BY <1>1 DEF StepInv, Active
        <5> QED
          BY <4>1, <5>1, <5>2
      <4>4. order'[p] \in [command : Commands, path : Paths]
        BY <1>1, <4>1, <4>2 DEF StepInv, Active, TypeInv
      <4> QED
        BY <3>1, <3>2, <4>1, <4>3, <4>4 DEF StepInv, Path, Ended
    <3>3. CASE pc'[p] = "failed"
      BY <1>1, <2>6, <3>1, <3>3 DEF Resolve, Goto, Fails, TypeInv, StepInv, Path, Ended
    <3> QED
      BY <3>1, <3>2, <3>3
  <2>7. CASE Kill(p)
    BY <1>1, <2>7 DEF Kill, StepInv, Path, Whole, Goto, TypeInv, Ended, Creates, Selects
  <2> QED
    BY <2>1, <2>2, <2>3, <2>4, <2>5, <2>6, <2>7
<1>5. Complete' => SettingHolds'
  <2> SUFFICES ASSUME Complete' PROVE SettingHolds'
    OBVIOUS
  <2>1. SettingHolds
    BY <1>1 DEF Alone, Complete
  <2>2. PICK q \in Procs : Selector(q)
    BY <2>1 DEF SettingHolds
  <2>3. CASE q # p
    BY <1>1, <1>2, <2>1, <2>2, <2>3, SelectorKept DEF Selector, SettingHolds, Whole
  <2>4. CASE q = p
    <3>1. pc[p] = "confirm" /\ (Confirm(p) \/ Kill(p))
      BY <1>1, <2>2, <2>4
         DEF Selector, Active, Exists, Report, Load, Choose, Confirm, Resolve, Kill
    <3>2. order'[p] = order[p] /\ told'[p] = told[p] /\ pc'[p] \in Ended
      BY <1>1, <3>1 DEF Confirm, Kill, Goto, TypeInv, Ended
    <3> QED
      BY <1>1, <2>1, <2>2, <2>4, <3>2, SelectorKept DEF SettingHolds, Whole
  <2> QED
    BY <2>3, <2>4
<1> QED
  BY <1>1, <1>2, <1>3, <1>4, <1>5, AloneMoves

(* The setting is emptied and written by a command that has opened the     *)
(* wallet.                                                                 *)
LEMMA AloneSelects ==
  ASSUME FileInv, ~overlap', NEW p \in Procs, Truncate(p) \/ Store(p)
  PROVE  Alone'
<1>1. /\ ~overlap /\ Alone /\ TypeInv /\ StepInv(p) /\ Whole(Path(p))
      /\ UNCHANGED << wallet, overlap, order, created, told >> /\ Active(p)
      /\ Path(p) \in Paths /\ wallet[Path(p)].key = told[p] /\ Selects(p)
      /\ order[p] \in [command : Commands, path : Paths]
      /\ p \in created => wallet[Path(p)].key = p
  BY DEF FileInv, Alone, StepInv, Active, Ended, Truncate, Store
<1>2. \A q \in Procs \ {p} :
        pc'[q] = pc[q] /\ order'[q] = order[q] /\ told'[q] = told[q]
  BY <1>1 DEF TypeInv, Goto, Fails, Truncate, Store
<1>3. /\ Path(p)' = Path(p) /\ Whole(Path(p))' /\ (p \in created' => p \in created)
      /\ order'[p] = order[p] /\ wallet'[Path(p)] = wallet[Path(p)]
  BY <1>1 DEF Path, Whole
<1>4. pc'[p] \in {"confirm", "failed"} => StepInv(p)'
  BY <1>1, <1>3 DEF StepInv, Ended
<1>5. CASE pc'[p] = "failed" /\ UNCHANGED selection
  <2>2. selection' \in Settings \cup {None}
    BY <1>1, <1>5 DEF Alone
  <2>3. Complete' => SettingHolds'
    <3> SUFFICES ASSUME Complete' PROVE SettingHolds'
      OBVIOUS
    <3>1. SettingHolds
      BY <1>1, <1>5 DEF Alone, Complete
    <3>2. PICK q \in Procs : Selector(q)
      BY <3>1 DEF SettingHolds
    <3>3. q # p
      BY <3>2 DEF Selector, Truncate, Store, Ended
    <3> QED
      BY <1>1, <1>2, <1>5, <3>1, <3>2, <3>3, SelectorKept DEF Selector, SettingHolds, Whole
  <2> QED
    BY <1>1, <1>2, <1>4, <1>5, <2>2, <2>3, AloneMoves
<1>6. CASE selection' = [path |-> None, size |-> "empty"] /\ pc'[p] = "store" /\ Truncate(p)
  <2>1. StepInv(p)'
    <3>1. selection' # None /\ selection'.size = "empty"
      BY <1>6, WalletAssumption DEF Settings, Sizes
    <3>2. Selects(p)' /\ told'[p] = told[p]
      BY <1>1, <1>3 DEF Selects
    <3> QED
      BY <1>1, <1>3, <1>6, <3>1, <3>2 DEF StepInv
  <2>2. selection' \in Settings /\ ~Complete'
    BY <1>6 DEF Settings, Sizes, Complete
  <2> QED
    BY <1>1, <1>2, <2>1, <2>2, AloneMoves
<1>7. CASE \E w \in CutOff(Path(p)) :
             selection' = [path |-> w, size |-> "part"] /\ pc'[p] = "failed"
  <2>1. StepInv(p)'
    BY <1>4, <1>7
  <2>2. selection' \in Settings /\ ~Complete'
    BY <1>1, <1>7, WalletAssumption DEF Settings, Sizes, Complete, CutOff
  <2> QED
    BY <1>1, <1>2, <2>1, <2>2, AloneMoves
<1>8. CASE /\ Store(p) /\ pc'[p] = "confirm"
           /\ \E w \in Written(Path(p)) : selection' = [path |-> w, size |-> "whole"]
  <2>1. selection' = [path |-> Path(p), size |-> "whole"]
    BY <1>1, <1>8 DEF Store, StepInv, Written
  <2>2. StepInv(p)'
    BY <1>4, <1>8
  <2>3. selection' \in Settings
    BY <1>1, <2>1 DEF Settings, Sizes
  <2>4. selection'.path = Path(p) /\ Path(p)' = Path(p)
    BY <1>1, <2>1 DEF Path
  <2>5. Selector(p)'
    BY <1>1, <1>8, <2>4 DEF Selector, Selects
  <2>6. SettingHolds'
    BY <1>1, <2>4, <2>5 DEF SettingHolds, Whole
  <2> QED
    BY <1>1, <1>2, <2>2, <2>3, <2>6, AloneMoves
<1> QED
  <2>1. CASE Truncate(p)
    BY <1>1, <1>5, <1>6, <2>1 DEF Truncate, Goto, Fails, TypeInv
  <2>2. CASE Store(p)
    BY <1>1, <1>5, <1>7, <1>8, <2>2 DEF Store, Goto, Fails, TypeInv
  <2> QED
    BY <2>1, <2>2

(* A file is created, written or removed only where no wallet was.         *)
LEMMA AloneWrites ==
  ASSUME FileInv, ~overlap', NEW p \in Procs, Open(p) \/ Write(p) \/ Remove(p)
  PROVE  Alone'
<1>1. /\ ~overlap /\ Alone /\ TypeInv /\ StepInv(p) /\ Active(p)
      /\ UNCHANGED << overlap, order, created, selection, told >>
      /\ ~Whole(Path(p)) /\ Path(p) \in Paths /\ p \notin created
  BY DEF FileInv, Alone, StepInv, Active, Ended, Open, Write, Remove, Whole
<1>2. \A q \in Procs \ {p} : pc'[q] = pc[q]
  BY <1>1 DEF TypeInv, Goto, Fails, Open, Write, Remove
<1>3. \A w \in Paths : Whole(w) => wallet'[w] = wallet[w]
  BY <1>1 DEF TypeInv, Open, Write, Remove
<1>4. \A w \in Paths : Whole(w) => Whole(w)'
  BY <1>3 DEF Whole
<1>5. \A q \in Procs \ {p} : ~Active(q)' /\ StepInv(q)'
  <2> SUFFICES ASSUME NEW q \in Procs \ {p} PROVE ~Active(q)' /\ StepInv(q)'
    OBVIOUS
  <2>1. ~Active(q) /\ pc'[q] = pc[q] /\ StepInv(q) /\ Path(q)' = Path(q)
    BY <1>1, <1>2 DEF Alone, Path
  <2> QED
    BY <1>1, <1>3, <1>4, <2>1 DEF Active, StepInv, Ended
<1>6. StepInv(p)'
  <2>1. CASE Open(p)
    <3>1. /\ order'[p] = order[p] /\ Path(p)' = Path(p) /\ Creates(p)'
          /\ order[p] \in [command : Commands, path : Paths] /\ p \notin created'
      BY <1>1, <2>1 DEF Open, StepInv, Path, Creates
    <3>2. CASE pc'[p] = "failed"
      BY <1>1, <3>1, <3>2 DEF StepInv, Ended
    <3>3. CASE pc'[p] = "write" /\ wallet'[Path(p)] = [key |-> None, size |-> "empty"]
      <4>1. wallet'[Path(p)] # None /\ wallet'[Path(p)].size = "empty"
        BY <3>3, WalletAssumption DEF Contents, Sizes
      <4> QED
        BY <1>1, <3>1, <3>3, <4>1 DEF StepInv
    <3> QED
      BY <1>1, <2>1, <3>2, <3>3 DEF Open, Goto, Fails, TypeInv
  <2>2. CASE Write(p)
    <3>1. PICK s \in {"empty", "part", "whole"} :
            /\ wallet' = IF s = "empty" THEN wallet
                         ELSE [wallet EXCEPT ![Path(p)] = [key |-> p, size |-> s]]
            /\ pc'[p] = IF s = "whole" THEN "report" ELSE "remove"
      BY <1>1, <2>2 DEF Write, StepInv, Goto, TypeInv
    <3>2. wallet[Path(p)] # None /\ wallet[Path(p)].size # "whole"
      BY <1>1, <2>2 DEF Write, StepInv
    <3>3. s # "empty" => wallet'[Path(p)] = [key |-> p, size |-> s]
      BY <1>1, <3>1 DEF TypeInv
    <3>4. [key |-> p, size |-> s] # None
      BY WalletAssumption DEF Contents, Sizes
    <3>5. Path(p)' = Path(p) /\ order'[p] \in [command : Commands, path : Paths]
      BY <1>1, <2>2 DEF Write, StepInv, Path
    <3>8. Creates(p)'
      BY <1>1, <2>2 DEF Write, StepInv, Creates
    <3>6. s = "whole" => Whole(Path(p))' /\ wallet'[Path(p)].key = p
      BY <3>3, <3>4, <3>5 DEF Whole
    <3>7. s # "whole" => wallet'[Path(p)] # None /\ wallet'[Path(p)].size # "whole"
      BY <3>1, <3>2, <3>3, <3>4
    <3> QED
      BY <1>1, <3>1, <3>5, <3>6, <3>7, <3>8 DEF StepInv
  <2>3. CASE Remove(p)
    BY <1>1, <2>3 DEF Remove, StepInv, Path, Goto, Fails, TypeInv, Ended, Creates
  <2> QED
    BY <2>1, <2>2, <2>3
<1>7. Complete' => SettingHolds'
  <2> SUFFICES ASSUME Complete' PROVE SettingHolds'
    OBVIOUS
  <2>1. SettingHolds
    BY <1>1 DEF Alone, Complete
  <2>2. PICK q \in Procs : Selector(q)
    BY <2>1 DEF SettingHolds
  <2>3. q # p
    BY <2>2 DEF Selector, Open, Write, Remove, Ended
  <2>4. wallet'[selection.path] = wallet[selection.path]
    BY <1>3, <2>1 DEF SettingHolds
  <2> QED
    BY <1>1, <1>2, <2>1, <2>2, <2>3, <2>4, SelectorKept DEF Selector, SettingHolds, Whole
<1> QED
  BY <1>1, <1>5, <1>6, <1>7 DEF Alone

(* Every step of a command preserves the invariant.                        *)
LEMMA FileStep == FileInv /\ [Next]_vars => FileInv'
<1> SUFFICES ASSUME FileInv, [Next]_vars PROVE FileInv'
  OBVIOUS
<1>1. CASE UNCHANGED vars
  BY <1>1 DEF FileInv, TypeInv, Alone, StepInv, Active, Path, Whole, vars,
     Creates, Selects, Complete, SettingHolds, Selector
<1>2. CASE Next
  <2>1. PICK p \in Procs :
           \/ Begin(p) \/ Exists(p) \/ Open(p) \/ Write(p) \/ Remove(p) \/ Report(p)
           \/ Load(p) \/ Choose(p) \/ Truncate(p) \/ Store(p) \/ Confirm(p)
           \/ Resolve(p) \/ Kill(p)
    BY <1>2 DEF Next
  <2>2. TypeInv'
    BY <2>1, TypeStep DEF FileInv
  <2>3. ~overlap' => Alone'
    BY <2>1, AloneBegin, AloneChecks, AloneSelects, AloneWrites
  <2> QED
    BY <2>2, <2>3 DEF FileInv
<1> QED
  BY <1>1, <1>2

(***************************************************************************)
(* create_wallet() and Wallet::save(): while the commands do not overlap,  *)
(* a wallet reported as created stays whole in its file, with its key,     *)
(* for any number of commands and paths and wherever they fail or die.     *)
(***************************************************************************)
THEOREM CreatedStaysHolds == Spec => []CreatedStays
<1>1. FileInv => CreatedStays
  BY DEF FileInv, Alone, StepInv, CreatedStays
<1> QED
  BY FileInit, FileStep, <1>1, PTL DEF Spec

(***************************************************************************)
(* select_wallet(): while the commands do not overlap, a setting written   *)
(* to its end names a whole wallet, with the key of the command that wrote *)
(* it, for any number of commands and paths.                               *)
(***************************************************************************)
THEOREM SelectionUsableHolds == Spec => []SelectionUsable
<1>1. FileInv => SelectionUsable
  BY DEF FileInv, Alone, SelectionUsable, SettingHolds
<1> QED
  BY FileInit, FileStep, <1>1, PTL DEF Spec
================================================================================
