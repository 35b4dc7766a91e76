------------------------------- MODULE TokenFile -------------------------------
(***************************************************************************)
(* The RPC token file (src/rpc/token.cpp).  Every start of a node calls    *)
(* load_or_create_token() on the same path, and an RPC client reads the    *)
(* file with load_token().  Starts may overlap, any file operation may     *)
(* fail, and a process may die between two of them.  A token is 32 random  *)
(* bytes, so the one a run makes is named by the run itself.  A file is    *)
(* its inode: the temporary file of run r is inode r, and path is the      *)
(* inode the final name is linked to.                                      *)
(***************************************************************************)
CONSTANTS Runs,    \* calls of load_or_create_token()
          Given,   \* the inode of a file that is there before the first run
          None

ASSUME TokenFileAssumption ==
    /\ Given \notin Runs
    /\ None \notin Runs \cup {Given}

VARIABLES path,      \* the inode that has the final name, or None
          content,   \* inode -> what is written in it, "none" before it exists
          temp,      \* the runs whose temporary name still exists
          linked,    \* the runs whose create_hard_link() succeeded
          pc,        \* run -> where it is in load_or_create_token()
          result     \* run -> the token it returned, named by its inode

vars == << path, content, temp, linked, pc, result >>

Inodes == Runs \cup {Given}

Steps == {"start", "make", "write", "permit", "link", "unlink", "check", "load",
          "done", "failed", "crashed"}

(* Types; besides, a run that has not tried to link its file still has the *)
(* temporary name, and only the run whose link was made owns the file.     *)
TypeOK ==
    /\ path \in Inodes \cup {None}
    /\ content \in [Inodes -> {"none", "empty", "token", "other"}]
    /\ temp \in SUBSET Runs
    /\ linked \in SUBSET Runs
    /\ pc \in [Runs -> Steps]
    /\ result \in [Runs -> Inodes \cup {None}]
    /\ \A r \in Runs : pc[r] \in {"write", "permit", "link"} => r \in temp
    /\ \A r \in linked : path = r

(* The file may have been left by an earlier start, or written by hand.    *)
Init ==
    /\ \/ /\ path = None
          /\ content = [i \in Inodes |-> "none"]
       \/ /\ path = Given
          /\ \E c \in {"empty", "token", "other"} :
                content = [i \in Inodes |-> IF i = Given THEN c ELSE "none"]
    /\ temp = {}
    /\ linked = {}
    /\ pc = [r \in Runs |-> "start"]
    /\ result = [r \in Runs |-> None]

Goto(r, step) == pc' = [pc EXCEPT ![r] = step]

(* exists(path), which may also fail *)
Start(r) ==
    /\ pc[r] = "start"
    /\ \/ path # None /\ Goto(r, "load")
       \/ path = None /\ Goto(r, "make")
       \/ Goto(r, "failed")
    /\ UNCHANGED << path, content, temp, linked, result >>

(* create_directories() and the opening of the temporary file *)
Make(r) ==
    /\ pc[r] = "make"
    /\ \/ /\ content' = [content EXCEPT ![r] = "empty"]
          /\ temp' = temp \cup {r}
          /\ Goto(r, "write")
       \/ Goto(r, "failed") /\ UNCHANGED << content, temp >>
    /\ UNCHANGED << path, linked, result >>

(* The token is written and flushed; on failure the file is removed.       *)
Write(r) ==
    /\ pc[r] = "write"
    /\ \/ /\ content' = [content EXCEPT ![r] = "token"]
          /\ Goto(r, "permit")
          /\ UNCHANGED temp
       \/ /\ Goto(r, "failed")
          /\ temp' = temp \ {r}
          /\ UNCHANGED content
    /\ UNCHANGED << path, linked, result >>

(* permissions() of the temporary file; on failure it is removed.          *)
Permit(r) ==
    /\ pc[r] = "permit"
    /\ \/ Goto(r, "link") /\ UNCHANGED temp
       \/ Goto(r, "failed") /\ temp' = temp \ {r}
    /\ UNCHANGED << path, content, linked, result >>

(* create_hard_link() fails when the name exists, and may fail anyway.     *)
Link(r) ==
    /\ pc[r] = "link"
    /\ \/ /\ path = None
          /\ path' = r
          /\ linked' = linked \cup {r}
       \/ UNCHANGED << path, linked >>
    /\ Goto(r, "unlink")
    /\ UNCHANGED << content, temp, result >>

(* Mutant: the run's own token is returned even if its link failed.      *)
UnlinkOwn(r) ==
    /\ pc[r] = "unlink"
    /\ temp' = temp \ {r}
    /\ result' = [result EXCEPT ![r] = r]
    /\ Goto(r, "done")
    /\ UNCHANGED << path, content, linked >>

(* remove() of the temporary name, whose own failure is ignored *)
Unlink(r) ==
    /\ pc[r] = "unlink"
    /\ temp' \in {temp, temp \ {r}}
    /\ IF r \in linked
       THEN Goto(r, "done") /\ result' = [result EXCEPT ![r] = r]
       ELSE Goto(r, "check") /\ UNCHANGED result
    /\ UNCHANGED << path, content, linked >>

(* The link failed: the file may be the one another start has just made.   *)
Check(r) ==
    /\ pc[r] = "check"
    /\ \/ path # None /\ Goto(r, "load")
       \/ Goto(r, "failed")
    /\ UNCHANGED << path, content, temp, linked, result >>

(* load_token() *)
Load(r) ==
    /\ pc[r] = "load"
    /\ \/ /\ content[path] = "token"
          /\ result' = [result EXCEPT ![r] = path]
          /\ Goto(r, "done")
       \/ Goto(r, "failed") /\ UNCHANGED result
    /\ UNCHANGED << path, content, temp, linked >>

(* The process ends between two steps.                                     *)
Crash(r) ==
    /\ pc[r] \notin {"done", "failed", "crashed"}
    /\ Goto(r, "crashed")
    /\ UNCHANGED << path, content, temp, linked, result >>

Step(r) ==
    \/ Start(r) \/ Make(r) \/ Write(r) \/ Permit(r)
    \/ Link(r) \/ Unlink(r) \/ Check(r) \/ Load(r)
    \/ Crash(r)

Next == \E r \in Runs : Step(r)

Spec == Init /\ [][Next]_vars

--------------------------------------------------------------------------------
(* Every start that gets a token, however the starts overlap and wherever  *)
(* one of them dies, gets the token that the file holds: a node and its    *)
(* clients, and two nodes started at once, never disagree on it.           *)
OneToken ==
    \A r \in Runs : result[r] # None => /\ result[r] = path
                                        /\ content[path] = "token"

(* The file has its token from the moment it has its name: no crash leaves *)
(* a partly written one behind, unless it was there from the beginning.    *)
NeverPartial == path \in Runs => content[path] = "token"

(* Once the file exists it is never replaced, and what it holds stays.     *)
TokenStays == [][path # None => path' = path /\ content'[path] = content[path]]_vars
================================================================================
