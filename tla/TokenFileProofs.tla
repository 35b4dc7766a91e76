---------------------------- MODULE TokenFileProofs ----------------------------
(***************************************************************************)
(* That every start gets the token of the file, for any number of starts.  *)
(* OneToken is not inductive: a run returns its own token because its link *)
(* was made (the last conjunct of TypeOK), and what it linked is whole     *)
(* because a run that reaches its link has written it (Written).           *)
(***************************************************************************)
EXTENDS TokenFile, TLAPS

(* A run that is about to link its file, or has done so, has written it,   *)
(* and one that is about to read the file has seen it.                     *)
Written ==
    /\ \A r \in Runs : pc[r] \in {"permit", "link"} => content[r] = "token"
    /\ \A r \in Runs : pc[r] = "load" => path # None
    /\ \A r \in Runs : path = r => pc[r] \notin {"start", "make", "write"}

TokenInv == TypeOK /\ OneToken /\ NeverPartial /\ Written

(* Before the first start no run has a file, and a given one is not a run's. *)
LEMMA TokenInit == Init => TokenInv
BY TokenFileAssumption
   DEF Init, TokenInv, TypeOK, OneToken, NeverPartial, Written, Inodes, Steps

(* One step per action of a run.                                           *)
LEMMA TokenStep == TokenInv /\ [Next]_vars => TokenInv'
<1> SUFFICES ASSUME TokenInv, [Next]_vars PROVE TokenInv'
  OBVIOUS
<1> USE TokenFileAssumption
<1> USE DEF TokenInv, TypeOK, OneToken, NeverPartial, Written, Inodes, Steps, Goto
<1>1. ASSUME NEW r \in Runs, Start(r) PROVE TokenInv'
  BY <1>1 DEF Start
<1>2. ASSUME NEW r \in Runs, Make(r) PROVE TokenInv'
  BY <1>2 DEF Make
<1>3. ASSUME NEW r \in Runs, Write(r) PROVE TokenInv'
  BY <1>3 DEF Write
<1>4. ASSUME NEW r \in Runs, Permit(r) PROVE TokenInv'
  BY <1>4 DEF Permit
<1>5. ASSUME NEW r \in Runs, Link(r) PROVE TokenInv'
  BY <1>5 DEF Link
<1>6. ASSUME NEW r \in Runs, Unlink(r) PROVE TokenInv'
  BY <1>6 DEF Unlink
<1>7. ASSUME NEW r \in Runs, Check(r) PROVE TokenInv'
  BY <1>7 DEF Check
<1>8. ASSUME NEW r \in Runs, Load(r) PROVE TokenInv'
  BY <1>8 DEF Load
<1>9. ASSUME NEW r \in Runs, Crash(r) PROVE TokenInv'
  BY <1>9 DEF Crash
<1>10. CASE UNCHANGED vars
  BY <1>10 DEF vars
<1> QED
  BY <1>1, <1>2, <1>3, <1>4, <1>5, <1>6, <1>7, <1>8, <1>9, <1>10 DEF Next, Step

(* Whatever the number of starts and wherever they die, those that get a   *)
(* token get the one in the file (load_or_create_token() in token.cpp).    *)
THEOREM OneTokenHolds == Spec => []OneToken
<1>1. TokenInv => OneToken
  BY DEF TokenInv
<1> QED
  BY <1>1, TokenInit, TokenStep, PTL DEF Spec

(* No interrupted start leaves a partly written file under the final name. *)
THEOREM NeverPartialHolds == Spec => []NeverPartial
<1>1. TokenInv => NeverPartial
  BY DEF TokenInv
<1> QED
  BY <1>1, TokenInit, TokenStep, PTL DEF Spec

(* Later starts reuse the token: nothing replaces or rewrites the file.    *)
THEOREM TokenStaysHolds == Spec => TokenStays
<1>1. TokenInv /\ [Next]_vars
        => [path # None => path' = path /\ content'[path] = content[path]]_vars
  <2> SUFFICES ASSUME TokenInv, Next, path # None
               PROVE  path' = path /\ content'[path] = content[path]
    BY DEF vars
  <2> PICK r \in Runs : \/ Start(r) \/ Make(r) \/ Write(r) \/ Permit(r) \/ Link(r)
                         \/ Unlink(r) \/ Check(r) \/ Load(r) \/ Crash(r)
    BY DEF Next, Step
  <2> QED
    BY TokenFileAssumption
       DEF TokenInv, TypeOK, Written, Inodes, Goto, Start, Make, Write, Permit, Link,
           Unlink, Check, Load, Crash
<1> QED
  BY <1>1, TokenInit, TokenStep, PTL DEF Spec, TokenStays
================================================================================
