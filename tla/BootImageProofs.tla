---------------------------- MODULE BootImageProofs ----------------------------
(***************************************************************************)
(* Proofs about BootImage, for any number of terminals, entries, names and *)
(* changes by other clients.                                               *)
(***************************************************************************)
EXTENDS BootImage, TLAPS

-----------------------------------------------------------------------------
(* The inductive invariant *)

(***************************************************************************)
(* A command that runs knows its image; what it may change has been asked  *)
(* for.                                                                    *)
(***************************************************************************)
RunningInv ==
  \A p \in Procs :
    /\ pc[p] # "idle" => /\ image[p] \in Images
                         /\ \A e \in Entries : Matches(names[p], e) => e \in asked
    /\ DOMAIN bps[p] \subseteq asked
    /\ pc[p] = "put" => DOMAIN bps[p] # {}

(***************************************************************************)
(* Success has something to do, has nothing left to do, and no error.      *)
(***************************************************************************)
SuccessInv ==
  \A p \in Procs : exit[p] = "ok" =>
    /\ pc[p] = "idle" /\ todo[p] = {} /\ ~errorsOccurred[p]
    /\ DOMAIN bps[p] # {}

(***************************************************************************)
(* What has been put is there, unless there was an error or somebody has   *)
(* changed it since.                                                       *)
(***************************************************************************)
PutInv ==
  \A p \in Procs : \A e \in DOMAIN bps[p] \ (todo[p] \cup stale[p] \cup over[p]) :
    errorsOccurred[p] \/ bss[e] = SetKarg(bps[p][e], image[p])

(***************************************************************************)
(* What is still to be put has the parameters that the other clients have  *)
(* given it, unless they have been lost, or given it after it was read.    *)
(***************************************************************************)
ReadInv ==
  \A p \in Procs : \A e \in (todo[p] \ stale[p]) \ raced :
    theirs[e] # Absent /\ bps[p][e].rest = theirs[e].rest

IInv ==
  /\ TypeOK
  /\ RunningInv /\ SuccessInv /\ PutInv /\ ReadInv
  /\ OnlyImagesChange

-----------------------------------------------------------------------------
LEMMA SetKargTyped ==
  ASSUME NEW params \in Params, NEW i \in Images
  PROVE  /\ SetKarg(params, i) \in Params
         /\ SetKarg(params, i) # Absent
         /\ SetKarg(params, i).rest = params.rest
BY AbsentAssumption DEF SetKarg, Params

LEMMA InitHolds == Init => IInv
<1> SUFFICES ASSUME Init PROVE IInv
  OBVIOUS
<1>1. TypeOK
  BY BoundAssumption DEF Init, TypeOK, NoEntries
<1>2. RunningInv /\ SuccessInv /\ PutInv /\ ReadInv
  BY DEF Init, RunningInv, SuccessInv, PutInv, ReadInv, NoEntries
<1>3. OnlyImagesChange
  BY DEF Init, OnlyImagesChange, Kept, Params
<1> QED BY <1>1, <1>2, <1>3 DEF IInv

LEMMA FailsHolds ==
  ASSUME IInv, NEW p \in Procs, Fails(p)
  PROVE  IInv'
<1> USE DEF IInv, Fails, Exit, Goto, command, history
<1>1. TypeOK'
  BY DEF TypeOK, NoEntries
<1>2. RunningInv'
  BY DEF TypeOK, RunningInv, NoEntries, Matches
<1>3. SuccessInv'
  BY DEF TypeOK, SuccessInv, NoEntries
<1>4. PutInv'
  BY DEF TypeOK, PutInv, NoEntries
<1>5. ReadInv'
  BY DEF TypeOK, ReadInv, NoEntries
<1>6. OnlyImagesChange'
  BY DEF OnlyImagesChange, Kept
<1> QED BY <1>1, <1>2, <1>3, <1>4, <1>5, <1>6

LEMMA BeginHolds ==
  ASSUME IInv, NEW p \in Procs, NEW ns \in SUBSET Names, NEW i \in Images, Begin(p, ns, i)
  PROVE  IInv'
<1> USE DEF IInv, Begin, Goto
<1>1. TypeOK'
  BY BoundAssumption DEF TypeOK, NoEntries
<1>2. RunningInv'
  BY DEF TypeOK, RunningInv, NoEntries, Matches
<1>3. SuccessInv'
  BY DEF TypeOK, SuccessInv, NoEntries
<1>4. PutInv'
  BY DEF TypeOK, PutInv, NoEntries
<1>5. ReadInv'
  BY DEF TypeOK, ReadInv, NoEntries
<1>6. OnlyImagesChange'
  BY DEF TypeOK, OnlyImagesChange, Kept
<1> QED BY <1>1, <1>2, <1>3, <1>4, <1>5, <1>6

LEMMA GetHolds ==
  ASSUME IInv, NEW p \in Procs, Get(p)
  PROVE  IInv'
<1> USE DEF IInv, Get, Goto
<1> DEFINE es == GetBootParams(names[p])
<1>0. /\ es \subseteq Entries /\ es # {}
      /\ \A e \in es : bss[e] \in Params /\ e \in asked
  BY DEF GetBootParams, TypeOK, RunningInv
<1>a. bps'[p] = [e \in es |-> bss[e]] /\ todo'[p] = es
  BY DEF TypeOK
<1>1. TypeOK'
  BY <1>0, <1>a DEF TypeOK
<1>2. RunningInv'
  BY <1>0, <1>a DEF TypeOK, RunningInv, Matches
<1>3. SuccessInv'
  BY DEF TypeOK, SuccessInv
<1>4. PutInv'
  BY <1>0, <1>a DEF TypeOK, PutInv
<1>5. ReadInv'
  BY <1>0, <1>a, AbsentAssumption DEF TypeOK, ReadInv, OnlyImagesChange, Kept, GetBootParams
<1>6. OnlyImagesChange'
  BY DEF OnlyImagesChange, Kept
<1> QED BY <1>1, <1>2, <1>3, <1>4, <1>5, <1>6

LEMMA PutHolds ==
  ASSUME IInv, NEW p \in Procs, NEW e \in Entries, Put(p, e)
  PROVE  IInv'
<1> USE DEF IInv, Put
<1> DEFINE new == SetKarg(bps[p][e], image[p])
<1>0. /\ bps[p][e] \in Params /\ e \in DOMAIN bps[p] /\ e \in asked
      /\ new \in Params /\ new # Absent /\ new.rest = bps[p][e].rest
  <2>1. bps[p][e] \in Params /\ e \in DOMAIN bps[p] /\ e \in asked
    BY DEF TypeOK, RunningInv
  <2>2. image[p] \in Images
    BY DEF RunningInv
  <2> QED BY <2>1, <2>2, SetKargTyped
<1>1. TypeOK'
  <2>1. CASE PutBootParams(p, e)
    <3>1. bss' \in [Entries -> Params \cup {Absent}]
      BY <2>1, <1>0 DEF TypeOK, PutBootParams
    <3>2. /\ raced' \subseteq Entries
          /\ stale' \in [Procs -> SUBSET Entries] /\ over' \in [Procs -> SUBSET Entries]
      BY <2>1 DEF TypeOK, PutBootParams
    <3>3. errorsOccurred' \in [Procs -> BOOLEAN]
      BY DEF TypeOK
    <3> QED BY <3>1, <3>2, <3>3 DEF TypeOK
  <2>2. CASE UNCHANGED <<bss, raced, stale, over>>
    BY <2>2 DEF TypeOK
  <2> QED BY <2>1, <2>2
<1>2. RunningInv'
  BY DEF TypeOK, RunningInv, Matches
<1>3. SuccessInv'
  <2> SUFFICES ASSUME NEW q \in Procs, exit'[q] = "ok"
               PROVE  /\ pc'[q] = "idle" /\ todo'[q] = {} /\ ~errorsOccurred'[q]
                      /\ DOMAIN bps'[q] # {}
    BY DEF SuccessInv
  <2>1. pc[q] = "idle" /\ todo[q] = {} /\ ~errorsOccurred[q] /\ DOMAIN bps[q] # {}
    BY DEF SuccessInv
  <2>2. q # p
    BY <2>1
  <2>3. errorsOccurred'[q] = errorsOccurred[q] /\ todo'[q] = todo[q]
    BY <2>2 DEF TypeOK
  <2> QED BY <2>1, <2>3
<1>4. PutInv'
  <2>1. CASE PutBootParams(p, e)
    BY <2>1 DEF TypeOK, PutInv, PutBootParams
  <2>2. CASE UNCHANGED <<bss, raced, stale, over>> /\ errorsOccurred' = [errorsOccurred EXCEPT ![p] = TRUE]
    BY <2>2 DEF TypeOK, PutInv
  <2> QED BY <2>1, <2>2
<1>5. ReadInv'
  BY DEF TypeOK, ReadInv, PutBootParams
<1>6. OnlyImagesChange'
  <2>1. CASE PutBootParams(p, e)
    <3>1. \A f \in Entries \ {e} : bss'[f] = bss[f]
      BY <2>1 DEF PutBootParams, TypeOK
    <3>2. bss'[e] = new
      BY <2>1 DEF PutBootParams, TypeOK
    <3>3. e \notin raced' => Kept(e)'
      BY <2>1, <3>2, <1>0 DEF PutBootParams, ReadInv, Kept
    <3>4. \A f \in Entries : f \notin raced' => f \notin raced
      BY <2>1 DEF PutBootParams
    <3> QED BY <3>1, <3>3, <3>4, <1>0 DEF OnlyImagesChange, Kept
  <2>2. CASE UNCHANGED <<bss, raced, stale, over>>
    BY <2>2 DEF OnlyImagesChange, Kept
  <2> QED BY <2>1, <2>2
<1> QED BY <1>1, <1>2, <1>3, <1>4, <1>5, <1>6

LEMMA FinishHolds ==
  ASSUME IInv, NEW p \in Procs, Finish(p)
  PROVE  IInv'
<1>1. CASE errorsOccurred[p]
  BY <1>1, FailsHolds DEF Finish
<1>2. CASE ~errorsOccurred[p]
  <2> USE <1>2 DEF IInv, Finish, Exit, Goto, history
  <2>1. TypeOK'
    BY DEF TypeOK
  <2>2. RunningInv'
    BY DEF TypeOK, RunningInv, Matches
  <2>3. SuccessInv'
    BY DEF TypeOK, SuccessInv, RunningInv
  <2>4. PutInv'
    BY DEF PutInv
  <2>5. ReadInv'
    BY DEF ReadInv
  <2>6. OnlyImagesChange'
    BY DEF OnlyImagesChange, Kept
  <2> QED BY <2>1, <2>2, <2>3, <2>4, <2>5, <2>6
<1> QED BY <1>1, <1>2

LEMMA OtherClientHolds ==
  ASSUME IInv, NEW e \in Entries, NEW new \in Params \cup {Absent}, OtherClient(e, new)
  PROVE  IInv'
<1> USE DEF IInv, OtherClient, command
<1>1. TypeOK'
  BY BoundAssumption DEF TypeOK
<1>2. RunningInv'
  BY DEF RunningInv, Matches
<1>3. SuccessInv'
  BY DEF SuccessInv
<1>4. PutInv'
  BY DEF TypeOK, PutInv
<1>5. ReadInv'
  BY DEF TypeOK, ReadInv
<1>6. OnlyImagesChange'
  BY DEF TypeOK, OnlyImagesChange, Kept
<1> QED BY <1>1, <1>2, <1>3, <1>4, <1>5, <1>6

LEMMA StutterHolds ==
  ASSUME IInv, UNCHANGED vars
  PROVE  IInv'
BY DEF IInv, vars, command, history, TypeOK, RunningInv, SuccessInv, PutInv, ReadInv,
       OnlyImagesChange, Kept, Matches

LEMMA NextHolds == IInv /\ [Next]_vars => IInv'
<1> SUFFICES ASSUME IInv, [Next]_vars PROVE IInv'
  OBVIOUS
<1>1. ASSUME NEW p \in Procs, NEW ns \in SUBSET Names, NEW i \in Images, Begin(p, ns, i)
      PROVE  IInv'
  BY <1>1, BeginHolds
<1>2. ASSUME NEW p \in Procs, Get(p) PROVE IInv'
  BY <1>2, GetHolds
<1>3. ASSUME NEW p \in Procs, GetFails(p) \/ Interrupt(p) PROVE IInv'
  BY <1>3, FailsHolds DEF GetFails, Interrupt
<1>4. ASSUME NEW p \in Procs, NEW e \in Entries, Put(p, e) PROVE IInv'
  BY <1>4, PutHolds
<1>5. ASSUME NEW p \in Procs, Finish(p) PROVE IInv'
  BY <1>5, FinishHolds
<1>6. ASSUME NEW e \in Entries, NEW new \in Params \cup {Absent}, OtherClient(e, new)
      PROVE  IInv'
  BY <1>6, OtherClientHolds
<1>7. CASE Ended \/ UNCHANGED vars
  BY <1>7, StutterHolds DEF Ended
<1> QED BY <1>1, <1>2, <1>3, <1>4, <1>5, <1>6, <1>7 DEF Next

-----------------------------------------------------------------------------
(* The theorems *)

LEMMA Invariance == Spec => []IInv
BY InitHolds, NextHolds, PTL DEF Spec

(***************************************************************************)
(* TypeOK is invariant: above all, nothing is put that has not been read.  *)
(***************************************************************************)
THEOREM TypeCorrect == Spec => []TypeOK
<1>1. IInv => TypeOK
  BY DEF IInv
<1> QED BY <1>1, Invariance, PTL

(***************************************************************************)
(* Exit status 0 of `boot image set` means that every entry it has read    *)
(* boots the image, however many entries, commands and other clients.      *)
(***************************************************************************)
THEOREM SuccessIsSet == Spec => []SuccessMeansSet
<1>1. IInv => SuccessMeansSet
  <2> SUFFICES ASSUME IInv, NEW p \in Procs, exit[p] = "ok"
               PROVE  /\ DOMAIN bps[p] # {}
                      /\ \A e \in DOMAIN bps[p] \ (stale[p] \cup over[p]) :
                           bss[e] = SetKarg(bps[p][e], image[p])
    BY DEF SuccessMeansSet
  <2>1. todo[p] = {} /\ ~errorsOccurred[p] /\ DOMAIN bps[p] # {}
    BY DEF IInv, SuccessInv
  <2>2. \A e \in DOMAIN bps[p] \ (todo[p] \cup stale[p] \cup over[p]) :
          errorsOccurred[p] \/ bss[e] = SetKarg(bps[p][e], image[p])
    BY DEF IInv, PutInv
  <2> QED BY <2>1, <2>2
<1> QED BY <1>1, Invariance, PTL

(***************************************************************************)
(* Nothing changes but root= of what was asked for, and only an entry that *)
(* another client changes between the two requests can lose anything.      *)
(***************************************************************************)
THEOREM OnlyImagesEverChange == Spec => []OnlyImagesChange
<1>1. IInv => OnlyImagesChange
  BY DEF IInv
<1> QED BY <1>1, Invariance, PTL
=============================================================================
