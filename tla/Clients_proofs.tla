---------------------------- MODULE Clients_proofs --------------------------
(***************************************************************************)
(* Theorems about Clients, for every set of calls and of accounts, every   *)
(* number of retries and of polls, and about Watcher, for every set of     *)
(* consumers and whatever lands.                                           *)
(***************************************************************************)
EXTENDS Clients, Watcher, SequenceTheorems, Foundations_proofs

(***************************************************************************)
(* What a step does to the copies: a client signs one more, or the cluster *)
(* changes the fate of one that is not final yet.  Either way no copy goes *)
(* away or changes its target, what was executed stays executed, and at    *)
(* most one copy is executed in the step, of an account that was not       *)
(* there.                                                                  *)
(***************************************************************************)
CopiesType == copies \in [Calls -> Seq(Copy)]

Signed(c) ==
  \E fate \in {"pending", "expired"}, target \in Targets \cup {NoTarget} :
    Sign(c, fate, target)

KeepsCopies ==
  \A d \in Calls :
    /\ Len(copies[d]) <= Len(copies'[d])
    /\ \A k \in DOMAIN copies[d] :
         /\ copies'[d][k].target = copies[d][k].target
         /\ copies[d][k].fate = "executed" => copies'[d][k].fate = "executed"

Executes(c, i) ==
  \A d \in Calls : \A k \in DOMAIN copies'[d] :
    copies'[d][k].fate = "executed" =>
      /\ k \in DOMAIN copies[d]
      /\ copies[d][k].fate = "executed" \/ (d = c /\ k = i /\ ~Exists(copies[d][k].target))

LEMMA SignedFacts ==
  ASSUME CopiesType, NEW c \in Calls, NEW fate \in {"pending", "expired"},
         NEW target \in Targets \cup {NoTarget}, Sign(c, fate, target)
  PROVE  /\ CopiesType'
         /\ Len(copies'[c]) = Len(copies[c]) + 1
         /\ copies'[c][Len(copies[c]) + 1].target = target
         /\ \A d \in Calls \ {c} : copies'[d] = copies[d]
         /\ KeepsCopies
         /\ Executes(c, 0)
<1> DEFINE new == [fate |-> fate, target |-> target]
<1>1. new \in Copy
  BY DEF Copy, FateOf
<1>2. new.fate # "executed" /\ new.target = target
  OBVIOUS
<1>3. copies[c] \in Seq(Copy)
  BY DEF CopiesType
<1>4. copies' = [copies EXCEPT ![c] = Append(copies[c], new)]
  BY DEF Sign
<1> HIDE DEF new
<1>5. /\ Append(copies[c], new) \in Seq(Copy)
      /\ Len(Append(copies[c], new)) = Len(copies[c]) + 1
      /\ \A k \in 1..Len(copies[c]) : Append(copies[c], new)[k] = copies[c][k]
      /\ Append(copies[c], new)[Len(copies[c]) + 1] = new
  BY <1>1, <1>3, AppendProperties
<1>6. copies'[c] = Append(copies[c], new) /\ \A d \in Calls \ {c} : copies'[d] = copies[d]
  BY <1>4 DEF CopiesType
<1>7. CopiesType'
  BY <1>4, <1>5 DEF CopiesType
<1>8. KeepsCopies
  <2>1. ASSUME NEW d \in Calls
        PROVE  /\ Len(copies[d]) <= Len(copies'[d])
               /\ \A k \in DOMAIN copies[d] : copies'[d][k] = copies[d][k]
    <3>1. CASE d = c
      BY <1>3, <1>5, <1>6, <3>1, LenProperties
    <3>2. CASE d # c
      <4>1. copies[d] \in Seq(Copy)
        BY DEF CopiesType
      <4>2. QED
        BY <1>6, <3>2, <4>1, LenProperties
    <3>3. QED
      BY <3>1, <3>2
  <2>2. QED
    BY <2>1 DEF KeepsCopies
<1>9. Executes(c, 0)
  <2>1. ASSUME NEW d \in Calls, NEW k \in DOMAIN copies'[d], copies'[d][k].fate = "executed"
        PROVE  k \in DOMAIN copies[d] /\ copies[d][k].fate = "executed"
    <3>1. CASE d = c
      <4>1. k \in 1..(Len(copies[c]) + 1)
        BY <1>5, <1>6, <3>1, LenProperties
      <4>2. k # Len(copies[c]) + 1
        BY <1>2, <1>5, <1>6, <2>1, <3>1
      <4>3. k \in 1..Len(copies[c])
        BY <1>3, <4>1, <4>2, LenProperties
      <4>4. QED
        BY <1>3, <1>5, <1>6, <2>1, <3>1, <4>3, LenProperties
    <3>2. CASE d # c
      BY <1>6, <2>1, <3>2
    <3>3. QED
      BY <3>1, <3>2
  <2>2. QED
    BY <2>1 DEF Executes
<1>10. QED
  BY <1>2, <1>5, <1>6, <1>7, <1>8, <1>9

LEMMA ClusterFacts ==
  ASSUME CopiesType, NEW c \in Calls, NEW i \in DOMAIN copies[c], ClusterStep(c, i)
  PROVE  /\ CopiesType'
         /\ \A d \in Calls : Len(copies'[d]) = Len(copies[d])
         /\ KeepsCopies
         /\ Executes(c, i)
<1>1. PICK to \in FateOf :
        /\ copies[c][i].fate \in {"pending", "processed"}
        /\ copies' = [copies EXCEPT ![c][i].fate = to]
        /\ to = "executed" => ~Exists(copies[c][i].target)
  BY DEF ClusterStep, Process, DropFork, Confirm, Reject, Expire, Becomes, FateOf
<1> DEFINE new == [copies[c][i] EXCEPT !.fate = to]
<1>2. copies[c] \in Seq(Copy) /\ i \in 1..Len(copies[c])
  BY LenProperties DEF CopiesType
<1>3. copies[c][i] \in Copy
  BY <1>2, ElementOfSeq
<1>4. new \in Copy /\ new.target = copies[c][i].target /\ new.fate = to
  BY <1>3 DEF Copy
<1>5. copies' = [copies EXCEPT ![c] = [copies[c] EXCEPT ![i] = new]]
  BY <1>1
<1> HIDE DEF new
<1>6. /\ [copies[c] EXCEPT ![i] = new] \in Seq(Copy)
      /\ Len([copies[c] EXCEPT ![i] = new]) = Len(copies[c])
      /\ \A k \in 1..Len(copies[c]) :
           [copies[c] EXCEPT ![i] = new][k] = IF k = i THEN new ELSE copies[c][k]
  BY <1>2, <1>4, ExceptSeq
<1>7. copies'[c] = [copies[c] EXCEPT ![i] = new] /\ \A d \in Calls \ {c} : copies'[d] = copies[d]
  BY <1>5 DEF CopiesType
<1>8. CopiesType'
  BY <1>5, <1>6 DEF CopiesType
<1>9. ASSUME NEW d \in Calls
      PROVE  /\ Len(copies'[d]) = Len(copies[d])
             /\ DOMAIN copies'[d] = DOMAIN copies[d]
             /\ Len(copies[d]) \in Nat
             /\ \A k \in DOMAIN copies[d] :
                  copies'[d][k] = IF d = c /\ k = i THEN new ELSE copies[d][k]
  <2>1. copies[d] \in Seq(Copy)
    BY DEF CopiesType
  <2>2. QED
    BY <1>6, <1>7, <2>1, LenProperties
<1>10. KeepsCopies
  BY <1>1, <1>4, <1>9 DEF KeepsCopies
<1>11. Executes(c, i)
  BY <1>1, <1>4, <1>9 DEF Executes
<1>12. QED
  BY <1>8, <1>9, <1>10, <1>11

-----------------------------------------------------------------------------
(***************************************************************************)
(* The inductive invariant: where a call or a run is tells how many copies *)
(* it has signed, all its copies name the account it is about, and no two  *)
(* executed copies created one account.                                    *)
(***************************************************************************)
CallInv(c) ==
  /\ sdk[c].pc = "idle" => sdk[c].attempt = 0 /\ Len(copies[c]) = 0
  /\ sdk[c].pc = "send" => Len(copies[c]) = sdk[c].attempt
  /\ sdk[c].pc \in {"confirm", "backoff", "ok", "failed"} => Len(copies[c]) = sdk[c].attempt + 1
  /\ sdk[c].attempt <= MaxRetries
  /\ sdk[c].pc = "backoff" => sdk[c].attempt < MaxRetries
  /\ \A i \in DOMAIN copies[c] : copies[c][i].target = sdk[c].target
  /\ sdk[c].pc = "ok" => CopiesWith(c, "executed") # {}

(* Where a run has seen its commitment confirmed, and where its file holds *)
(* its salt.                                                               *)
Landed == {"store", "write", "report", "ok"}

Stored == {"report", "ok"}

RunInv(j) ==
  /\ join[j].pc \in {"idle", "send"} => Len(copies[j]) = 0
  /\ join[j].pc \in {"poll"} \cup Landed => Len(copies[j]) = 1
  /\ Len(copies[j]) <= 1
  /\ join[j].pc \in {"idle", "send", "poll"} => join[j].polls < MaxPolls
  /\ join[j].pc # "idle" => join[j].target \in Targets
  /\ \A i \in DOMAIN copies[j] : copies[j][i].target = join[j].target
  /\ join[j].pc \in Landed => CopiesWith(j, "executed") # {}

OneCreator ==
  \A c, d \in Calls : \A i \in DOMAIN copies[c], k \in DOMAIN copies[d] :
    /\ copies[c][i].fate = "executed" /\ copies[d][k].fate = "executed"
    /\ copies[c][i].target = copies[d][k].target
    /\ copies[c][i].target # NoTarget
    => c = d /\ i = k

(* A salt in a file is that of a run that wrote it there.                  *)
FilesInv ==
  \A t \in Targets : \A j \in Joins : material[t] = j =>
    /\ join[j].pc \in Stored \cup {"failed"}
    /\ join[j].target = t
    /\ CopiesWith(j, "executed") # {}

StoredInv == \A j \in Joins : join[j].pc \in Stored => material[join[j].target] = j

IInv ==
  /\ TypeOK
  /\ \A c \in SdkCalls : CallInv(c)
  /\ \A j \in Joins : RunInv(j)
  /\ OneCreator
  /\ FilesInv
  /\ StoredInv

LEMMA OneCreatorStep ==
  ASSUME CopiesType, OneCreator, KeepsCopies, NEW a, NEW b, Executes(a, b)
  PROVE  OneCreator'
<1> SUFFICES ASSUME NEW c \in Calls, NEW d \in Calls,
                    NEW i \in DOMAIN copies'[c], NEW k \in DOMAIN copies'[d],
                    copies'[c][i].fate = "executed", copies'[d][k].fate = "executed",
                    copies'[c][i].target = copies'[d][k].target,
                    copies'[c][i].target # NoTarget
             PROVE  c = d /\ i = k
  BY DEF OneCreator
<1>1. /\ i \in DOMAIN copies[c] /\ k \in DOMAIN copies[d]
      /\ copies[c][i].fate = "executed" \/ (c = a /\ i = b /\ ~Exists(copies[c][i].target))
      /\ copies[d][k].fate = "executed" \/ (d = a /\ k = b /\ ~Exists(copies[d][k].target))
  BY DEF Executes
<1>2. /\ copies[c][i].target = copies[d][k].target
      /\ copies[c][i].target # NoTarget
  BY <1>1 DEF KeepsCopies
<1>3. ASSUME NEW e \in Calls, NEW n \in DOMAIN copies[e], copies[e][n].fate = "executed",
             copies[e][n].target # NoTarget
      PROVE  Exists(copies[e][n].target)
  BY <1>3 DEF Exists, CreatorsOf, CopiesWith
<1>4. CASE copies[c][i].fate = "executed" /\ copies[d][k].fate = "executed"
  BY <1>1, <1>2, <1>4 DEF OneCreator
<1>5. CASE copies[c][i].fate # "executed" /\ copies[d][k].fate = "executed"
  BY <1>1, <1>2, <1>3, <1>5
<1>6. CASE copies[c][i].fate = "executed" /\ copies[d][k].fate # "executed"
  BY <1>1, <1>2, <1>3, <1>6
<1>7. CASE copies[c][i].fate # "executed" /\ copies[d][k].fate # "executed"
  BY <1>1, <1>7
<1>8. QED
  BY <1>4, <1>5, <1>6, <1>7

(* A set of executed copies never becomes empty again.                     *)
LEMMA ExecutedStays ==
  ASSUME CopiesType, CopiesType', KeepsCopies, NEW c \in Calls,
         CopiesWith(c, "executed") # {}
  PROVE  CopiesWith(c, "executed")' # {}
<1>1. PICK i \in DOMAIN copies[c] : copies[c][i].fate = "executed"
  BY DEF CopiesWith
<1>2. copies[c] \in Seq(Copy) /\ copies'[c] \in Seq(Copy)
  BY DEF CopiesType
<1>3. i \in DOMAIN copies'[c]
  <2>1. i \in 1..Len(copies[c]) /\ Len(copies[c]) \in Nat /\ Len(copies'[c]) \in Nat
    BY <1>1, <1>2, LenProperties
  <2>2. i \in 1..Len(copies'[c])
    BY <2>1 DEF KeepsCopies
  <2>3. QED
    BY <1>2, <2>2, LenProperties
<1>4. copies'[c][i].fate = "executed"
  BY <1>1 DEF KeepsCopies
<1>5. QED
  BY <1>3, <1>4 DEF CopiesWith

-----------------------------------------------------------------------------
(***************************************************************************)
(* Initial states, and steps of the cluster.                               *)
(***************************************************************************)
LEMMA InitIInv == Init => IInv
<1> SUFFICES ASSUME Init
             PROVE  IInv
  OBVIOUS
<1> USE DEF Init, ClusterInit, SdkInit, JoinInit
<1>1. \A c \in Calls : copies[c] = <<>> /\ Len(copies[c]) = 0 /\ DOMAIN copies[c] = {}
  OBVIOUS
<1>2. TypeOK
  <2>1. copies \in [Calls -> Seq(Copy)]
    BY EmptySeq
  <2>2. sdk \in [SdkCalls -> Call]
    BY DEF Call
  <2>3. join \in [Joins -> Run]
    BY JoinAssumption DEF Run
  <2>4. material \in [Targets -> Joins \cup {NoFile, Torn}]
    OBVIOUS
  <2>5. QED
    BY <2>1, <2>2, <2>3, <2>4 DEF TypeOK
<1>3. \A c \in SdkCalls : CallInv(c)
  BY <1>1, SdkAssumption DEF CallInv
<1>4. \A j \in Joins : RunInv(j)
  BY <1>1, JoinAssumption DEF RunInv, Landed
<1>5. OneCreator
  BY <1>1 DEF OneCreator
<1>6. FilesInv /\ StoredInv
  BY JoinAssumption DEF FilesInv, StoredInv, Stored
<1>7. QED
  BY <1>2, <1>3, <1>4, <1>5, <1>6 DEF IInv

LEMMA LandStep ==
  ASSUME IInv, Land
  PROVE  IInv'
<1>0. PICK c \in Calls : \E i \in DOMAIN copies[c] : ClusterStep(c, i)
  BY DEF Land
<1>1. PICK i \in DOMAIN copies[c] : ClusterStep(c, i)
  BY <1>0
<1>2. CopiesType
  BY DEF IInv, TypeOK, CopiesType
<1>3. /\ CopiesType'
      /\ \A d \in Calls : Len(copies'[d]) = Len(copies[d])
      /\ KeepsCopies
      /\ Executes(c, i)
  BY <1>1, <1>2, ClusterFacts
<1>4. sdk' = sdk /\ join' = join /\ material' = material
  BY DEF Land
<1>5. TypeOK'
  BY <1>3, <1>4 DEF IInv, TypeOK, CopiesType
<1>6. ASSUME NEW d \in Calls
      PROVE  /\ DOMAIN copies'[d] = DOMAIN copies[d]
             /\ \A k \in DOMAIN copies[d] : copies'[d][k].target = copies[d][k].target
             /\ CopiesWith(d, "executed") # {} => CopiesWith(d, "executed")' # {}
  <2>1. DOMAIN copies'[d] = DOMAIN copies[d]
    BY <1>2, <1>3, LenProperties DEF CopiesType
  <2>2. QED
    BY <1>2, <1>3, <2>1, ExecutedStays DEF KeepsCopies
<1>7. ASSUME NEW d \in SdkCalls
      PROVE  CallInv(d)'
  <2>1. d \in Calls /\ CallInv(d)
    BY SdkAssumption DEF IInv
  <2>2. QED
    BY <1>3, <1>4, <1>6, <2>1 DEF CallInv
<1>8. ASSUME NEW j \in Joins
      PROVE  RunInv(j)'
  <2>1. j \in Calls /\ RunInv(j)
    BY JoinAssumption DEF IInv
  <2>2. QED
    BY <1>3, <1>4, <1>6, <2>1 DEF RunInv
<1>9. OneCreator'
  BY <1>2, <1>3, OneCreatorStep DEF IInv
<1>10. FilesInv' /\ StoredInv'
  BY <1>4, <1>6, JoinAssumption DEF IInv, FilesInv, StoredInv
<1>11. QED
  BY <1>5, <1>7, <1>8, <1>9, <1>10 DEF IInv

-----------------------------------------------------------------------------
(***************************************************************************)
(* Steps of a call of the SDK: only that call changes, and its copies only *)
(* by one it signs.                                                        *)
(***************************************************************************)
LEMMA SameCopies ==
  ASSUME CopiesType, copies' = copies
  PROVE  CopiesType' /\ KeepsCopies /\ Executes(0, 0)
<1>1. \A d \in Calls : Len(copies[d]) \in Nat
  BY LenProperties DEF CopiesType
<1>2. QED
  BY <1>1 DEF CopiesType, KeepsCopies, Executes

CallTypes ==
  /\ sdk' \in [SdkCalls -> Call]
  /\ join' = join /\ material' = material

LEMMA OneCallChanges ==
  ASSUME IInv, NEW c \in SdkCalls, CopiesType', KeepsCopies, NEW a, NEW b, Executes(a, b),
         \A d \in Calls \ {c} : copies'[d] = copies[d],
         CallTypes, \A d \in SdkCalls \ {c} : sdk'[d] = sdk[d],
         CallInv(c)'
  PROVE  IInv'
<1>1. TypeOK'
  BY DEF IInv, TypeOK, CopiesType, CallTypes
<1>2. ASSUME NEW d \in SdkCalls
      PROVE  CallInv(d)'
  <2>1. CASE d # c
    <3>1. d \in Calls /\ CallInv(d)
      BY SdkAssumption DEF IInv
    <3>2. sdk'[d] = sdk[d] /\ copies'[d] = copies[d]
      BY <2>1, <3>1
    <3>3. QED
      BY <3>1, <3>2 DEF CallInv, CopiesWith
  <2>2. QED
    BY <2>1
<1>3. ASSUME NEW j \in Joins
      PROVE  RunInv(j)'
  <2>1. j \in Calls \ {c} /\ RunInv(j)
    BY ClientsAssumption, JoinAssumption DEF IInv
  <2>2. join'[j] = join[j] /\ copies'[j] = copies[j]
    BY <2>1 DEF CallTypes
  <2>3. QED
    BY <2>1, <2>2 DEF RunInv, CopiesWith
<1>4. OneCreator'
  BY OneCreatorStep DEF IInv, TypeOK, CopiesType
<1>5. FilesInv' /\ StoredInv'
  <2>1. \A j \in Joins : CopiesWith(j, "executed")' = CopiesWith(j, "executed")
    BY ClientsAssumption, JoinAssumption DEF CopiesWith
  <2>2. QED
    BY <2>1 DEF IInv, FilesInv, StoredInv, CallTypes
<1>6. QED
  BY <1>1, <1>2, <1>3, <1>4, <1>5 DEF IInv

(* `sdk` after an error, and after a change of pc alone.                   *)
LEMMA ThrowFacts ==
  ASSUME sdk \in [SdkCalls -> Call], NEW c \in SdkCalls, NEW e \in Errors, Throw(c, e)
  PROVE  /\ sdk' \in [SdkCalls -> Call]
         /\ \A d \in SdkCalls \ {c} : sdk'[d] = sdk[d]
         /\ sdk'[c].attempt = sdk[c].attempt /\ sdk'[c].target = sdk[c].target
         /\ \/ sdk'[c].pc = "backoff" /\ sdk[c].attempt # MaxRetries
            \/ sdk'[c].pc = "failed"
<1> DEFINE call == sdk[c]
<1>1. call \in Call
  OBVIOUS
<1>3. CASE /\ sdk' = [sdk EXCEPT ![c].pc = "backoff"]
           /\ sdk[c].attempt # MaxRetries
  <2> DEFINE new == [call EXCEPT !.pc = "backoff"]
  <2>1. sdk' = [sdk EXCEPT ![c] = new]
    BY <1>3
  <2> HIDE DEF call
  <2>2. /\ new \in Call /\ new.pc = "backoff"
        /\ new.attempt = call.attempt /\ new.target = call.target
    BY <1>1 DEF Call
  <2> HIDE DEF new
  <2>3. QED
    BY <1>3, <2>1, <2>2 DEF call
<1>4. CASE sdk' = [sdk EXCEPT ![c].pc = "failed"]
  <2> DEFINE new == [call EXCEPT !.pc = "failed"]
  <2>1. sdk' = [sdk EXCEPT ![c] = new]
    BY <1>4
  <2> HIDE DEF call
  <2>2. /\ new \in Call /\ new.pc = "failed"
        /\ new.attempt = call.attempt /\ new.target = call.target
    BY <1>1 DEF Call
  <2> HIDE DEF new
  <2>3. QED
    BY <2>1, <2>2 DEF call
<1>5. QED
  BY <1>3, <1>4 DEF Throw, Exhausted

LEMMA PcFacts ==
  ASSUME sdk \in [SdkCalls -> Call], NEW c \in SdkCalls, NEW pc \in {"confirm", "ok"},
         sdk' = [sdk EXCEPT ![c].pc = pc]
  PROVE  /\ sdk' \in [SdkCalls -> Call]
         /\ \A d \in SdkCalls \ {c} : sdk'[d] = sdk[d]
         /\ sdk'[c].attempt = sdk[c].attempt /\ sdk'[c].target = sdk[c].target
         /\ sdk'[c].pc = pc
<1> DEFINE call == sdk[c]
           new  == [call EXCEPT !.pc = pc]
<1>1. call \in Call
  OBVIOUS
<1>2. sdk' = [sdk EXCEPT ![c] = new]
  OBVIOUS
<1> HIDE DEF call
<1>3. /\ new \in Call /\ new.pc = pc
      /\ new.attempt = call.attempt /\ new.target = call.target
  BY <1>1 DEF Call
<1> HIDE DEF new
<1>4. QED
  BY <1>2, <1>3 DEF call

LEMMA StartCallStep ==
  ASSUME IInv, NEW c \in SdkCalls, NEW t \in Targets \cup {NoTarget}, StartCall(c, t),
         join' = join, material' = material
  PROVE  IInv'
<1> DEFINE call == sdk[c]
           new  == [call EXCEPT !.pc = "send", !.target = t]
<1>1. CopiesType /\ sdk \in [SdkCalls -> Call] /\ call \in Call /\ c \in Calls
  BY SdkAssumption DEF IInv, TypeOK, CopiesType
<1>2. sdk' = [sdk EXCEPT ![c] = new] /\ copies' = copies /\ call.pc = "idle"
  BY DEF StartCall
<1>3. call.attempt = 0 /\ Len(copies[c]) = 0 /\ call.attempt <= MaxRetries
  BY <1>2 DEF IInv, CallInv
<1> HIDE DEF call
<1>4. /\ new \in Call /\ new.pc = "send"
      /\ new.attempt = call.attempt /\ new.target = t
  BY <1>1 DEF Call
<1> HIDE DEF new
<1>5. sdk' \in [SdkCalls -> Call] /\ sdk'[c] = new /\ \A d \in SdkCalls \ {c} : sdk'[d] = sdk[d]
  BY <1>1, <1>2, <1>4
<1>6. DOMAIN copies[c] = {}
  <2>1. DOMAIN copies[c] = 1..0
    BY <1>1, <1>3, LenProperties DEF CopiesType
  <2>2. QED
    BY <2>1
<1>7. CallInv(c)'
  BY <1>2, <1>3, <1>4, <1>5, <1>6 DEF CallInv
<1>8. QED
  BY <1>1, <1>2, <1>5, <1>7, SameCopies, OneCallChanges DEF CallTypes

(* An attempt: one copy more, and the call waits, backs off or gives up.   *)
LEMMA AttemptStep ==
  ASSUME IInv, NEW c \in SdkCalls, NEW fate \in {"pending", "expired"},
         sdk[c].pc = "send", Sign(c, fate, AddressOf(c)),
         CallTypes, \A d \in SdkCalls \ {c} : sdk'[d] = sdk[d],
         sdk'[c].attempt = sdk[c].attempt, sdk'[c].target = sdk[c].target,
         \/ sdk'[c].pc \in {"confirm", "failed"}
         \/ sdk'[c].pc = "backoff" /\ sdk[c].attempt # MaxRetries
  PROVE  IInv'
<1>1. CopiesType /\ sdk[c] \in Call /\ c \in Calls /\ CallInv(c)
  BY SdkAssumption DEF IInv, TypeOK, CopiesType
<1>2. AddressOf(c) = sdk[c].target /\ sdk[c].target \in Targets \cup {NoTarget}
  BY <1>1 DEF AddressOf, Call
<1>3. /\ CopiesType'
      /\ Len(copies'[c]) = Len(copies[c]) + 1
      /\ copies'[c][Len(copies[c]) + 1].target = sdk[c].target
      /\ \A d \in Calls \ {c} : copies'[d] = copies[d]
      /\ KeepsCopies
      /\ Executes(c, 0)
  BY <1>1, <1>2, SignedFacts
<1>4. Len(copies[c]) = sdk[c].attempt /\ sdk[c].attempt <= MaxRetries
  BY <1>1 DEF CallInv
<1>5. sdk[c].attempt \in Nat /\ MaxRetries \in Nat
  BY <1>1, SdkAssumption DEF Call
<1>6. ASSUME NEW i \in DOMAIN copies'[c]
      PROVE  copies'[c][i].target = sdk'[c].target
  <2>1. i \in 1..(Len(copies[c]) + 1) /\ DOMAIN copies[c] = 1..Len(copies[c])
        /\ Len(copies[c]) \in Nat
    BY <1>1, <1>3, LenProperties DEF CopiesType
  <2>2. CASE i = Len(copies[c]) + 1
    BY <1>3, <2>2
  <2>3. CASE i # Len(copies[c]) + 1
    <3>1. i \in DOMAIN copies[c]
      BY <2>1, <2>3
    <3>2. QED
      BY <1>1, <1>3, <3>1 DEF KeepsCopies, CallInv
  <2>4. QED
    BY <2>2, <2>3
<1>7. CallInv(c)'
  BY <1>3, <1>4, <1>5, <1>6 DEF CallInv
<1>8. QED
  BY <1>3, <1>7, OneCallChanges

(* The end of an attempt: no copy more, and the call is done, backs off or *)
(* gives up.                                                               *)
LEMMA AnswerStep ==
  ASSUME IInv, NEW c \in SdkCalls, sdk[c].pc = "confirm", copies' = copies,
         CallTypes, \A d \in SdkCalls \ {c} : sdk'[d] = sdk[d],
         sdk'[c].attempt = sdk[c].attempt, sdk'[c].target = sdk[c].target,
         \/ sdk'[c].pc = "ok" /\ CopiesWith(c, "executed") # {}
         \/ sdk'[c].pc = "failed"
         \/ sdk'[c].pc = "backoff" /\ sdk[c].attempt # MaxRetries
  PROVE  IInv'
<1>1. CopiesType /\ sdk[c] \in Call /\ CallInv(c)
  BY DEF IInv, TypeOK, CopiesType
<1>2. sdk[c].attempt \in Nat /\ MaxRetries \in Nat
  BY <1>1, SdkAssumption DEF Call
<1>3. CallInv(c)'
  BY <1>1, <1>2 DEF CallInv, CopiesWith
<1>4. QED
  BY <1>1, <1>3, SameCopies, OneCallChanges

LEMMA RetryStep ==
  ASSUME IInv, NEW c \in SdkCalls, Retry(c), join' = join, material' = material
  PROVE  IInv'
<1> DEFINE call == sdk[c]
           more == call.attempt + 1
           new  == [call EXCEPT !.pc = "send", !.attempt = more]
<1>1. CopiesType /\ sdk \in [SdkCalls -> Call] /\ call \in Call /\ CallInv(c)
  BY DEF IInv, TypeOK, CopiesType
<1>2. sdk' = [sdk EXCEPT ![c] = new] /\ copies' = copies /\ call.pc = "backoff"
  BY DEF Retry
<1>3. Len(copies[c]) = call.attempt + 1 /\ call.attempt < MaxRetries
  BY <1>1, <1>2 DEF CallInv
<1>4. \A i \in DOMAIN copies[c] : copies[c][i].target = call.target
  BY <1>1 DEF CallInv
<1> HIDE DEF call
<1>5. call.attempt \in Nat /\ MaxRetries \in Nat /\ more \in Nat /\ more = call.attempt + 1
  BY <1>1, SdkAssumption DEF Call
<1> HIDE DEF more
<1>6. /\ new \in Call /\ new.pc = "send"
      /\ new.attempt = more /\ new.target = call.target
  BY <1>1, <1>5 DEF Call
<1> HIDE DEF new
<1>7. sdk' \in [SdkCalls -> Call] /\ sdk'[c] = new /\ \A d \in SdkCalls \ {c} : sdk'[d] = sdk[d]
  BY <1>1, <1>2, <1>6
<1>8. CallInv(c)'
  BY <1>2, <1>3, <1>4, <1>5, <1>6, <1>7 DEF CallInv
<1>9. QED
  BY <1>1, <1>2, <1>7, <1>8, SameCopies, OneCallChanges DEF CallTypes

LEMMA SendStep ==
  ASSUME IInv, NEW c \in SdkCalls, Send(c) \/ PreflightRefuses(c),
         join' = join, material' = material
  PROVE  IInv'
<1>1. sdk \in [SdkCalls -> Call] /\ sdk[c].pc = "send"
  BY DEF IInv, TypeOK, Send, PreflightRefuses
<1>2. CASE Sign(c, "pending", AddressOf(c)) /\ sdk' = [sdk EXCEPT ![c].pc = "confirm"]
  <2>1. /\ sdk' \in [SdkCalls -> Call]
        /\ \A d \in SdkCalls \ {c} : sdk'[d] = sdk[d]
        /\ sdk'[c].attempt = sdk[c].attempt /\ sdk'[c].target = sdk[c].target
        /\ sdk'[c].pc = "confirm"
    BY <1>1, <1>2, PcFacts
  <2>2. QED
    BY <1>1, <1>2, <2>1, AttemptStep DEF CallTypes
<1>3. ASSUME NEW fate \in {"pending", "expired"}, NEW e \in Errors,
             Sign(c, fate, AddressOf(c)), Throw(c, e)
      PROVE  IInv'
  <2>1. /\ sdk' \in [SdkCalls -> Call]
        /\ \A d \in SdkCalls \ {c} : sdk'[d] = sdk[d]
        /\ sdk'[c].attempt = sdk[c].attempt /\ sdk'[c].target = sdk[c].target
        /\ \/ sdk'[c].pc = "backoff" /\ sdk[c].attempt # MaxRetries
           \/ sdk'[c].pc = "failed"
    BY <1>1, <1>3, ThrowFacts
  <2>2. QED
    BY <1>1, <1>3, <2>1, AttemptStep DEF CallTypes
<1>4. QED
  BY <1>2, <1>3 DEF Send, PreflightRefuses, Errors

LEMMA AwaitStep ==
  ASSUME IInv, NEW c \in SdkCalls, AwaitConfirmation(c), join' = join, material' = material
  PROVE  IInv'
<1>1. sdk \in [SdkCalls -> Call] /\ sdk[c].pc = "confirm" /\ copies' = copies
  BY DEF IInv, TypeOK, AwaitConfirmation
<1>2. CASE Confirmed(c) /\ sdk' = [sdk EXCEPT ![c].pc = "ok"]
  <2>1. /\ sdk' \in [SdkCalls -> Call]
        /\ \A d \in SdkCalls \ {c} : sdk'[d] = sdk[d]
        /\ sdk'[c].attempt = sdk[c].attempt /\ sdk'[c].target = sdk[c].target
        /\ sdk'[c].pc = "ok"
    BY <1>1, <1>2, PcFacts
  <2>2. CopiesWith(c, "executed") # {}
    <3>1. copies[c] \in Seq(Copy) /\ CallInv(c) /\ sdk[c].attempt \in Nat
      BY <1>1, SdkAssumption DEF IInv, TypeOK, Call
    <3>2. Len(copies[c]) \in DOMAIN copies[c]
      BY <1>1, <3>1, LenProperties DEF CallInv
    <3>3. QED
      BY <1>2, <3>2 DEF Confirmed, Last, CopiesWith
  <2>3. QED
    BY <1>1, <2>1, <2>2, AnswerStep DEF CallTypes
<1>3. ASSUME NEW e \in Errors, Throw(c, e)
      PROVE  IInv'
  <2>1. /\ sdk' \in [SdkCalls -> Call]
        /\ \A d \in SdkCalls \ {c} : sdk'[d] = sdk[d]
        /\ sdk'[c].attempt = sdk[c].attempt /\ sdk'[c].target = sdk[c].target
        /\ \/ sdk'[c].pc = "backoff" /\ sdk[c].attempt # MaxRetries
           \/ sdk'[c].pc = "failed"
    BY <1>1, <1>3, ThrowFacts
  <2>2. QED
    BY <1>1, <2>1, AnswerStep DEF CallTypes
<1>4. QED
  BY <1>2, <1>3 DEF AwaitConfirmation, Errors

LEMMA SdkStepIInv ==
  ASSUME IInv, SdkStep, join' = join, material' = material
  PROVE  IInv'
BY StartCallStep, SendStep, AwaitStep, RetryStep DEF SdkStep, CallStep

-----------------------------------------------------------------------------
(***************************************************************************)
(* Steps of a run of `mix join`.                                           *)
(***************************************************************************)
RunTypes ==
  /\ join' \in [Joins -> Run]
  /\ sdk' = sdk

LEMMA OneRunChanges ==
  ASSUME IInv, NEW j \in Joins, CopiesType', KeepsCopies, NEW a, NEW b, Executes(a, b),
         \A d \in Calls \ {j} : copies'[d] = copies[d],
         RunTypes, \A d \in Joins \ {j} : join'[d] = join[d],
         material' \in [Targets -> Joins \cup {NoFile, Torn}],
         RunInv(j)', FilesInv', StoredInv'
  PROVE  IInv'
<1>1. TypeOK'
  BY DEF IInv, TypeOK, CopiesType, RunTypes
<1>2. ASSUME NEW d \in Joins
      PROVE  RunInv(d)'
  <2>1. CASE d # j
    <3>1. d \in Calls /\ RunInv(d)
      BY JoinAssumption DEF IInv
    <3>2. join'[d] = join[d] /\ copies'[d] = copies[d]
      BY <2>1, <3>1
    <3>3. QED
      BY <3>1, <3>2 DEF RunInv, CopiesWith
  <2>2. QED
    BY <2>1
<1>3. ASSUME NEW c \in SdkCalls
      PROVE  CallInv(c)'
  <2>1. c \in Calls \ {j} /\ CallInv(c)
    BY ClientsAssumption, SdkAssumption DEF IInv
  <2>2. sdk'[c] = sdk[c] /\ copies'[c] = copies[c]
    BY <2>1 DEF RunTypes
  <2>3. QED
    BY <2>1, <2>2 DEF CallInv, CopiesWith
<1>4. OneCreator'
  BY OneCreatorStep DEF IInv, TypeOK, CopiesType
<1>5. QED
  BY <1>1, <1>2, <1>3, <1>4 DEF IInv

(* A run that writes to no file: it keeps what it has stored, and is no     *)
(* further than it was.                                                    *)
Quiet(j) ==
  /\ join[j].pc \notin {"ok", "failed"}
  /\ join'[j].pc # "report"
  /\ join'[j].pc = "ok" => join[j].pc = "report"
  /\ join[j].pc = "report" =>
       join'[j].pc \in {"ok", "failed"} /\ join'[j].target = join[j].target

LEMMA FilesKept ==
  ASSUME IInv, NEW j \in Joins, Quiet(j), CopiesType', KeepsCopies,
         \A d \in Joins \ {j} : join'[d] = join[d], material' = material
  PROVE  /\ FilesInv' /\ StoredInv'
         /\ material' \in [Targets -> Joins \cup {NoFile, Torn}]
<1>1. material \in [Targets -> Joins \cup {NoFile, Torn}]
  BY DEF IInv, TypeOK
<1>2. ASSUME NEW t \in Targets, NEW d \in Joins, material[t] = d
      PROVE  /\ join'[d].pc \in Stored \cup {"failed"}
             /\ join'[d].target = t
             /\ CopiesWith(d, "executed")' # {}
  <2>1. /\ join[d].pc \in Stored \cup {"failed"} /\ join[d].target = t
        /\ CopiesWith(d, "executed") # {}
    BY <1>2 DEF IInv, FilesInv
  <2>2. CopiesWith(d, "executed")' # {}
    BY <2>1, ExecutedStays, JoinAssumption DEF IInv, TypeOK, CopiesType
  <2>3. QED
    BY <2>1, <2>2 DEF Quiet, Stored
<1>3. FilesInv'
  BY <1>2 DEF FilesInv
<1>4. StoredInv'
  BY DEF IInv, StoredInv, Stored, Quiet
<1>5. QED
  BY <1>1, <1>3, <1>4

LEMMA GoesFacts ==
  ASSUME join \in [Joins -> Run], NEW j \in Joins,
         NEW pc \in {"poll", "failed"} \cup Landed, Goes(j, pc)
  PROVE  /\ join' \in [Joins -> Run]
         /\ \A d \in Joins \ {j} : join'[d] = join[d]
         /\ join'[j].pc = pc
         /\ join'[j].target = join[j].target /\ join'[j].polls = join[j].polls
<1> DEFINE run == join[j]
           new == [run EXCEPT !.pc = pc]
<1>1. run \in Run
  OBVIOUS
<1>2. join' = [join EXCEPT ![j] = new]
  BY DEF Goes
<1> HIDE DEF run
<1>3. new \in Run /\ new.pc = pc /\ new.target = run.target /\ new.polls = run.polls
  BY <1>1 DEF Run, Landed
<1> HIDE DEF new
<1>4. QED
  BY <1>2, <1>3 DEF run

(* A run that writes to no file and signs nothing.                         *)
LEMMA UnsentRunStep ==
  ASSUME IInv, NEW j \in Joins, copies' = copies, material' = material, RunTypes,
         \A d \in Joins \ {j} : join'[d] = join[d],
         Quiet(j), RunInv(j)'
  PROVE  IInv'
<1>1. CopiesType
  BY DEF IInv, TypeOK, CopiesType
<1>2. CopiesType' /\ KeepsCopies /\ Executes(0, 0)
  BY <1>1, SameCopies
<1>3. /\ FilesInv' /\ StoredInv'
      /\ material' \in [Targets -> Joins \cup {NoFile, Torn}]
  BY <1>2, FilesKept
<1>4. QED
  BY <1>2, <1>3, OneRunChanges

LEMMA BeginJoinStep ==
  ASSUME IInv, NEW j \in Joins, NEW t \in Targets, BeginJoin(j, t), sdk' = sdk
  PROVE  IInv'
<1> DEFINE run == join[j]
           new == [run EXCEPT !.pc = "send", !.target = t]
<1>1. /\ CopiesType /\ join \in [Joins -> Run] /\ run \in Run
      /\ RunInv(j) /\ j \in Calls
  BY JoinAssumption DEF IInv, TypeOK, CopiesType
<1>2. /\ join' = [join EXCEPT ![j] = new]
      /\ copies' = copies /\ material' = material /\ join[j].pc = "idle"
  BY DEF BeginJoin
<1>3. Len(copies[j]) = 0 /\ join[j].polls < MaxPolls
  BY <1>1, <1>2 DEF RunInv
<1>4. DOMAIN copies[j] = {}
  <2>1. DOMAIN copies[j] = 1..0
    BY <1>1, <1>3, LenProperties DEF CopiesType
  <2>2. QED
    BY <2>1
<1> HIDE DEF run
<1>5. new \in Run /\ new.pc = "send" /\ new.target = t /\ new.polls = run.polls
  BY <1>1 DEF Run
<1> HIDE DEF new
<1>6. /\ join' \in [Joins -> Run] /\ join'[j] = new
      /\ \A d \in Joins \ {j} : join'[d] = join[d]
  BY <1>1, <1>2, <1>5
<1>7. RunInv(j)'
  BY <1>2, <1>3, <1>4, <1>5, <1>6 DEF RunInv, Landed, run
<1>8. Quiet(j)
  BY <1>2, <1>5, <1>6 DEF Quiet
<1>9. QED
  BY <1>2, <1>5, <1>6, <1>7, <1>8, UnsentRunStep DEF RunTypes

(* Where a run fails, nothing but its own pc has changed.                  *)
LEMMA FailStep ==
  ASSUME IInv, NEW j \in Joins, join[j].pc \in {"send", "poll", "store", "write", "report"},
         Goes(j, "failed"), copies' = copies, material' = material, sdk' = sdk
  PROVE  IInv'
<1>1. join \in [Joins -> Run] /\ RunInv(j)
  BY DEF IInv, TypeOK
<1>2. /\ join' \in [Joins -> Run]
      /\ \A d \in Joins \ {j} : join'[d] = join[d]
      /\ join'[j].pc = "failed"
      /\ join'[j].target = join[j].target /\ join'[j].polls = join[j].polls
  BY <1>1, GoesFacts
<1>3. RunInv(j)'
  BY <1>1, <1>2 DEF RunInv, Landed
<1>4. Quiet(j)
  BY <1>2 DEF Quiet
<1>5. QED
  BY <1>2, <1>3, <1>4, UnsentRunStep DEF RunTypes

LEMMA SubmitStep ==
  ASSUME IInv, NEW j \in Joins, SubmitJoin(j), sdk' = sdk
  PROVE  IInv'
<1>1. /\ CopiesType /\ join \in [Joins -> Run] /\ join[j] \in Run
      /\ RunInv(j) /\ j \in Calls
  BY JoinAssumption DEF IInv, TypeOK, CopiesType
<1>2. join[j].pc = "send" /\ material' = material
  BY DEF SubmitJoin
<1>3. Len(copies[j]) = 0 /\ join[j].polls < MaxPolls /\ join[j].target \in Targets
  BY <1>1, <1>2 DEF RunInv
<1>4. ASSUME NEW pc \in {"poll", "failed"}, Goes(j, pc), Sign(j, "pending", join[j].target)
      PROVE  IInv'
  <2>1. /\ join' \in [Joins -> Run]
        /\ \A d \in Joins \ {j} : join'[d] = join[d]
        /\ join'[j].pc = pc
        /\ join'[j].target = join[j].target /\ join'[j].polls = join[j].polls
    BY <1>1, <1>4, GoesFacts
  <2>2. /\ CopiesType'
        /\ Len(copies'[j]) = Len(copies[j]) + 1
        /\ copies'[j][Len(copies[j]) + 1].target = join[j].target
        /\ \A d \in Calls \ {j} : copies'[d] = copies[d]
        /\ KeepsCopies
        /\ Executes(j, 0)
    BY <1>1, <1>3, <1>4, SignedFacts
  <2>3. ASSUME NEW i \in DOMAIN copies'[j]
        PROVE  copies'[j][i].target = join'[j].target
    <3>1. i \in 1..1
      BY <1>1, <1>3, <2>2, LenProperties DEF CopiesType
    <3>2. QED
      BY <1>3, <2>1, <2>2, <3>1
  <2>4. RunInv(j)'
    BY <1>3, <2>1, <2>2, <2>3 DEF RunInv, Landed
  <2>5. /\ FilesInv' /\ StoredInv'
        /\ material' \in [Targets -> Joins \cup {NoFile, Torn}]
    <3>1. Quiet(j)
      BY <1>2, <2>1 DEF Quiet
    <3>2. QED
      BY <1>2, <2>1, <2>2, <3>1, FilesKept
  <2>6. QED
    BY <2>1, <2>2, <2>4, <2>5, OneRunChanges DEF RunTypes
<1>5. CASE Goes(j, "failed") /\ copies' = copies
  BY <1>2, <1>5, FailStep
<1>6. QED
  BY <1>4, <1>5 DEF SubmitJoin

LEMMA PollStep ==
  ASSUME IInv, NEW j \in Joins, PollStatus(j), sdk' = sdk
  PROVE  IInv'
<1>1. /\ CopiesType /\ join \in [Joins -> Run] /\ join[j] \in Run
      /\ RunInv(j) /\ copies[j] \in Seq(Copy)
  BY JoinAssumption DEF IInv, TypeOK, CopiesType
<1>2. join[j].pc = "poll" /\ copies' = copies /\ material' = material
  BY DEF PollStatus
<1>3. CASE ConfirmedStatus(j) /\ Goes(j, "store")
  <2>1. /\ join' \in [Joins -> Run]
        /\ \A d \in Joins \ {j} : join'[d] = join[d]
        /\ join'[j].pc = "store"
        /\ join'[j].target = join[j].target /\ join'[j].polls = join[j].polls
    BY <1>1, <1>3, GoesFacts DEF Landed
  <2>2. CopiesWith(j, "executed") # {}
    <3>1. Len(copies[j]) = 1
      BY <1>1, <1>2 DEF RunInv
    <3>2. Len(copies[j]) \in DOMAIN copies[j]
      BY <1>1, <3>1, LenProperties
    <3>3. QED
      BY <1>3, <3>2 DEF ConfirmedStatus, FateSeen, CopiesWith
  <2>3. RunInv(j)'
    BY <1>1, <1>2, <2>1, <2>2 DEF RunInv, CopiesWith, Landed
  <2>4. Quiet(j)
    BY <1>2, <2>1 DEF Quiet
  <2>5. QED
    BY <1>2, <2>1, <2>3, <2>4, UnsentRunStep DEF RunTypes
<1>4. CASE PollsAgain(j)
  <2> DEFINE run  == join[j]
             pc   == IF run.polls + 1 = MaxPolls THEN "failed" ELSE "poll"
             more == run.polls + 1
             new  == [run EXCEPT !.polls = more, !.pc = pc]
  <2>1. join' = [join EXCEPT ![j] = new]
    BY <1>4 DEF PollsAgain
  <2>2. run \in Run /\ run.polls \in Nat /\ run.polls < MaxPolls /\ MaxPolls \in Nat
    BY <1>1, <1>2, JoinAssumption DEF RunInv, Run
  <2>3. /\ more \in 0..MaxPolls /\ pc \in {"failed", "poll"}
        /\ pc = "poll" => more < MaxPolls
    BY <2>2
  <2> HIDE DEF more, pc, run
  <2>4. new \in Run /\ new.pc = pc /\ new.polls = more /\ new.target = run.target
    BY <2>2, <2>3 DEF Run
  <2> HIDE DEF new
  <2>5. /\ join' \in [Joins -> Run] /\ join'[j] = new
        /\ \A d \in Joins \ {j} : join'[d] = join[d]
    BY <1>1, <2>1, <2>4
  <2>6. RunInv(j)'
    BY <1>1, <1>2, <2>3, <2>4, <2>5 DEF RunInv, Landed, run
  <2>7. Quiet(j)
    BY <1>2, <2>3, <2>4, <2>5 DEF Quiet
  <2>8. QED
    BY <1>2, <2>3, <2>4, <2>5, <2>6, <2>7, UnsentRunStep DEF RunTypes
<1>5. CASE Goes(j, "failed")
  BY <1>2, <1>5, FailStep
<1>6. QED
  BY <1>3, <1>4, <1>5 DEF PollStatus

(* A run that is done, or about to store its salt, created its account.    *)
LEMMA CreatorIsUnique ==
  ASSUME IInv, NEW c \in Calls, NEW d \in Calls, NEW t \in Targets,
         CopiesWith(c, "executed") # {}, CopiesWith(d, "executed") # {},
         \A i \in DOMAIN copies[c] : copies[c][i].target = t,
         \A i \in DOMAIN copies[d] : copies[d][i].target = t
  PROVE  c = d
<1>1. PICK i \in DOMAIN copies[c] : copies[c][i].fate = "executed"
  BY DEF CopiesWith
<1>2. PICK k \in DOMAIN copies[d] : copies[d][k].fate = "executed"
  BY DEF CopiesWith
<1>3. QED
  BY <1>1, <1>2, ClusterAssumption DEF IInv, OneCreator

(* Emptying the file and filling it are for the run whose commitment is on  *)
(* chain: no other run has a salt there.                                   *)
LEMMA FileStep ==
  ASSUME IInv, NEW j \in Joins, copies' = copies, sdk' = sdk, NEW pc, NEW content, Goes(j, pc),
         \/ join[j].pc = "store" /\ pc = "write" /\ content = Torn
         \/ join[j].pc = "write" /\ pc = "report" /\ content = j,
         material' = [material EXCEPT ![join[j].target] = content]
  PROVE  IInv'
<1> DEFINE t == join[j].target
<1>1. /\ CopiesType /\ join \in [Joins -> Run] /\ RunInv(j) /\ j \in Calls
      /\ material \in [Targets -> Joins \cup {NoFile, Torn}]
  BY JoinAssumption DEF IInv, TypeOK, CopiesType
<1>2. pc \in Landed /\ join[j].pc \in Landed /\ join[j].pc \notin Stored \cup {"failed"}
  BY DEF Landed, Stored
<1>3. /\ join' \in [Joins -> Run]
      /\ \A d \in Joins \ {j} : join'[d] = join[d]
      /\ join'[j].pc = pc
      /\ join'[j].target = join[j].target /\ join'[j].polls = join[j].polls
  BY <1>1, <1>2, GoesFacts
<1>4. /\ CopiesWith(j, "executed") # {} /\ t \in Targets
      /\ \A i \in DOMAIN copies[j] : copies[j][i].target = t
  BY <1>1, <1>2 DEF RunInv, Landed
<1>5. RunInv(j)'
  BY <1>1, <1>2, <1>3 DEF RunInv, Landed, CopiesWith
<1>6. /\ material' \in [Targets -> Joins \cup {NoFile, Torn}]
      /\ material'[t] = content
      /\ \A u \in Targets \ {t} : material'[u] = material[u]
  BY <1>1, <1>4
<1>7. ASSUME NEW d \in Joins \ {j}, join[d].pc \in Stored
      PROVE  join[d].target # t
  <2>1. RunInv(d) /\ d \in Calls
    BY JoinAssumption DEF IInv
  <2>2. SUFFICES ASSUME join[d].target = t
                 PROVE  FALSE
    OBVIOUS
  <2>3. /\ CopiesWith(d, "executed") # {}
        /\ \A i \in DOMAIN copies[d] : copies[d][i].target = t
    BY <1>7, <2>1, <2>2 DEF RunInv, Landed, Stored
  <2>4. d = j
    BY <1>1, <1>4, <2>1, <2>3, CreatorIsUnique
  <2>5. QED
    BY <2>4
<1>8. FilesInv'
  <2>1. ASSUME NEW u \in Targets, NEW d \in Joins, material'[u] = d
        PROVE  /\ join'[d].pc \in Stored \cup {"failed"}
               /\ join'[d].target = u
               /\ CopiesWith(d, "executed")' # {}
    <3>1. CASE u = t
      <4>1. d = j /\ pc = "report"
        BY <1>6, <2>1, <3>1, JoinAssumption
      <4>2. QED
        BY <1>3, <1>4, <3>1, <4>1 DEF Stored, CopiesWith
    <3>2. CASE u # t
      <4>1. material[u] = d
        BY <1>6, <2>1, <3>2
      <4>2. /\ join[d].pc \in Stored \cup {"failed"} /\ join[d].target = u
            /\ CopiesWith(d, "executed") # {}
        BY <2>1, <4>1 DEF IInv, FilesInv
      <4>3. join'[d] = join[d]
        BY <1>2, <1>3, <4>2
      <4>4. QED
        BY <4>2, <4>3 DEF CopiesWith
    <3>3. QED
      BY <3>1, <3>2
  <2>2. QED
    BY <2>1 DEF FilesInv
<1>9. StoredInv'
  <2>1. ASSUME NEW d \in Joins, join'[d].pc \in Stored
        PROVE  material'[join'[d].target] = d
    <3>1. CASE d = j
      BY <1>3, <1>6, <2>1, <3>1 DEF Stored
    <3>2. CASE d # j
      <4>1. join'[d] = join[d] /\ join[d].pc \in Stored /\ join[d].target # t
        BY <1>3, <1>7, <2>1, <3>2
      <4>2. join[d].target \in Targets /\ material[join[d].target] = d
        BY <4>1 DEF IInv, RunInv, StoredInv, Stored
      <4>3. QED
        BY <1>6, <4>1, <4>2
    <3>3. QED
      BY <3>1, <3>2
  <2>2. QED
    BY <2>1 DEF StoredInv
<1>10. CopiesType' /\ KeepsCopies /\ Executes(0, 0)
  BY <1>1, SameCopies
<1>11. QED
  BY <1>3, <1>5, <1>6, <1>8, <1>9, <1>10, OneRunChanges DEF RunTypes

LEMMA OpenStep ==
  ASSUME IInv, NEW j \in Joins, OpenFile(j), sdk' = sdk
  PROVE  IInv'
<1>1. CASE material' = [material EXCEPT ![join[j].target] = Torn] /\ Goes(j, "write")
  BY <1>1, FileStep DEF OpenFile
<1>2. CASE Goes(j, "failed") /\ material' = material
  BY <1>2, FailStep DEF OpenFile
<1>3. QED
  BY <1>1, <1>2 DEF OpenFile

LEMMA WriteStep ==
  ASSUME IInv, NEW j \in Joins, WriteFile(j), sdk' = sdk
  PROVE  IInv'
<1>1. CASE material' = [material EXCEPT ![join[j].target] = j] /\ Goes(j, "report")
  BY <1>1, FileStep DEF WriteFile
<1>2. CASE Goes(j, "failed") /\ material' = material
  BY <1>2, FailStep DEF WriteFile
<1>3. QED
  BY <1>1, <1>2 DEF WriteFile

LEMMA ReportStep ==
  ASSUME IInv, NEW j \in Joins, Report(j), sdk' = sdk
  PROVE  IInv'
<1>1. /\ join \in [Joins -> Run] /\ RunInv(j) /\ join[j].pc = "report" /\ Goes(j, "ok")
      /\ copies' = copies /\ material' = material
  BY DEF IInv, TypeOK, Report
<1>2. /\ join' \in [Joins -> Run]
      /\ \A d \in Joins \ {j} : join'[d] = join[d]
      /\ join'[j].pc = "ok"
      /\ join'[j].target = join[j].target /\ join'[j].polls = join[j].polls
  BY <1>1, GoesFacts DEF Landed
<1>3. RunInv(j)'
  BY <1>1, <1>2 DEF RunInv, Landed, CopiesWith
<1>4. Quiet(j)
  BY <1>1, <1>2 DEF Quiet
<1>5. QED
  BY <1>1, <1>2, <1>3, <1>4, UnsentRunStep DEF RunTypes

LEMMA JoinStepIInv ==
  ASSUME IInv, JoinStep, sdk' = sdk
  PROVE  IInv'
<1>1. PICK j \in Joins : RunStep(j) \/ Interrupt(j) \/ \E t \in Targets : BeginJoin(j, t)
  BY DEF JoinStep
<1>2. CASE Interrupt(j)
  BY <1>2, FailStep DEF Interrupt
<1>3. CASE \E t \in Targets : BeginJoin(j, t)
  BY <1>3, BeginJoinStep
<1>4. CASE RunStep(j)
  BY <1>4, SubmitStep, PollStep, OpenStep, WriteStep, ReportStep DEF RunStep
<1>5. QED
  BY <1>1, <1>2, <1>3, <1>4

LEMMA NextIInv ==
  ASSUME IInv, [Next]_clientVars
  PROVE  IInv'
<1>1. CASE Land
  BY <1>1, LandStep
<1>2. CASE SdkStep /\ UNCHANGED <<join, material>>
  BY <1>2, SdkStepIInv
<1>3. CASE JoinStep /\ UNCHANGED sdk
  BY <1>3, JoinStepIInv
<1>4. CASE UNCHANGED clientVars
  BY <1>4 DEF clientVars, IInv, TypeOK, CallInv, RunInv, OneCreator, FilesInv,
              StoredInv, CopiesWith
<1>5. QED
  BY <1>1, <1>2, <1>3, <1>4 DEF Next

LEMMA Invariance == Spec => []IInv
<1>1. Init => IInv
  BY InitIInv
<1>2. IInv /\ [Next]_clientVars => IInv'
  BY NextIInv
<1>3. QED
  BY <1>1, <1>2, PTL DEF Spec

-----------------------------------------------------------------------------
(***************************************************************************)
(* Calls, runs, copies and files have the values the code gives them.      *)
(***************************************************************************)
THEOREM TypeCorrect == Spec => []TypeOK
<1>1. IInv => TypeOK
  BY DEF IInv
<1>2. QED
  BY <1>1, Invariance, PTL

(***************************************************************************)
(* `retry` signs one transaction per attempt and makes maxRetries + 1      *)
(* attempts at most, whatever errors it meets.                             *)
(***************************************************************************)
THEOREM RetriesCorrect == Spec => []RetriesAreBounded
<1>1. ASSUME IInv, NEW c \in SdkCalls
      PROVE  Len(copies[c]) <= MaxRetries + 1
  <2>1. CallInv(c) /\ sdk[c] \in Call
    BY <1>1 DEF IInv, TypeOK
  <2>2. sdk[c].attempt \in Nat /\ MaxRetries \in Nat
        /\ sdk[c].pc \in {"idle", "send", "confirm", "backoff", "ok", "failed"}
    BY <2>1, SdkAssumption DEF Call
  <2>3. QED
    BY <2>1, <2>2 DEF CallInv
<1>2. IInv => RetriesAreBounded
  BY <1>1 DEF RetriesAreBounded
<1>3. QED
  BY <1>2, Invariance, PTL

(***************************************************************************)
(* A signature that a client takes for confirmed is of a copy that was     *)
(* executed, and no later step takes that back.                            *)
(***************************************************************************)
THEOREM DoneCorrect == Spec => []DoneIsFinal
<1>1. IInv => DoneIsFinal
  BY DEF IInv, CallInv, RunInv, Landed, DoneIsFinal
<1>2. QED
  BY <1>1, Invariance, PTL

(***************************************************************************)
(* A call of the SDK that creates an account is executed once at most,     *)
(* however many transactions it signs.                                     *)
(***************************************************************************)
THEOREM CreatingCallsCorrect == Spec => []CreatingCallsLandOnce
<1>1. ASSUME IInv, NEW c \in SdkCalls, sdk[c].target # NoTarget
      PROVE  Cardinality(CopiesWith(c, "executed")) <= 1
  <2> DEFINE done == CopiesWith(c, "executed")
  <2>1. c \in Calls /\ CallInv(c) /\ OneCreator
    BY <1>1, SdkAssumption DEF IInv
  <2>2. \A i, k \in done : i = k
    BY <1>1, <2>1 DEF CallInv, OneCreator, CopiesWith
  <2> HIDE DEF done
  <2>3. CASE done = {}
    BY <2>3, FS_EmptySet DEF done
  <2>4. CASE done # {}
    <3>1. PICK i \in done : done = {i}
      BY <2>2, <2>4
    <3>2. Cardinality(done) = 1
      BY <3>1, FS_Singleton
    <3>3. QED
      BY <3>2 DEF done
  <2>5. QED
    BY <2>3, <2>4
<1>2. IInv => CreatingCallsLandOnce
  BY <1>1 DEF CreatingCallsLandOnce
<1>3. QED
  BY <1>2, Invariance, PTL

(***************************************************************************)
(* A salt in the file of an account is the one of the commitment on chain: *)
(* the run that wrote it is the only call whose copy created the account.  *)
(***************************************************************************)
THEOREM FileCorrect == Spec => []FileFollowsTheChain
<1>1. ASSUME IInv, NEW t \in Targets, material[t] \in Joins
      PROVE  CreatorsOf(t) = {material[t]}
  <2> DEFINE j == material[t]
  <2>1. /\ j \in Joins /\ j \in Calls /\ RunInv(j)
        /\ join[j].pc \in Stored \cup {"failed"} /\ join[j].target = t
        /\ CopiesWith(j, "executed") # {}
    BY <1>1, JoinAssumption DEF IInv, FilesInv
  <2> HIDE DEF j
  <2>2. \A i \in DOMAIN copies[j] : copies[j][i].target = t
    BY <2>1 DEF RunInv
  <2>3. PICK i \in DOMAIN copies[j] : copies[j][i].fate = "executed" /\ copies[j][i].target = t
    BY <2>1, <2>2 DEF CopiesWith
  <2>4. j \in CreatorsOf(t)
    BY <2>1, <2>3 DEF CreatorsOf, CopiesWith
  <2>5. ASSUME NEW d \in CreatorsOf(t)
        PROVE  d = j
    <3>1. d \in Calls
      BY DEF CreatorsOf
    <3>2. PICK k \in DOMAIN copies[d] : copies[d][k].fate = "executed" /\ copies[d][k].target = t
      BY DEF CreatorsOf, CopiesWith
    <3>3. QED
      BY <1>1, <2>1, <2>3, <3>1, <3>2, ClusterAssumption DEF IInv, OneCreator
  <2>6. QED
    BY <2>4, <2>5 DEF j
<1>2. IInv => FileFollowsTheChain
  BY <1>1 DEF FileFollowsTheChain
<1>3. QED
  BY <1>2, Invariance, PTL

(***************************************************************************)
(* A run that reports success finds its own salt in the file of its        *)
(* account from then on: no other run, of the same round and participant   *)
(* too, gets as far as opening that file.                                  *)
(***************************************************************************)
THEOREM JoinedCorrect == Spec => []JoinedMeansStored
<1>1. IInv => JoinedMeansStored
  BY DEF IInv, StoredInv, Stored, JoinedMeansStored
<1>2. QED
  BY <1>1, Invariance, PTL

-----------------------------------------------------------------------------
(***************************************************************************)
(* The watcher.                                                            *)
(***************************************************************************)

(***************************************************************************)
(* A finite set of naturals has an ascending enumeration, and one of as    *)
(* many places as the set has elements leaves none of them out.            *)
(***************************************************************************)
Enumerates(s, S) == s \in [1 .. Cardinality(S) -> S] /\ Ascends(s)

LEMMA EnumerationsExist ==
  \A m \in Nat : \A S : S \subseteq 1 .. m => \E s : Enumerates(s, S)
<1> DEFINE P == {m \in Nat : \A S : S \subseteq 1 .. m => \E s : Enumerates(s, S)}
<1>1. 0 \in P
  <2>1. ASSUME NEW S, S \subseteq 1 .. 0
        PROVE  \E s : Enumerates(s, S)
    <3>1. S = {}
      BY <2>1
    <3>2. Cardinality(S) = 0
      BY <3>1, FS_EmptySet
    <3>3. [j \in 1 .. 0 |-> j] \in [1 .. Cardinality(S) -> S]
      BY <3>2
    <3>4. Enumerates([j \in 1 .. 0 |-> j], S)
      BY <3>3 DEF Enumerates, Ascends
    <3>5. QED
      BY <3>4
  <2>2. QED
    BY <2>1
<1>2. ASSUME NEW m \in Nat, m \in P
      PROVE  m + 1 \in P
  <2>1. ASSUME NEW S, S \subseteq 1 .. m + 1
        PROVE  \E s : Enumerates(s, S)
    <3>1. CASE m + 1 \notin S
      <4>1. S \subseteq 1 .. m
        BY <2>1, <3>1
      <4>2. QED
        BY <1>2, <4>1
    <3>2. CASE m + 1 \in S
      <4> DEFINE T == S \ {m + 1}
      <4>1. T \subseteq 1 .. m
        BY <2>1
      <4>2. PICK t : Enumerates(t, T)
        BY <1>2, <4>1
      <4>3. IsFiniteSet(T)
        BY <4>1, FS_Interval, FS_Subset, IsFiniteSet(1 .. m)
      <4>4. PICK n \in Nat : n = Cardinality(T)
        BY <4>3, FS_CardinalityType
      <4>5. Cardinality(S) = n + 1
        <5>1. S = T \cup {m + 1} /\ m + 1 \notin T
          BY <3>2
        <5>2. QED
          BY <4>3, <4>4, <5>1, FS_AddElement
      <4>6. t \in [1 .. n -> T] /\ \A j, k \in 1 .. n : j < k => t[j] < t[k]
        BY <4>2, <4>4 DEF Enumerates, Ascends
      <4> DEFINE s == [j \in 1 .. n + 1 |-> IF j = n + 1 THEN m + 1 ELSE t[j]]
      <4>7. \A j \in 1 .. n : t[j] \in S /\ t[j] \in 1 .. m
        BY <4>1, <4>6
      <4>8. s \in [1 .. n + 1 -> S]
        BY <3>2, <4>7
      <4>9. \A j, k \in 1 .. n + 1 : j < k => s[j] < s[k]
        <5>1. SUFFICES ASSUME NEW j \in 1 .. n + 1, NEW k \in 1 .. n + 1, j < k
                       PROVE  s[j] < s[k]
          OBVIOUS
        <5>2. j \in 1 .. n /\ s[j] = t[j]
          BY <5>1
        <5>3. CASE k = n + 1
          BY <4>7, <5>2, <5>3
        <5>4. CASE k # n + 1
          BY <4>6, <5>1, <5>2, <5>4
        <5>5. QED
          BY <5>3, <5>4
      <4>10. Enumerates(s, S)
        <5>1. DOMAIN s = 1 .. n + 1
          OBVIOUS
        <5> HIDE DEF s
        <5>2. QED
          BY <4>5, <4>8, <4>9, <5>1 DEF Enumerates, Ascends
      <4>11. QED
        BY <4>10
    <3>3. QED
      BY <3>1, <3>2
  <2> HIDE DEF P
  <2>2. QED
    BY <2>1 DEF P
<1> HIDE DEF P
<1>3. Nat \subseteq P
  BY <1>1, <1>2, NatInductionOnSets
<1>4. QED
  BY <1>3 DEF P

(* Ascending(S) goes through S once, upwards.                              *)
LEMMA AscendingFacts ==
  ASSUME NEW m \in Nat, NEW S, S \subseteq 1 .. m
  PROVE  /\ Cardinality(S) \in Nat
         /\ Ascending(S) \in [1 .. Cardinality(S) -> S]
         /\ \A j, k \in 1 .. Cardinality(S) : j < k => Ascending(S)[j] < Ascending(S)[k]
         /\ \A i \in S : \E j \in 1 .. Cardinality(S) : Ascending(S)[j] = i
<1>1. IsFiniteSet(S)
  BY FS_Interval, FS_Subset, IsFiniteSet(1 .. m)
<1>2. PICK n \in Nat : n = Cardinality(S)
  BY <1>1, FS_CardinalityType
<1>3. \E s : Enumerates(s, S)
  BY EnumerationsExist
<1>4. \E s \in [1 .. Cardinality(S) -> S] : Ascends(s)
  BY <1>3 DEF Enumerates, Ascends
<1>5. Enumerates(Ascending(S), S)
  BY <1>4, Zenon DEF Ascending, Enumerates
<1>6. PICK a : a = Ascending(S)
  OBVIOUS
<1>7. a \in [1 .. n -> S] /\ \A j, k \in 1 .. n : j < k => a[j] < a[k]
  BY <1>2, <1>5, <1>6 DEF Enumerates, Ascends
<1>8. \A j \in 1 .. n : a[j] \in Nat
  <2>1. S \subseteq Nat
    OBVIOUS
  <2>2. \A j \in 1 .. n : a[j] \in S
    BY <1>7
  <2>3. QED
    BY <2>1, <2>2
<1>9. a \in Injection(1 .. n, S)
  <2>1. \A j, k \in 1 .. n : a[j] = a[k] => j = k
    <3>1. SUFFICES ASSUME NEW j \in 1 .. n, NEW k \in 1 .. n, a[j] = a[k], j # k
                   PROVE  FALSE
      OBVIOUS
    <3>2. j < k \/ k < j
      BY <3>1
    <3>3. QED
      BY <1>7, <1>8, <3>1, <3>2
  <2>2. QED
    BY <1>7, <2>1, Zenon DEF Injection, IsInjective
<1>10. Cardinality(1 .. n) = n
  BY FS_Interval
<1>11. a \in Surjection(1 .. n, S)
  BY <1>1, <1>2, <1>9, <1>10, FS_Injection
<1>12. \A i \in S : \E j \in 1 .. n : a[j] = i
  BY <1>11 DEF Surjection
<1>13. QED
  BY <1>2, <1>6, <1>7, <1>12

-----------------------------------------------------------------------------
(***************************************************************************)
(* The inductive invariant.  With the two properties go: what a            *)
(* subscription was told of has landed, what it missed lies behind it, and *)
(* no handler was called for a transaction that it has yet to be told of.  *)
(***************************************************************************)
Entry == Nat \X Nat

WatcherTypeOK ==
  /\ log \in Seq(Lines) /\ Len(log) <= MaxTxs
  /\ watch \in [Consumers -> Subscription]
  /\ handled \in [Consumers -> Seq(Entry)]
  /\ threw \in [Consumers -> SUBSET Entry]

Tracks(c) ==
  /\ watch[c].next <= Len(log) + 1
  /\ watch[c].missed \subseteq 1 .. watch[c].next - 1
  /\ watch[c].status = "none" => handled[c] = <<>>
  /\ \A k \in 1 .. Len(handled[c]) : handled[c][k][1] < watch[c].next

InOrder(c) ==
  \A k \in 1 .. Len(handled[c]) - 1 : Before(handled[c][k], handled[c][k + 1])

(* A line that c asked for, of a transaction it was told of.               *)
Told(c, t, i) ==
  /\ t \in Reported(c) /\ i \in 1 .. Len(log[t])
  /\ log[t][i] \in GhosEventName /\ Wanted[c] \in {"*", log[t][i]}

CallsAreTold(c) ==
  \A k \in 1 .. Len(handled[c]) :
    \E t, i \in Nat : handled[c][k] = <<t, i>> /\ Told(c, t, i)

GapsAreOwn(c) ==
  \A t, i \in Nat :
    Told(c, t, i) =>
      \/ \E k \in 1 .. Len(handled[c]) : handled[c][k] = <<t, i>>
      \/ "bool" \in EventFields[log[t][i]]
      \/ \E f \in threw[c] : f[1] = t /\ f[2] < i

WatcherInv ==
  /\ WatcherTypeOK
  /\ \A c \in Consumers : Tracks(c) /\ InOrder(c) /\ CallsAreTold(c) /\ GapsAreOwn(c)

(* The lines of a transaction are a sequence.                              *)
LEMMA LinesAreSequences ==
  ASSUME log \in Seq(Lines), NEW t \in 1 .. Len(log)
  PROVE  log[t] \in Seq(Heads) /\ Len(log[t]) \in Nat
<1>1. log[t] \in Lines
  BY ElementOfSeq
<1>2. [1 .. MaxLines -> Heads] \subseteq Seq(Heads)
  BY WatcherAssumption
<1>3. log[t] \in Seq(Heads)
  BY <1>1, <1>2 DEF Lines
<1>4. QED
  BY <1>3, LenProperties

(* The two properties in the form of the invariant.                        *)
LEMMA InvariantImplies ==
  ASSUME WatcherInv
  PROVE  HandledInLogOrder /\ OnlyItsOwnFaultsCostEvents
<1>1. HandledInLogOrder
  BY DEF WatcherInv, HandledInLogOrder, InOrder
<1>2. ASSUME NEW c \in Consumers
      PROVE  LET asked == UNION {AskedFor(c, t) : t \in Reported(c)}
             IN  /\ Range(handled[c]) \subseteq asked
                 /\ \A e \in asked \ Range(handled[c]) :
                      \/ "bool" \in EventFields[log[e[1]][e[2]]]
                      \/ \E f \in threw[c] : f[1] = e[1] /\ f[2] < e[2]
  <2> DEFINE asked == UNION {AskedFor(c, t) : t \in Reported(c)}
  <2>1. \A k : k \in DOMAIN handled[c] <=> k \in 1 .. Len(handled[c])
    BY LenProperties DEF WatcherInv, WatcherTypeOK
  <2>2. \A e : e \in Range(handled[c]) <=> \E k \in 1 .. Len(handled[c]) : handled[c][k] = e
    BY <2>1 DEF Range
  <2>3. \A t, i : Told(c, t, i) => <<t, i>> \in asked
    BY DEF Told, AskedFor
  <2>4. \A e \in asked : \E t, i : Told(c, t, i) /\ e = <<t, i>>
    BY DEF Told, AskedFor
  <2>5. \A t, i : Told(c, t, i) => t \in Nat /\ i \in Nat
    BY DEF Told, Reported
  <2> HIDE DEF asked
  <2>6. Range(handled[c]) \subseteq asked
    <3>1. SUFFICES ASSUME NEW e \in Range(handled[c]) PROVE e \in asked
      OBVIOUS
    <3>2. PICK k \in 1 .. Len(handled[c]) : handled[c][k] = e
      BY <2>2
    <3>3. PICK t, i \in Nat : handled[c][k] = <<t, i>> /\ Told(c, t, i)
      BY DEF WatcherInv, CallsAreTold
    <3>4. QED
      BY <2>3, <3>2, <3>3
  <2>7. ASSUME NEW e \in asked, e \notin Range(handled[c])
        PROVE  \/ "bool" \in EventFields[log[e[1]][e[2]]]
               \/ \E f \in threw[c] : f[1] = e[1] /\ f[2] < e[2]
    <3>1. PICK t, i : Told(c, t, i) /\ e = <<t, i>>
      BY <2>4
    <3>2. t \in Nat /\ i \in Nat /\ e[1] = t /\ e[2] = i
      BY <2>5, <3>1
    <3>3. \/ "bool" \in EventFields[log[t][i]]
          \/ \E f \in threw[c] : f[1] = t /\ f[2] < i
      BY <2>2, <2>7, <3>1, <3>2 DEF WatcherInv, GapsAreOwn
    <3>4. QED
      BY <3>2, <3>3
  <2>8. QED
    BY <2>6, <2>7 DEF asked
<1>3. OnlyItsOwnFaultsCostEvents
  BY <1>2 DEF OnlyItsOwnFaultsCostEvents
<1>4. QED
  BY <1>1, <1>3

(***************************************************************************)
(* A step that calls no handler and changes neither what has landed nor    *)
(* what a consumer was told of leaves its calls accounted for.             *)
(***************************************************************************)
LEMMA NothingTold ==
  ASSUME WatcherInv, NEW c \in Consumers,
         handled'[c] = handled[c], threw'[c] = threw[c],
         \A t, i \in Nat : Told(c, t, i)' <=> Told(c, t, i),
         \A t, i \in Nat : Told(c, t, i) => log'[t][i] = log[t][i]
  PROVE  (InOrder(c) /\ CallsAreTold(c) /\ GapsAreOwn(c))'
<1>1. InOrder(c)'
  BY DEF WatcherInv, InOrder
<1>2. CallsAreTold(c)'
  BY DEF WatcherInv, CallsAreTold
<1>3. GapsAreOwn(c)'
  <2>1. ASSUME NEW t \in Nat, NEW i \in Nat, Told(c, t, i)'
        PROVE  \/ \E k \in 1 .. Len(handled'[c]) : handled'[c][k] = <<t, i>>
               \/ "bool" \in EventFields[log'[t][i]]
               \/ \E f \in threw'[c] : f[1] = t /\ f[2] < i
    <3>1. Told(c, t, i) /\ log'[t][i] = log[t][i]
      BY <2>1
    <3>2. \/ \E k \in 1 .. Len(handled[c]) : handled[c][k] = <<t, i>>
          \/ "bool" \in EventFields[log[t][i]]
          \/ \E f \in threw[c] : f[1] = t /\ f[2] < i
      BY <3>1, Zenon DEF WatcherInv, GapsAreOwn
    <3>3. QED
      BY <3>1, <3>2
  <2>2. QED
    BY <2>1 DEF GapsAreOwn
<1>4. QED
  BY <1>1, <1>2, <1>3

-----------------------------------------------------------------------------
(***************************************************************************)
(* What a call of the callback does: it calls the handler for the first k  *)
(* of the n lines that fire, in order, and for all of them unless the last *)
(* of the calls threw.                                                     *)
(***************************************************************************)
CallsFirst(c, t, n, fire, k, d) ==
  /\ n \in Nat /\ fire \in [1 .. n -> Firing(c, t)]
  /\ \A i, j \in 1 .. n : i < j => fire[i] < fire[j]
  /\ \A i \in Firing(c, t) : \E j \in 1 .. n : fire[j] = i
  /\ k \in 0 .. n
  /\ d \in Seq(Entry) /\ Len(d) = k
  /\ \A j \in 1 .. k : d[j] = <<t, fire[j]>>

(* All n of them, or the last call is one that threw.                      *)
ThrewAtMostLast(c, t, n, fire, k) ==
  \/ k = n /\ threw' = threw
  \/ k \in 1 .. n /\ threw' = [threw EXCEPT ![c] = threw[c] \cup {<<t, fire[k]>>}]

LEMMA DispatchFacts ==
  ASSUME WatcherInv, NEW c \in Consumers, Dispatch(c)
  PROVE  \E n, fire, k, d :
           /\ CallsFirst(c, watch[c].next, n, fire, k, d)
           /\ handled' = [handled EXCEPT ![c] = handled[c] \o d]
           /\ ThrewAtMostLast(c, watch[c].next, n, fire, k)
<1>1. PICK t : t = watch[c].next
  OBVIOUS
<1>2. t \in 1 .. Len(log)
  BY <1>1 DEF Dispatch, WatcherInv, WatcherTypeOK, Subscription
<1>3. PICK m \in Nat : m = Len(log[t])
  BY <1>2, LinesAreSequences DEF WatcherInv, WatcherTypeOK
<1>4. Firing(c, t) \subseteq 1 .. m
  BY <1>3 DEF Firing
<1>5. PICK n \in Nat : n = Cardinality(Firing(c, t))
  BY <1>4, AscendingFacts
<1>6. PICK fire : fire = Ascending(Firing(c, t))
  OBVIOUS
<1>7. /\ fire \in [1 .. n -> Firing(c, t)]
      /\ \A i, j \in 1 .. n : i < j => fire[i] < fire[j]
      /\ \A i \in Firing(c, t) : \E j \in 1 .. n : fire[j] = i
  BY <1>4, <1>5, <1>6, AscendingFacts
<1>8. PICK due : due = Due(c, t)
  OBVIOUS
<1>9. due = [j \in 1 .. n |-> <<t, fire[j]>>]
  BY <1>6, <1>7, <1>8 DEF Due
<1>10. \A j \in 1 .. n : <<t, fire[j]>> \in Entry
  <2>1. \A j \in 1 .. n : fire[j] \in 1 .. m
    BY <1>4, <1>7
  <2>2. t \in Nat
    BY <1>2
  <2>3. QED
    BY <2>1, <2>2 DEF Entry
<1>11. due \in Seq(Entry) /\ Len(due) = n /\ \A j \in 1 .. n : due[j] = <<t, fire[j]>>
  BY <1>9, <1>10
<1>12. CASE handled' = [handled EXCEPT ![c] = handled[c] \o due] /\ threw' = threw
  <2>1. CallsFirst(c, t, n, fire, n, due)
    BY <1>7, <1>11 DEF CallsFirst
  <2>2. ThrewAtMostLast(c, t, n, fire, n)
    BY <1>12 DEF ThrewAtMostLast
  <2>3. QED
    BY <1>1, <1>12, <2>1, <2>2, Zenon
<1>13. CASE \E k \in 1 .. n :
              /\ handled' = [handled EXCEPT ![c] = handled[c] \o SubSeq(due, 1, k)]
              /\ threw' = [threw EXCEPT ![c] = threw[c] \cup {due[k]}]
  <2>1. PICK k \in 1 .. n :
              /\ handled' = [handled EXCEPT ![c] = handled[c] \o SubSeq(due, 1, k)]
              /\ threw' = [threw EXCEPT ![c] = threw[c] \cup {due[k]}]
    BY <1>13
  <2>2. PICK d : d = SubSeq(due, 1, k)
    OBVIOUS
  <2>3. \A j \in 1 .. k : due[j] \in Entry
    BY <1>10, <1>11
  <2>4. d \in Seq(Entry) /\ Len(d) = k /\ \A j \in 1 .. k : d[j] = due[j]
    BY <2>2, <2>3, SubSeqProperties
  <2>5. \A j \in 1 .. k : d[j] = <<t, fire[j]>>
    BY <1>11, <2>4
  <2>6. k \in 0 .. n
    OBVIOUS
  <2>7. CallsFirst(c, t, n, fire, k, d)
    BY <1>7, <2>4, <2>5, <2>6 DEF CallsFirst
  <2>8. ThrewAtMostLast(c, t, n, fire, k)
    BY <1>11, <2>1 DEF ThrewAtMostLast
  <2>9. QED
    BY <1>1, <2>1, <2>2, <2>7, <2>8, Zenon
<1>14. \/ handled' = [handled EXCEPT ![c] = handled[c] \o due] /\ threw' = threw
       \/ \E k \in 1 .. n :
            /\ handled' = [handled EXCEPT ![c] = handled[c] \o SubSeq(due, 1, k)]
            /\ threw' = [threw EXCEPT ![c] = threw[c] \cup {due[k]}]
  BY <1>1, <1>8, <1>11 DEF Dispatch
<1>15. QED
  BY <1>12, <1>13, <1>14

-----------------------------------------------------------------------------
(***************************************************************************)
(* A dispatch keeps the log's order: what was handled before belongs to    *)
(* earlier transactions, and the lines that fire go up.                    *)
(***************************************************************************)
LEMMA DispatchKeepsOrder ==
  ASSUME WatcherInv, NEW c \in Consumers, NEW n, NEW fire, NEW k, NEW d,
         CallsFirst(c, watch[c].next, n, fire, k, d),
         handled'[c] = handled[c] \o d
  PROVE  InOrder(c)' /\ \A j \in 1 .. Len(handled'[c]) : handled'[c][j][1] <= watch[c].next
<1>1. PICK t \in Nat : t = watch[c].next
  BY DEF WatcherInv, WatcherTypeOK, Subscription
<1>2. PICK h : h = handled[c]
  OBVIOUS
<1>3. PICK g : g = handled'[c]
  OBVIOUS
<1>4. h \in Seq(Entry) /\ d \in Seq(Entry) /\ g = h \o d
  BY <1>2, <1>3 DEF WatcherInv, WatcherTypeOK, CallsFirst
<1>5. PICK m \in Nat : m = Len(h)
  BY <1>4, LenProperties
<1>6. k \in Nat /\ Len(d) = k /\ n \in Nat /\ k <= n
  BY DEF CallsFirst
<1>7. /\ Len(g) = m + k
      /\ \A i \in 1 .. m : g[i] = h[i]
      /\ \A i \in m + 1 .. m + k : g[i] = d[i - m]
  <2>1. /\ Len(h \o d) = Len(h) + Len(d)
        /\ \A i \in 1 .. Len(h) + Len(d) :
             (h \o d)[i] = IF i <= Len(h) THEN h[i] ELSE d[i - Len(h)]
    BY <1>4, ConcatProperties
  <2>2. Len(g) = m + k /\ \A i \in 1 .. m + k : g[i] = IF i <= m THEN h[i] ELSE d[i - m]
    BY <1>4, <1>5, <1>6, <2>1
  <2>3. QED
    BY <1>6, <2>2
<1>8. \A i \in 1 .. m : h[i] \in Entry
  BY <1>4, <1>5, ElementOfSeq
<1>9. \A i \in 1 .. m : h[i][1] < t
  BY <1>1, <1>2, <1>5 DEF WatcherInv, Tracks
<1>10. \A j \in 1 .. k : d[j][1] = t /\ d[j][2] = fire[j]
  BY <1>1 DEF CallsFirst
<1>11. \A i, j \in 1 .. k : i < j => fire[i] < fire[j]
  BY <1>6 DEF CallsFirst
<1>12. ASSUME NEW i \in 1 .. Len(g) - 1
       PROVE  Before(g[i], g[i + 1])
  <2>1. CASE i + 1 <= m
    <3>1. i \in 1 .. Len(h) - 1 /\ g[i] = h[i] /\ g[i + 1] = h[i + 1]
      BY <1>5, <1>7, <2>1
    <3>2. QED
      BY <1>2, <3>1 DEF WatcherInv, InOrder
  <2>2. CASE i = m
    <3>1. i \in 1 .. m /\ 1 \in 1 .. k /\ g[i] = h[i] /\ g[i + 1] = d[1]
      BY <1>6, <1>7, <2>2
    <3>2. h[i][1] < t /\ d[1][1] = t
      BY <1>9, <1>10, <3>1
    <3>3. QED
      BY <3>1, <3>2 DEF Before
  <2>3. CASE i > m
    <3>1. PICK j \in Nat : j = i - m
      BY <2>3
    <3>2. j \in 1 .. k /\ j + 1 \in 1 .. k /\ g[i] = d[j] /\ g[i + 1] = d[j + 1]
      <4>1. i \in m + 1 .. m + k /\ i + 1 \in m + 1 .. m + k /\ (i + 1) - m = j + 1
        BY <1>6, <1>7, <2>3, <3>1
      <4>2. QED
        BY <1>6, <1>7, <3>1, <4>1
    <3>3. d[j][1] = t /\ d[j + 1][1] = t /\ d[j][2] < d[j + 1][2]
      BY <1>10, <1>11, <3>2
    <3>4. QED
      BY <3>2, <3>3 DEF Before
  <2>4. QED
    BY <2>1, <2>2, <2>3, <1>5
<1>13. InOrder(c)'
  BY <1>3, <1>12 DEF InOrder
<1>14. \A i \in 1 .. Len(g) : g[i][1] <= t
  <2>1. \A i \in 1 .. m : g[i][1] <= t
    <3>1. \A i \in 1 .. m : h[i][1] \in Nat
      BY <1>8 DEF Entry
    <3>2. QED
      BY <1>7, <1>9, <3>1
  <2>2. \A i \in m + 1 .. m + k : g[i][1] <= t
    <3>1. \A i \in m + 1 .. m + k : i - m \in 1 .. k
      BY <1>6
    <3>2. QED
      BY <1>7, <1>10, <3>1, SMTT(60)
  <2>3. \A i \in 1 .. m + k : i \in 1 .. m \/ i \in m + 1 .. m + k
    BY <1>6
  <2>4. QED
    BY <1>7, <2>1, <2>2, <2>3
<1>15. QED
  BY <1>1, <1>3, <1>13, <1>14

(***************************************************************************)
(* A dispatch reports one transaction more.                                *)
(***************************************************************************)
LEMMA DispatchReports ==
  ASSUME WatcherInv, NEW c \in Consumers, Dispatch(c)
  PROVE  \A s, i : Told(c, s, i)' <=> Told(c, s, i) \/
           /\ s = watch[c].next /\ i \in 1 .. Len(log[s])
           /\ log[s][i] \in GhosEventName /\ Wanted[c] \in {"*", log[s][i]}
<1>1. PICK t : t = watch[c].next
  OBVIOUS
<1>2. t \in 1 .. Len(log) /\ watch[c].missed \subseteq 1 .. t - 1
  BY <1>1 DEF Dispatch, WatcherInv, WatcherTypeOK, Subscription, Tracks
<1>3. log' = log /\ watch'[c].next = t + 1 /\ watch'[c].missed = watch[c].missed
  BY <1>1 DEF Dispatch, WatcherInv, WatcherTypeOK, Subscription
<1>4. t \notin watch[c].missed
  BY <1>2
<1>5. Reported(c)' = Reported(c) \cup {t}
  <2>1. PICK m : m = watch[c].missed
    OBVIOUS
  <2>2. PICK r \in Nat : r = Len(log)
    BY LenProperties DEF WatcherInv, WatcherTypeOK
  <2>3. {s \in 1 .. r : s < t + 1} \ m = ({s \in 1 .. r : s < t} \ m) \cup {t}
    BY <1>2, <1>4, <2>1, <2>2
  <2>4. QED
    BY <1>1, <1>3, <2>1, <2>2, <2>3 DEF Reported
<1>6. QED
  BY <1>1, <1>3, <1>5 DEF Told

(* Of the types of the IDL's events decodeField lacks this one.            *)
LEMMA DecodesUnlessBool ==
  ASSUME NEW name \in GhosEventName, ~Decodes(name)
  PROVE  "bool" \in EventFields[name]
BY DEF Decodes, DecodableTypes, EventFields, GhosEventName

(***************************************************************************)
(* After a dispatch the calls are of lines that were told of and asked     *)
(* for, and the lines without a call are the consumer's own: what does not *)
(* fire does not decode, and what fires after the first k comes after the  *)
(* call that threw.                                                        *)
(***************************************************************************)
LEMMA DispatchAccounts ==
  ASSUME WatcherInv, NEW c \in Consumers, Dispatch(c), NEW n, NEW fire, NEW k, NEW d,
         CallsFirst(c, watch[c].next, n, fire, k, d),
         handled'[c] = handled[c] \o d,
         ThrewAtMostLast(c, watch[c].next, n, fire, k)
  PROVE  CallsAreTold(c)' /\ GapsAreOwn(c)'
<1>1. PICK t : t = watch[c].next
  OBVIOUS
<1>2. t \in 1 .. Len(log) /\ log' = log
  BY <1>1 DEF Dispatch, WatcherInv, WatcherTypeOK, Subscription
<1>3. PICK h : h = handled[c]
  OBVIOUS
<1>4. PICK g : g = handled'[c]
  OBVIOUS
<1>5. h \in Seq(Entry) /\ d \in Seq(Entry) /\ g = h \o d
  BY <1>3, <1>4 DEF WatcherInv, WatcherTypeOK, CallsFirst
<1>6. PICK m \in Nat : m = Len(h)
  BY <1>5, LenProperties
<1>7. k \in Nat /\ Len(d) = k /\ n \in Nat /\ k <= n
  BY DEF CallsFirst
<1>8. Len(g) = m + k /\ \A i \in 1 .. m + k : g[i] = IF i <= m THEN h[i] ELSE d[i - m]
  <2>1. /\ Len(h \o d) = Len(h) + Len(d)
        /\ \A i \in 1 .. Len(h) + Len(d) :
             (h \o d)[i] = IF i <= Len(h) THEN h[i] ELSE d[i - Len(h)]
    BY <1>5, ConcatProperties
  <2>2. QED
    BY <1>5, <1>6, <1>7, <2>1
<1>9. \A j \in 1 .. k : d[j] = <<t, fire[j]>> /\ g[m + j] = d[j] /\ m + j \in 1 .. Len(g)
  <2>1. \A j \in 1 .. k : d[j] = <<t, fire[j]>>
    BY <1>1 DEF CallsFirst
  <2>2. \A j \in 1 .. k : m + j \in 1 .. m + k /\ ~(m + j <= m) /\ (m + j) - m = j
    BY <1>7
  <2>3. QED
    BY <1>8, <2>1, <2>2
<1>10. \A i \in 1 .. m : g[i] = h[i] /\ i \in 1 .. Len(g)
  BY <1>7, <1>8
<1>11. /\ fire \in [1 .. n -> Firing(c, t)]
       /\ \A i, j \in 1 .. n : i < j => fire[i] < fire[j]
       /\ \A i \in Firing(c, t) : \E j \in 1 .. n : fire[j] = i
  BY <1>1 DEF CallsFirst
<1>12. \A s, i : Told(c, s, i)' <=> Told(c, s, i) \/
           /\ s = t /\ i \in 1 .. Len(log[t])
           /\ log[t][i] \in GhosEventName /\ Wanted[c] \in {"*", log[t][i]}
  BY <1>1, DispatchReports
<1>13. CallsAreTold(c)'
  <2>1. ASSUME NEW i \in 1 .. Len(g)
        PROVE  \E s, l \in Nat : g[i] = <<s, l>> /\ Told(c, s, l)'
    <3>1. CASE i <= m
      <4>1. i \in 1 .. m /\ g[i] = h[i]
        BY <1>10, <3>1
      <4>2. PICK s, l \in Nat : h[i] = <<s, l>> /\ Told(c, s, l)
        BY <1>3, <1>6, <4>1 DEF WatcherInv, CallsAreTold
      <4>3. QED
        BY <1>12, <4>1, <4>2
    <3>2. CASE i > m
      <4>1. PICK j \in Nat : j = i - m
        BY <3>2
      <4>2. j \in 1 .. k /\ m + j = i
        BY <1>7, <1>8, <3>2, <4>1
      <4>3. g[i] = <<t, fire[j]>>
        BY <1>9, <4>2
      <4>4. fire[j] \in Firing(c, t)
        BY <1>7, <1>11, <4>2
      <4>5. Told(c, t, fire[j])'
        BY <1>12, <4>4 DEF Firing, Fires
      <4>6. fire[j] \in Nat /\ t \in Nat
        BY <1>2, <4>4 DEF Firing
      <4>7. QED
        BY <4>3, <4>5, <4>6
    <3>3. QED
      BY <1>6, <3>1, <3>2
  <2>2. QED
    BY <1>4, <2>1 DEF CallsAreTold
<1>14. GapsAreOwn(c)'
  <2>1. ASSUME NEW s \in Nat, NEW i \in Nat, Told(c, s, i)'
        PROVE  \/ \E x \in 1 .. Len(g) : g[x] = <<s, i>>
               \/ "bool" \in EventFields[log[s][i]]
               \/ \E f \in threw'[c] : f[1] = s /\ f[2] < i
    <3>1. CASE Told(c, s, i)
      <4>1. \/ \E x \in 1 .. m : h[x] = <<s, i>>
            \/ "bool" \in EventFields[log[s][i]]
            \/ \E f \in threw[c] : f[1] = s /\ f[2] < i
        <5>1. \/ \E x \in 1 .. Len(handled[c]) : handled[c][x] = <<s, i>>
              \/ "bool" \in EventFields[log[s][i]]
              \/ \E f \in threw[c] : f[1] = s /\ f[2] < i
          BY <3>1, Zenon DEF WatcherInv, GapsAreOwn
        <5>2. QED
          BY <1>3, <1>6, <5>1
      <4>2. threw[c] \subseteq threw'[c]
        BY DEF ThrewAtMostLast, WatcherInv, WatcherTypeOK
      <4>3. QED
        BY <1>10, <4>1, <4>2
    <3>2. CASE ~Told(c, s, i)
      <4>1. /\ s = t /\ i \in 1 .. Len(log[t])
            /\ log[t][i] \in GhosEventName /\ Wanted[c] \in {"*", log[t][i]}
        BY <1>12, <2>1, <3>2
      <4>2. CASE ~Decodes(log[t][i])
        BY <4>1, <4>2, DecodesUnlessBool
      <4>3. CASE Decodes(log[t][i])
        <5>1. i \in Firing(c, t)
          BY <4>1, <4>3 DEF Firing, Fires
        <5>2. PICK j \in 1 .. n : fire[j] = i
          BY <1>11, <5>1
        <5>3. CASE j <= k
          <6>1. j \in 1 .. k
            BY <1>7, <5>3
          <6>2. g[m + j] = <<s, i>> /\ m + j \in 1 .. Len(g)
            BY <1>9, <4>1, <5>2, <6>1
          <6>3. QED
            BY <6>2
        <5>4. CASE j > k
          <6>1. k # n
            BY <5>4, <1>7
          <6>2. k \in 1 .. n /\ <<t, fire[k]>> \in threw'[c]
            BY <1>1, <6>1 DEF ThrewAtMostLast, WatcherInv, WatcherTypeOK
          <6>3. fire[k] < i
            BY <1>11, <5>2, <5>4, <6>2
          <6>4. QED
            BY <4>1, <6>2, <6>3
        <5>5. j <= k \/ j > k
          BY <1>7
        <5>6. QED
          BY <5>3, <5>4, <5>5, Zenon
      <4>4. QED
        BY <4>2, <4>3
    <3>3. QED
      BY <3>1, <3>2
  <2>2. QED
    BY <1>2, <1>4, <2>1 DEF GapsAreOwn
<1>15. QED
  BY <1>13, <1>14

-----------------------------------------------------------------------------
(* The types go through every step.                                        *)
LEMMA WatcherTypes ==
  ASSUME WatcherInv, WatcherNext
  PROVE  WatcherTypeOK'
<1>1. CASE \E lines \in Lines : Lands(lines)
  <2>1. PICK lines \in Lines : Lands(lines)
    BY <1>1
  <2>2. log' = Append(log, lines) /\ Len(log) < MaxTxs
    BY <2>1 DEF Lands
  <2>3. Append(log, lines) \in Seq(Lines) /\ Len(Append(log, lines)) = Len(log) + 1
    BY AppendProperties DEF WatcherInv, WatcherTypeOK
  <2>4. Len(log) \in Nat
    BY LenProperties DEF WatcherInv, WatcherTypeOK
  <2>5. Len(log') <= MaxTxs
    BY <2>2, <2>3, <2>4, WatcherAssumption
  <2>6. QED
    BY <2>1, <2>2, <2>3, <2>5 DEF Lands, WatcherInv, WatcherTypeOK
<1>2. ASSUME NEW c \in Consumers, Subscribe(c)
      PROVE  WatcherTypeOK'
  <2>1. PICK m \in Nat : m = Len(log) /\ m <= MaxTxs
    BY LenProperties DEF WatcherInv, WatcherTypeOK
  <2>2. [status |-> "live", next |-> m + 1, missed |-> 1 .. m] \in Subscription
    BY <2>1, WatcherAssumption DEF Subscription
  <2>3. watch' \in [Consumers -> Subscription]
    BY <1>2, <2>1, <2>2 DEF Subscribe, WatcherInv, WatcherTypeOK
  <2>4. QED
    BY <1>2, <2>3 DEF Subscribe, WatcherInv, WatcherTypeOK
<1>3. ASSUME NEW c \in Consumers, Dispatch(c)
      PROVE  WatcherTypeOK'
  <2>1. PICK n, fire, k, d :
           /\ CallsFirst(c, watch[c].next, n, fire, k, d)
           /\ handled' = [handled EXCEPT ![c] = handled[c] \o d]
           /\ ThrewAtMostLast(c, watch[c].next, n, fire, k)
    BY <1>3, DispatchFacts
  <2>2. PICK t : t = watch[c].next
    OBVIOUS
  <2>3. t \in 1 .. Len(log) /\ t + 1 \in 1 .. MaxTxs + 1
    BY <1>3, <2>2, WatcherAssumption
    DEF Dispatch, WatcherInv, WatcherTypeOK, Subscription
  <2>4. watch' \in [Consumers -> Subscription]
    <3>1. watch' = [watch EXCEPT ![c] = [watch[c] EXCEPT !.next = t + 1]]
      BY <1>3, <2>2 DEF Dispatch
    <3>2. [watch[c] EXCEPT !.next = t + 1] \in Subscription
      BY <2>3 DEF WatcherInv, WatcherTypeOK, Subscription
    <3>3. QED
      BY <3>1, <3>2 DEF WatcherInv, WatcherTypeOK
  <2>5. handled' \in [Consumers -> Seq(Entry)]
    <3>1. handled[c] \in Seq(Entry) /\ d \in Seq(Entry)
      BY <2>1 DEF WatcherInv, WatcherTypeOK, CallsFirst
    <3>2. handled[c] \o d \in Seq(Entry)
      BY <3>1, ConcatProperties
    <3>3. QED
      BY <2>1, <3>2 DEF WatcherInv, WatcherTypeOK
  <2>6. threw' \in [Consumers -> SUBSET Entry]
    <3>1. ASSUME k \in 1 .. n
          PROVE  <<t, fire[k]>> \in Entry
      <4>1. d[k] = <<t, fire[k]>> /\ d \in Seq(Entry) /\ k \in 1 .. Len(d)
        BY <2>1, <2>2, <3>1 DEF CallsFirst
      <4>2. QED
        BY <4>1, ElementOfSeq
    <3>2. QED
      BY <2>1, <2>2, <3>1 DEF ThrewAtMostLast, WatcherInv, WatcherTypeOK
  <2>7. QED
    BY <1>3, <2>4, <2>5, <2>6 DEF Dispatch, WatcherInv, WatcherTypeOK
<1>4. ASSUME NEW c \in Consumers, Miss(c) \/ Unsubscribe(c)
      PROVE  WatcherTypeOK'
  <2>1. watch' \in [Consumers -> Subscription]
    <3>1. PICK t, m : t = watch[c].next /\ m = watch[c].missed
      OBVIOUS
    <3>2. t \in 1 .. MaxTxs + 1 /\ m \subseteq 1 .. MaxTxs
      BY <3>1 DEF WatcherInv, WatcherTypeOK, Subscription
    <3>3. CASE Miss(c)
      <4>1. t <= MaxTxs
        <5>1. Len(log) \in Nat /\ Len(log) <= MaxTxs /\ t <= Len(log)
          BY <3>1, <3>3, LenProperties DEF Miss, WatcherInv, WatcherTypeOK
        <5>2. QED
          BY <3>2, <5>1, WatcherAssumption
      <4>2. watch' = [watch EXCEPT ![c] = [watch[c] EXCEPT !.next = t + 1, !.missed = m \cup {t}]]
        BY <3>1, <3>3 DEF Miss
      <4>3. t + 1 \in 1 .. MaxTxs + 1 /\ m \cup {t} \subseteq 1 .. MaxTxs
        BY <3>2, <4>1, WatcherAssumption
      <4>4. [watch[c] EXCEPT !.next = t + 1, !.missed = m \cup {t}] \in Subscription
        BY <4>3 DEF WatcherInv, WatcherTypeOK, Subscription
      <4>5. QED
        BY <4>2, <4>4 DEF WatcherInv, WatcherTypeOK
    <3>4. CASE Unsubscribe(c)
      BY <3>4 DEF Unsubscribe, WatcherInv, WatcherTypeOK, Subscription
    <3>5. QED
      BY <1>4, <3>3, <3>4
  <2>2. QED
    BY <1>4, <2>1 DEF Miss, Unsubscribe, WatcherInv, WatcherTypeOK
<1>5. QED
  BY <1>1, <1>2, <1>3, <1>4 DEF WatcherNext

(* A step in which c's subscription does nothing.                          *)
LEMMA OthersStep ==
  ASSUME WatcherInv, NEW c \in Consumers, log' = log,
         watch'[c] = watch[c], handled'[c] = handled[c], threw'[c] = threw[c]
  PROVE  (Tracks(c) /\ InOrder(c) /\ CallsAreTold(c) /\ GapsAreOwn(c))'
<1>1. Tracks(c)'
  BY DEF WatcherInv, Tracks
<1>2. \A t, i \in Nat : Told(c, t, i)' <=> Told(c, t, i)
  BY DEF Told, Reported
<1>3. QED
  BY <1>1, <1>2, NothingTold

(* Every step of the watcher keeps the invariant.                          *)
LEMMA WatcherStep ==
  ASSUME WatcherInv, WatcherNext
  PROVE  WatcherInv'
<1>1. WatcherTypeOK'
  BY WatcherTypes
<1> USE DEF WatcherTypeOK
<1>2. ASSUME NEW lines \in Lines, Lands(lines), NEW c \in Consumers
      PROVE  (Tracks(c) /\ InOrder(c) /\ CallsAreTold(c) /\ GapsAreOwn(c))'
  <2>1. PICK r \in Nat : r = Len(log)
    BY LenProperties DEF WatcherInv
  <2>2. Len(log') = r + 1 /\ \A t \in 1 .. r : log'[t] = log[t]
    BY <1>2, <2>1, AppendProperties DEF Lands, WatcherInv
  <2>3. watch' = watch /\ handled' = handled /\ threw' = threw
    BY <1>2 DEF Lands
  <2>4. watch[c].next \in Nat /\ watch[c].next <= r + 1
    BY <2>1 DEF WatcherInv, Tracks, Subscription
  <2>5. Tracks(c)'
    BY <2>1, <2>2, <2>3, <2>4 DEF WatcherInv, Tracks
  <2>6. Reported(c)' = Reported(c)
    <3>1. PICK x \in Nat : x = watch[c].next /\ x <= r + 1
      BY <2>4
    <3>2. {t \in 1 .. r + 1 : t < x} = {t \in 1 .. r : t < x}
      BY <3>1
    <3>3. QED
      BY <2>1, <2>2, <2>3, <3>1, <3>2 DEF Reported
  <2>7. \A t \in Reported(c) : log'[t] = log[t]
    BY <2>1, <2>2 DEF Reported
  <2>8. \A t, i \in Nat : Told(c, t, i)' <=> Told(c, t, i)
    BY <2>6, <2>7 DEF Told
  <2>9. \A t, i \in Nat : Told(c, t, i) => log'[t][i] = log[t][i]
    BY <2>7 DEF Told
  <2>10. QED
    BY <2>3, <2>5, <2>8, <2>9, NothingTold
<1>3. ASSUME NEW c \in Consumers, Subscribe(c)
      PROVE  (Tracks(c) /\ InOrder(c) /\ CallsAreTold(c) /\ GapsAreOwn(c))'
  <2>1. PICK r \in Nat : r = Len(log)
    BY LenProperties DEF WatcherInv
  <2>2. /\ log' = log /\ handled'[c] = <<>>
        /\ watch'[c] = [status |-> "live", next |-> r + 1, missed |-> 1 .. r]
    BY <1>3, <2>1 DEF Subscribe, WatcherInv, Tracks
  <2>3. Len(handled'[c]) = 0
    BY <2>2, EmptySeq
  <2>4. Tracks(c)'
    BY <2>1, <2>2, <2>3 DEF Tracks
  <2>5. Reported(c)' = {}
    <3>1. \A t \in 1 .. r : t \in 1 .. r
      OBVIOUS
    <3>2. QED
      BY <2>1, <2>2, <3>1 DEF Reported
  <2>6. \A t, i : ~Told(c, t, i)'
    BY <2>5 DEF Told
  <2>7. QED
    BY <2>3, <2>4, <2>6 DEF InOrder, CallsAreTold, GapsAreOwn
<1>4. ASSUME NEW c \in Consumers, Dispatch(c)
      PROVE  (Tracks(c) /\ InOrder(c) /\ CallsAreTold(c) /\ GapsAreOwn(c))'
  <2>1. PICK n, fire, k, d :
           /\ CallsFirst(c, watch[c].next, n, fire, k, d)
           /\ handled' = [handled EXCEPT ![c] = handled[c] \o d]
           /\ ThrewAtMostLast(c, watch[c].next, n, fire, k)
    BY <1>4, DispatchFacts
  <2>2. handled'[c] = handled[c] \o d
    BY <2>1 DEF WatcherInv
  <2>3. InOrder(c)' /\ \A j \in 1 .. Len(handled'[c]) : handled'[c][j][1] <= watch[c].next
    BY <2>1, <2>2, DispatchKeepsOrder
  <2>4. CallsAreTold(c)' /\ GapsAreOwn(c)'
    BY <1>4, <2>1, <2>2, DispatchAccounts
  <2>5. Tracks(c)'
    <3>1. PICK t : t = watch[c].next
      OBVIOUS
    <3>2. /\ t \in Nat /\ t <= Len(log) /\ log' = log /\ watch'[c].next = t + 1
          /\ watch'[c].missed \subseteq 1 .. t - 1 /\ watch'[c].status # "none"
      BY <1>4, <3>1 DEF Dispatch, WatcherInv, Tracks, Subscription
    <3>3. \A j \in 1 .. Len(handled'[c]) : handled'[c][j] \in Entry
      BY <1>1, ElementOfSeq
    <3>4. \A j \in 1 .. Len(handled'[c]) : handled'[c][j][1] < t + 1
      BY <2>3, <3>1, <3>2, <3>3 DEF Entry
    <3>5. t + 1 <= Len(log) + 1 /\ watch'[c].missed \subseteq 1 .. (t + 1) - 1
      <4>1. Len(log) \in Nat
        BY LenProperties DEF WatcherInv
      <4>2. QED
        BY <3>2, <4>1
    <3>6. QED
      BY <3>2, <3>4, <3>5 DEF Tracks
  <2>6. QED
    BY <2>3, <2>4, <2>5
<1>5. ASSUME NEW c \in Consumers, Miss(c)
      PROVE  (Tracks(c) /\ InOrder(c) /\ CallsAreTold(c) /\ GapsAreOwn(c))'
  <2>1. PICK t, r, m : t = watch[c].next /\ r = Len(log) /\ m = watch[c].missed
    OBVIOUS
  <2>2. r \in Nat /\ t \in 1 .. r /\ m \subseteq 1 .. t - 1
    <3>1. r \in Nat
      BY <2>1, LenProperties DEF WatcherInv
    <3>2. t \in Nat \ {0} /\ t <= r /\ m \subseteq 1 .. t - 1
      BY <1>5, <2>1 DEF Miss, WatcherInv, Tracks, Subscription
    <3>3. QED
      BY <3>1, <3>2
  <2>3. /\ log' = log /\ handled' = handled /\ threw' = threw
        /\ watch'[c].next = t + 1 /\ watch'[c].missed = m \cup {t}
        /\ watch'[c].status = "live"
    BY <1>5, <2>1 DEF Miss, WatcherInv, Subscription
  <2>4. \A j \in 1 .. Len(handled[c]) : handled[c][j] \in Entry
    BY ElementOfSeq DEF WatcherInv
  <2>5. \A j \in 1 .. Len(handled[c]) : handled[c][j][1] < t + 1
    <3>1. \A j \in 1 .. Len(handled[c]) : handled[c][j][1] < t
      BY <2>1 DEF WatcherInv, Tracks
    <3>2. \A j \in 1 .. Len(handled[c]) : handled[c][j][1] \in Nat
      BY <2>4 DEF Entry
    <3>3. t \in Nat
      BY <2>2
    <3>4. QED
      BY <3>1, <3>2, <3>3
  <2>6. Tracks(c)'
    BY <2>1, <2>2, <2>3, <2>5 DEF Tracks
  <2>7. Reported(c)' = Reported(c)
    <3>1. {s \in 1 .. r : s < t + 1} \ (m \cup {t}) = {s \in 1 .. r : s < t} \ m
      BY <2>2
    <3>2. QED
      BY <2>1, <2>3, <3>1 DEF Reported
  <2>8. \A s, i \in Nat : Told(c, s, i)' <=> Told(c, s, i)
    BY <2>3, <2>7 DEF Told
  <2>9. QED
    BY <2>3, <2>6, <2>8, NothingTold
<1>6. ASSUME NEW c \in Consumers, Unsubscribe(c)
      PROVE  (Tracks(c) /\ InOrder(c) /\ CallsAreTold(c) /\ GapsAreOwn(c))'
  <2>1. /\ log' = log /\ handled' = handled /\ threw' = threw
        /\ watch'[c].next = watch[c].next /\ watch'[c].missed = watch[c].missed
        /\ watch'[c].status = "removed"
    BY <1>6 DEF Unsubscribe, WatcherInv, Subscription
  <2>2. Tracks(c)'
    BY <2>1 DEF WatcherInv, Tracks
  <2>3. \A t, i \in Nat : Told(c, t, i)' <=> Told(c, t, i)
    BY <2>1 DEF Told, Reported
  <2>4. QED
    BY <2>1, <2>2, <2>3, NothingTold
<1>7. ASSUME NEW c \in Consumers, Subscribe(c) \/ Dispatch(c) \/ Miss(c) \/ Unsubscribe(c),
             NEW e \in Consumers, e # c
      PROVE  (Tracks(e) /\ InOrder(e) /\ CallsAreTold(e) /\ GapsAreOwn(e))'
  <2>1. /\ log' = log
        /\ watch'[e] = watch[e] /\ handled'[e] = handled[e] /\ threw'[e] = threw[e]
    BY <1>7 DEF Subscribe, Dispatch, Miss, Unsubscribe, WatcherInv
  <2>2. QED
    BY <2>1, OthersStep
<1>8. \A c \in Consumers : (Tracks(c) /\ InOrder(c) /\ CallsAreTold(c) /\ GapsAreOwn(c))'
  BY <1>2, <1>3, <1>4, <1>5, <1>6, <1>7 DEF WatcherNext
<1>9. QED
  BY <1>1, <1>8 DEF WatcherInv

(* The invariant holds in every state of the watcher.                      *)
THEOREM WatcherInvariant == WatcherSpec => []WatcherInv
<1>1. WatcherInit => WatcherInv
  <2> SUFFICES ASSUME WatcherInit PROVE WatcherInv
    OBVIOUS
  <2>2. WatcherTypeOK
    BY WatcherAssumption DEF WatcherInit, WatcherTypeOK, Subscription
  <2>3. ASSUME NEW c \in Consumers
        PROVE  Tracks(c) /\ InOrder(c) /\ CallsAreTold(c) /\ GapsAreOwn(c)
    <3>1. /\ Len(log) = 0 /\ Len(handled[c]) = 0 /\ handled[c] = <<>>
          /\ watch[c].next = 1 /\ watch[c].missed = {}
      BY EmptySeq DEF WatcherInit
    <3>2. \A t : t \notin Reported(c)
      BY <3>1 DEF Reported
    <3>3. QED
      BY <3>1, <3>2 DEF Tracks, InOrder, CallsAreTold, GapsAreOwn, Told
  <2>4. QED
    BY <2>2, <2>3 DEF WatcherInv
<1>2. WatcherInv /\ [WatcherNext]_watcherVars => WatcherInv'
  <2> SUFFICES ASSUME WatcherInv, [WatcherNext]_watcherVars PROVE WatcherInv'
    OBVIOUS
  <2>2. CASE WatcherNext
    BY <2>2, WatcherStep
  <2>3. CASE UNCHANGED watcherVars
    <3>1. log' = log /\ watch' = watch /\ handled' = handled /\ threw' = threw
      BY <2>3 DEF watcherVars
    <3>2. WatcherTypeOK'
      BY <3>1 DEF WatcherInv, WatcherTypeOK
    <3>3. \A c \in Consumers : (Tracks(c) /\ InOrder(c) /\ CallsAreTold(c) /\ GapsAreOwn(c))'
      BY <3>1, OthersStep
    <3>4. QED
      BY <3>2, <3>3 DEF WatcherInv
  <2>4. QED
    BY <2>2, <2>3
<1>3. QED
  BY <1>1, <1>2, PTL DEF WatcherSpec

(***************************************************************************)
(* The handler calls of a consumer follow the order of the log and none is *)
(* made twice: the loops of watcher.ts.                                    *)
(***************************************************************************)
THEOREM CallsFollowTheLog == WatcherSpec => []HandledInLogOrder
<1>1. WatcherInv => HandledInLogOrder
  BY InvariantImplies
<1>2. QED
  BY <1>1, WatcherInvariant, PTL

(***************************************************************************)
(* What a consumer was told of and asked for it is called with, but for    *)
(* the event decodeField cannot read and for what follows a call of its    *)
(* own that threw: neither another consumer's fault nor that of an earlier *)
(* transaction costs it an event.                                          *)
(***************************************************************************)
THEOREM FaultsStayWithTheirConsumer == WatcherSpec => []OnlyItsOwnFaultsCostEvents
<1>1. WatcherInv => OnlyItsOwnFaultsCostEvents
  BY InvariantImplies
<1>2. QED
  BY <1>1, WatcherInvariant, PTL
=============================================================================
